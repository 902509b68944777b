------------------------------ MODULE QrMatrix ------------------------------
(***************************************************************************)
(* The browser's QR encoder (qrMatrix in the console's page): from the     *)
(* length of the pairing code to the grid of modules that the phone scans. *)
(* What is at stake is where everything goes: which version holds the      *)
(* payload, how the codewords of the blocks are interleaved, which modules *)
(* belong to patterns and which to data.                                   *)
(*                                                                         *)
(* A codeword is its number: those of the data in the order of the stream, *)
(* then those of error correction, block by block.  Their values (bytes,   *)
(* Reed-Solomon, masks) and the choice of the mask by penalty are left     *)
(* out.  Modules are <<x, y>>, columns first, as in the code's setF.       *)
(*                                                                         *)
(* A definition marked "Wrong:" is a plausible bug in the one after it;    *)
(* no action uses it.                                                      *)
(***************************************************************************)
EXTENDS Integers, Sequences, FiniteSets, SequencesExt

CONSTANT Lengths   \* the lengths of the payload, in bytes

ASSUME LengthsAssumption == Lengths \subseteq Nat

VARIABLES
    pc,
    length,    \* bytes.length
    version,   \* 0: none yet
    finalCw,   \* the codewords in the order of transmission
    M,         \* the grid: what each module shows, Free if it is data
    filled,    \* the data modules, in the order of the bits that they show
    right,     \* the right one of the two columns that are filled next
    mask

vars == <<pc, length, version, finalCw, M, filled, right, mask>>

-----------------------------------------------------------------------------
(* Versions and their capacity *)

\* Error correction codewords of a block, and blocks, at level M.
ECC_M == <<
    <<10, 1>>, <<16, 1>>, <<26, 1>>, <<18, 2>>, <<24, 2>>,
    <<16, 4>>, <<18, 4>>, <<22, 4>>, <<22, 5>>, <<26, 5>>,
    <<30, 5>>, <<22, 8>>, <<22, 9>>, <<24, 9>>, <<24, 10>>,
    <<28, 10>>, <<28, 11>>, <<26, 13>>, <<26, 14>>, <<26, 16>> >>

Alignments(v) == v \div 7 + 2

RawDataModules(v) ==
    LET n == Alignments(v)
    IN  (16 * v + 128) * v + 64
          - (IF v >= 2 THEN (25 * n - 10) * n - 55 ELSE 0)
          - (IF v >= 7 THEN 36 ELSE 0)

TotalCodewords(v) == RawDataModules(v) \div 8
EcPerBlock(v) == ECC_M[v][1]
NumBlocks(v) == ECC_M[v][2]
DataCw(v) == TotalCodewords(v) - EcPerBlock(v) * NumBlocks(v)

\* Wrong: the count of the bytes has 8 bits in every version.
StreamBitsShort(v, n) == 4 + 8 + n * 8

\* Mode, count and payload.
StreamBits(v, n) == 4 + (IF v <= 9 THEN 8 ELSE 16) + n * 8

Holding(n) == {v \in 1 .. 20 : StreamBits(v, n) <= DataCw(v) * 8}

-----------------------------------------------------------------------------
(* Blocks *)

ShortLen(v) == DataCw(v) \div NumBlocks(v)
NumLong(v) == DataCw(v) % NumBlocks(v)

BlockLen(v, b) == ShortLen(v) + (IF b >= NumBlocks(v) - NumLong(v) THEN 1 ELSE 0)

\* The first codeword of block b: off after b turns of the loop.
Offset(v, b) == MapThenSumSet(LAMBDA k : BlockLen(v, k), 0 .. b - 1)

\* The i-th codewords of the blocks that have one.
DataRow(v, i) ==
    LET row == [b \in 1 .. NumBlocks(v) |->
                  IF i < BlockLen(v, b - 1) THEN <<Offset(v, b - 1) + i>> ELSE <<>>]
    IN  FlattenSeq(row)

EccRow(v, i) ==
    [b \in 1 .. NumBlocks(v) |-> DataCw(v) + (b - 1) * EcPerBlock(v) + i]

\* Wrong: as many turns as the short blocks have codewords.
InterleavedShort(v) ==
    FlattenSeq([i \in 1 .. ShortLen(v) |-> DataRow(v, i - 1)])
      \o FlattenSeq([i \in 1 .. EcPerBlock(v) |-> EccRow(v, i - 1)])

Interleaved(v) ==
    FlattenSeq([i \in 1 .. ShortLen(v) + 1 |-> DataRow(v, i - 1)])
      \o FlattenSeq([i \in 1 .. EcPerBlock(v) |-> EccRow(v, i - 1)])

-----------------------------------------------------------------------------
(* The grid *)

Size(v) == 17 + 4 * v
Grid(v) == (0 .. Size(v) - 1) \X (0 .. Size(v) - 1)

Dark == <<"dark">>
Light == <<"light">>
Free == <<"free">>
Colour(b) == IF b THEN Dark ELSE Light

Abs(n) == IF n < 0 THEN -n ELSE n
Ring(c, at) ==
    LET dx == Abs(c[1] - at[1])
        dy == Abs(c[2] - at[2])
    IN  IF dx > dy THEN dx ELSE dy

AlignPositions(v) ==
    LET n == Alignments(v)
        step == ((4 * v + 4 + 2 * n - 3) \div (2 * n - 2)) * 2
    IN  IF v = 1 THEN {}
        ELSE {6} \cup {Size(v) - 7 - k * step : k \in 0 .. n - 2}

AlignCentres(v) ==
    (AlignPositions(v) \X AlignPositions(v))
      \ {<<6, 6>>, <<6, Size(v) - 7>>, <<Size(v) - 7, 6>>}

FinderCentres(v) == {<<3, 3>>, <<Size(v) - 4, 3>>, <<3, Size(v) - 4>>}

\* Ring 4 is the separator.
FinderColour(r) == Colour(r <= 3 /\ r # 2)
AlignColour(r) == Colour(r # 1)
TimingColour(c) == Colour((c[1] + c[2]) % 2 = 0)

OnTiming(v, c) ==
    \/ c[2] = 6 /\ c[1] \in 8 .. Size(v) - 9
    \/ c[1] = 6 /\ c[2] \in 8 .. Size(v) - 9

DarkModule(v) == <<8, Size(v) - 8>>

\* What a module shows when finders, timing, alignment and the dark module are drawn in
\* this order: what is drawn last.
Drawn(v, c) ==
    LET marks(centres, reach) == {at \in centres : Ring(c, at) <= reach}
        aligned == marks(AlignCentres(v), 2)
        found == marks(FinderCentres(v), 4)
    IN  IF c = DarkModule(v) THEN Dark
        ELSE IF aligned # {} THEN AlignColour(Ring(c, CHOOSE at \in aligned : TRUE))
        ELSE IF OnTiming(v, c) THEN TimingColour(c)
        ELSE IF found # {} THEN FinderColour(Ring(c, CHOOSE at \in found : TRUE))
        ELSE Free

BesideFinder(c) == (c[2] = 8 /\ c[1] <= 8) \/ (c[1] = 8 /\ c[2] <= 8)
BesideOthers(v, c) == (c[2] = 8 /\ c[1] >= Size(v) - 8) \/ (c[1] = 8 /\ c[2] >= Size(v) - 8)

\* Wrong: what the timing patterns have drawn is cleared too.
FormatAreaCleared(v, c) == BesideFinder(c) \/ BesideOthers(v, c)

\* What is kept free of data for the format, by the first finder and by the others.
FormatArea(v, c) == (BesideFinder(c) /\ Drawn(v, c) = Free) \/ BesideOthers(v, c)

\* The bit of the version that a module shows, twice, from version 7 on.
VersionBits(v, c) ==
    LET last == Size(v) - 11
        bit(a, b) == IF a \in 0 .. 5 /\ b \in last .. last + 2 THEN {3 * a + b - last} ELSE {}
    IN  IF v >= 7 THEN bit(c[1], c[2]) \cup bit(c[2], c[1]) ELSE {}

Patterns(v) ==
    [c \in Grid(v) |->
        IF VersionBits(v, c) # {} THEN <<"version", Min(VersionBits(v, c))>>
        ELSE IF FormatArea(v, c) THEN Light
        ELSE Drawn(v, c)]

\* F: modules of the patterns, which the data leaves alone.
Fixed(c) == M[c] # Free

\* Wrong: the pairs of columns are counted on over the timing column.
NextRightStraight(r) == r - 2

NextRight(r) == IF r - 2 = 6 THEN 5 ELSE r - 2

\* The modules of two columns, in turn up and down.
Zigzag(v, r) ==
    LET upward == ((r + 1) \div 2) % 2 = 0
    IN  [n \in 1 .. 2 * Size(v) |->
            LET vert == (n - 1) \div 2
            IN  <<r - ((n - 1) % 2), IF upward THEN Size(v) - 1 - vert ELSE vert>>]

\* Those of them that show data, in the same order.
DataModules(v, r) ==
    FlattenSeq([n \in 1 .. 2 * Size(v) |->
                  IF Fixed(Zigzag(v, r)[n]) THEN <<>> ELSE <<Zigzag(v, r)[n]>>])

FormatCopy1 ==
    [i \in 0 .. 14 |-> IF i <= 5 THEN <<8, i>>
                       ELSE IF i = 6 THEN <<8, 7>>
                       ELSE IF i = 7 THEN <<8, 8>>
                       ELSE IF i = 8 THEN <<7, 8>>
                       ELSE <<14 - i, 8>>]

\* 8 bits in the row and 7 in the column.
FormatCopy2(v) ==
    [i \in 0 .. 14 |-> IF i < 8 THEN <<Size(v) - 1 - i, 8>> ELSE <<8, Size(v) - 15 + i>>]

\* The bits of the format that a module shows.
FormatBits(v, c) == {i \in 0 .. 14 : c \in {FormatCopy1[i], FormatCopy2(v)[i]}}

\* The copies of the format are put over what is there, then the dark module.
Formatted(v, grid) ==
    [c \in DOMAIN grid |->
        IF c = DarkModule(v) THEN Dark
        ELSE IF FormatBits(v, c) # {} THEN <<"format", Min(FormatBits(v, c))>>
        ELSE grid[c]]

-----------------------------------------------------------------------------
Init ==
    /\ pc = "version"
    /\ length \in Lengths
    /\ version = 0
    /\ finalCw = <<>>
    /\ M = <<>>
    /\ filled = <<>>
    /\ right = 0
    /\ mask = 0

ChooseVersion ==
    /\ pc = "version"
    /\ Holding(length) # {}
    /\ version' = Min(Holding(length))
    /\ pc' = "blocks"
    /\ UNCHANGED <<length, finalCw, M, filled, right, mask>>

\* throw new Error('payload too large')
TooLarge ==
    /\ pc = "version"
    /\ Holding(length) = {}
    /\ pc' = "failed"
    /\ UNCHANGED <<length, version, finalCw, M, filled, right, mask>>

SplitBlocks ==
    /\ pc = "blocks"
    /\ finalCw' = Interleaved(version)
    /\ pc' = "patterns"
    /\ UNCHANGED <<length, version, M, filled, right, mask>>

DrawPatterns ==
    /\ pc = "patterns"
    /\ M' = Patterns(version)
    /\ right' = Size(version) - 1
    /\ pc' = "data"
    /\ UNCHANGED <<length, version, finalCw, filled, mask>>

\* Two columns are filled.
FillColumns ==
    /\ pc = "data"
    /\ right >= 1
    /\ filled' = filled \o DataModules(version, right)
    /\ right' = NextRight(right)
    /\ UNCHANGED <<pc, length, version, finalCw, M, mask>>

\* The mask with the least penalty: any of them.
Format(m) ==
    /\ pc = "data"
    /\ right < 1
    /\ mask' = m
    /\ M' = Formatted(version, M)
    /\ pc' = "done"
    /\ UNCHANGED <<length, version, finalCw, filled, right>>

Next ==
    \/ ChooseVersion \/ TooLarge \/ SplitBlocks \/ DrawPatterns \/ FillColumns
    \/ \E m \in 0 .. 7 : Format(m)

Spec == Init /\ [][Next]_vars

-----------------------------------------------------------------------------
(* What a reader that follows the standard (ISO/IEC 18004) relies on *)

\* The bytes that a symbol of level M holds, from the tables of the standard.
Capacity == <<14, 26, 42, 62, 84, 106, 122, 152, 180, 213,
              251, 287, 331, 362, 412, 450, 504, 560, 624, 666>>

\* A pairing code is refused only when no version up to 20 holds it, and gets the
\* smallest that does: also where the count grows from 8 to 16 bits (version 10).
VersionHoldsPayload ==
    /\ pc = "failed" => length > Capacity[20]
    /\ version > 0 => /\ length <= Capacity[version]
                      /\ version > 1 => length > Capacity[version - 1]

\* Where the reader looks for a codeword: it deals them out to the blocks in turn, the
\* long blocks alone at the end of the data, then those of error correction.
ReadPlace(v, k) ==
    LET blocks == NumBlocks(v)
        b == CHOOSE x \in 0 .. blocks - 1 : Offset(v, x) <= k /\ k < Offset(v, x) + BlockLen(v, x)
        i == k - Offset(v, b)
        e == k - DataCw(v)
    IN  IF k >= DataCw(v) THEN DataCw(v) + (e % EcPerBlock(v)) * blocks + e \div EcPerBlock(v)
        ELSE IF i < ShortLen(v) THEN i * blocks + b
        ELSE ShortLen(v) * blocks + b - (blocks - NumLong(v))

\* Every codeword of every block is where the reader looks for it, none is left out.
BlocksAreReadBack ==
    pc = "patterns" =>
        /\ Len(finalCw) = TotalCodewords(version)
        /\ \A k \in 0 .. TotalCodewords(version) - 1 : finalCw[ReadPlace(version, k) + 1] = k

Shown(kind) == {c \in DOMAIN M : M[c][1] = kind}

\* The capacity that chose the version was the true one: every bit of every codeword has
\* a module of its own, at most 7 modules are left, and none is without a meaning.
EveryBitOnce ==
    pc = "done" =>
        /\ Range(filled) = Shown("free")
        /\ Cardinality(Range(filled)) = Len(filled)
        /\ Len(filled) = RawDataModules(version)
        /\ Len(filled) - 8 * Len(finalCw) \in 0 .. 7

\* No pattern is damaged by a later one or by the format, and a reader finds each bit of
\* the format, and of the version, in both copies.
PatternsAreIntact ==
    pc = "done" =>
        LET twice(kind, n) ==
                LET cells == Shown(kind)
                IN  Cardinality(cells) = 2 * n /\ {M[c][2] : c \in cells} = 0 .. n - 1
        IN  /\ \A c \in DOMAIN M :
                 /\ \A at \in FinderCentres(version) :
                      Ring(c, at) <= 4 => M[c] = FinderColour(Ring(c, at))
                 /\ \A at \in AlignCentres(version) :
                      Ring(c, at) <= 2 => M[c] = AlignColour(Ring(c, at))
                 /\ OnTiming(version, c) => M[c] = TimingColour(c)
            /\ M[DarkModule(version)] = Dark
            /\ twice("format", 15)
            /\ twice("version", IF version >= 7 THEN 18 ELSE 0)

-----------------------------------------------------------------------------
(* The inductive invariant *)

\* Where the encoder is, and that the version is the least that holds the payload.
Chosen ==
    /\ pc \in {"version", "failed", "blocks", "patterns", "data", "done"}
    /\ length \in Lengths
    /\ version \in 0 .. 20
    /\ version = 0 <=> pc \in {"version", "failed"}
    /\ pc = "failed" => Holding(length) = {}
    /\ version > 0 => version \in Holding(length) /\ \A v \in Holding(length) : version <= v

\* The codewords and the grid are those of the version, whatever the payload and
\* whichever the mask.
OfVersion ==
    /\ pc \in {"patterns", "data", "done"} => finalCw = Interleaved(version)
    /\ pc = "data" => M = Patterns(version)
    /\ pc = "done" => M = Formatted(version, Patterns(version))

IInv == Chosen /\ OfVersion

\* Inductive together with IInv: the data modules right of the columns that are next have
\* been filled, each of them once, and no others.
Filling ==
    /\ pc \notin {"data", "done"} => filled = <<>>
    /\ pc \in {"data", "done"} =>
         /\ right \in {-1, 1, 3, 5} \cup {r \in 8 .. Size(version) - 1 : r % 2 = 0}
         /\ filled \in Seq(Grid(version))
         /\ Range(filled) = {c \in Grid(version) : Patterns(version)[c] = Free /\ c[1] > right}
         /\ Cardinality(Range(filled)) = Len(filled)
    /\ pc = "done" => right < 1
=============================================================================
