--------------------------- MODULE QrMatrixProofs ---------------------------
(***************************************************************************)
(* Proofs about QrMatrix, for payloads of every length:                    *)
(*   - the version that is chosen is the least that holds the payload, by  *)
(*     the capacities of the standard;                                     *)
(*   - everything that is drawn is a function of that version;             *)
(*   - no pattern is damaged, and each bit of the format and of the        *)
(*     version is there twice;                                             *)
(*   - every codeword is where the reader looks for it;                    *)
(*   - every bit has a module of its own: the modules that no pattern      *)
(*     covers are counted, box by box, and the zigzag through the columns  *)
(*     fills each of them once.                                            *)
(***************************************************************************)
EXTENDS QrMatrix, FunctionTheorems, FiniteSetTheorems, NaturalsInduction, TLAPS

-----------------------------------------------------------------------------
(* The version *)

\* The computed capacity is that of the standard, version by version.
LEMMA HoldsByCapacity ==
    \A v \in 1 .. 20 : \A n \in Nat : StreamBits(v, n) <= DataCw(v) * 8 <=> n <= Capacity[v]
  BY DEF StreamBits, DataCw, TotalCodewords, RawDataModules, Alignments, EcPerBlock,
         NumBlocks, ECC_M, Capacity

\* Versions grow with what they hold.
LEMMA CapacityGrows ==
    \A v \in 1 .. 20 : /\ Capacity[v] \in Nat
                       /\ \A w \in 1 .. v - 1 : Capacity[w] < Capacity[v]
  BY DEF Capacity

LEMMA HoldingIs ==
    ASSUME NEW n \in Nat
    PROVE  Holding(n) = {v \in 1 .. 20 : n <= Capacity[v]}
  BY HoldsByCapacity DEF Holding

\* If any version holds the payload there is a least one: the ones that do are those
\* from some version on.
LEMMA LeastExists ==
    ASSUME NEW n \in Nat, Holding(n) # {}
    PROVE  \E v \in Holding(n) : \A w \in Holding(n) : v <= w
  <1>1. PICK u \in 1 .. 20 : n <= Capacity[u]
    BY HoldingIs
  <1>2. n <= Capacity[20]
    BY <1>1, CapacityGrows
  <1>3. \E v \in 1 .. 20 : n <= Capacity[v] /\ (v > 1 => n > Capacity[v - 1])
    BY <1>2 DEF Capacity
  <1>4. PICK v \in 1 .. 20 : n <= Capacity[v] /\ (v > 1 => n > Capacity[v - 1])
    BY <1>3
  <1>5. ASSUME NEW w \in 1 .. 20, w < v
        PROVE  n > Capacity[w]
    <2>1. w = v - 1 \/ Capacity[w] < Capacity[v - 1]
      BY <1>5, CapacityGrows
    <2>2. QED
      BY <1>4, <1>5, <2>1, CapacityGrows
  <1>6. v \in Holding(n)
    BY <1>4, HoldingIs
  <1>7. \A w \in Holding(n) : w \in 1 .. 20 /\ ~(n > Capacity[w])
    BY HoldingIs, CapacityGrows
  <1>8. \A w \in Holding(n) : v <= w
    BY <1>5, <1>7
  <1>9. QED
    BY <1>6, <1>8

LEMMA LeastIsMin ==
    ASSUME NEW n \in Nat, Holding(n) # {}
    PROVE  /\ Min(Holding(n)) \in Holding(n)
           /\ \A w \in Holding(n) : Min(Holding(n)) <= w
  BY LeastExists DEF Min

-----------------------------------------------------------------------------
(* The invariant *)

LEMMA InitInv == Init => IInv
  BY DEF Init, IInv, Chosen, OfVersion

LEMMA StepInv == IInv /\ [Next]_vars => IInv'
  <1> SUFFICES ASSUME IInv, [Next]_vars PROVE IInv'
    OBVIOUS
  <1> USE DEF IInv, Chosen, OfVersion
  <1>1. CASE ChooseVersion
    <2>1. length \in Nat
      BY LengthsAssumption
    <2>2. version' \in Holding(length) /\ \A v \in Holding(length) : version' <= v
      BY <1>1, <2>1, LeastIsMin DEF ChooseVersion
    <2>3. version' \in 1 .. 20
      BY <2>2 DEF Holding
    <2>4. QED
      BY <1>1, <2>2, <2>3 DEF ChooseVersion
  <1>2. CASE TooLarge
    BY <1>2 DEF TooLarge
  <1>3. CASE SplitBlocks
    BY <1>3 DEF SplitBlocks
  <1>4. CASE DrawPatterns
    BY <1>4 DEF DrawPatterns
  <1>5. CASE FillColumns
    BY <1>5 DEF FillColumns
  <1>6. ASSUME NEW m \in 0 .. 7, Format(m)
        PROVE  IInv'
    BY <1>6 DEF Format
  <1>7. CASE UNCHANGED vars
    BY <1>7 DEF vars
  <1>8. QED
    BY <1>1, <1>2, <1>3, <1>4, <1>5, <1>6, <1>7 DEF Next

\* The inductive invariant, for payloads of every length.
THEOREM Invariance == Spec => []IInv
  BY InitInv, StepInv, PTL DEF Spec

\* Codewords and grid are functions of the version, which is one of twenty: payloads
\* of all lengths are drawn like those of the lengths that TLC tries.
THEOREM DrawnByVersion == Spec => []OfVersion
  BY Invariance, PTL DEF IInv

\* The least version that holds the payload is chosen, by the capacities of the standard.
THEOREM VersionIsLeast == Spec => []VersionHoldsPayload
  <1>1. IInv => VersionHoldsPayload
    <2> SUFFICES ASSUME IInv PROVE VersionHoldsPayload
      OBVIOUS
    <2>1. length \in Nat
      BY LengthsAssumption DEF IInv, Chosen
    <2>2. Holding(length) = {v \in 1 .. 20 : length <= Capacity[v]}
      BY <2>1, HoldingIs
    <2>3. pc = "failed" => length > Capacity[20]
      BY <2>1, <2>2, CapacityGrows DEF IInv, Chosen
    <2>4. version > 0 => length <= Capacity[version]
      BY <2>2 DEF IInv, Chosen
    <2>5. ASSUME version > 1
          PROVE  length > Capacity[version - 1]
      <3>1. version - 1 \in 1 .. 20 /\ version - 1 \notin Holding(length)
        BY <2>5 DEF IInv, Chosen
      <3>2. QED
        BY <2>1, <2>2, <3>1, CapacityGrows
    <2>6. QED
      BY <2>3, <2>4, <2>5 DEF VersionHoldsPayload
  <1>2. QED
    BY Invariance, <1>1, PTL

-----------------------------------------------------------------------------
(* Where the patterns are *)

LEMMA GridIs ==
    ASSUME NEW v \in 1 .. 20, NEW c \in Grid(v)
    PROVE  /\ c = <<c[1], c[2]>>
           /\ c[1] \in 0 .. Size(v) - 1
           /\ c[2] \in 0 .. Size(v) - 1
           /\ Size(v) \in Nat /\ Size(v) >= 21
           /\ v >= 7 => Size(v) >= 45
  BY DEF Grid, Size

\* A ring is a square around its centre.
LEMMA RingIs ==
    ASSUME NEW v \in 1 .. 20, NEW c \in Grid(v), NEW at \in Int \X Int
    PROVE  /\ Ring(c, at) \in Nat
           /\ \A r \in Nat :
                Ring(c, at) <= r <=> /\ c[1] - at[1] \in -r .. r
                                     /\ c[2] - at[2] \in -r .. r
           /\ c[1] = at[1] => Ring(c, at) = Abs(c[2] - at[2])
           /\ c[2] = at[2] => Ring(c, at) = Abs(c[1] - at[1])
  BY GridIs DEF Ring, Abs

\* Alignment patterns stand on even rows and columns, apart from each other, and
\* either at the ends of the grid or well away from them.
LEMMA AlignSpacing ==
    ASSUME NEW v \in 1 .. 20, NEW p \in AlignPositions(v)
    PROVE  /\ p \in Nat /\ p % 2 = 0
           /\ p = 6 \/ p = Size(v) - 7 \/ p \in 18 .. Size(v) - 19
           /\ \A q \in AlignPositions(v) : q = p \/ q - p > 4 \/ p - q > 4
  <1>1. CASE v \in 1 .. 6
    <2>1. AlignPositions(v) \subseteq {6, Size(v) - 7} /\ (v = 1 => AlignPositions(v) = {})
      BY <1>1 DEF AlignPositions, Alignments, Size
    <2>2. QED
      BY <1>1, <2>1 DEF Size
  <1>2. CASE v \in 7 .. 13
    <2>1. v \div 7 + 2 = 3 /\ (4 * v + 7) \div 4 = v + 1
      BY <1>2
    <2>2. AlignPositions(v) \subseteq {6, Size(v) - 7, Size(v) - 7 - 2 * (v + 1)}
      BY <1>2, <2>1 DEF AlignPositions, Alignments, Size
    <2>3. QED
      BY <1>2, <2>2 DEF Size
  <1>3. CASE v \in 14 .. 20
    <2> DEFINE step == ((4 * v + 9) \div 6) * 2
    <2>1. v \div 7 + 2 = 4
      BY <1>3
    <2>2. AlignPositions(v) \subseteq {6, Size(v) - 7, Size(v) - 7 - step, Size(v) - 7 - 2 * step}
      BY <1>3, <2>1 DEF AlignPositions, Alignments, Size
    <2>3. QED
      BY <1>3, <2>2 DEF Size
  <1>4. QED
    BY <1>1, <1>2, <1>3

\* No centre is at a finder's corner, and two patterns have no module in common.
LEMMA AlignCentresApart ==
    ASSUME NEW v \in 1 .. 20, NEW at \in AlignCentres(v)
    PROVE  /\ at = <<at[1], at[2]>> /\ at \in Int \X Int
           /\ at[1] % 2 = 0 /\ at[2] % 2 = 0
           /\ \A i \in 1 .. 2 : /\ at[i] = 6 \/ at[i] >= 18
                                /\ at[i] = Size(v) - 7 \/ at[i] <= Size(v) - 19
                                /\ at[i] = 6 => at[3 - i] \in 18 .. Size(v) - 19
           /\ \A bt \in AlignCentres(v) :
                bt = at \/ \E i \in 1 .. 2 : bt[i] - at[i] > 4 \/ at[i] - bt[i] > 4
  <1>1. /\ at = <<at[1], at[2]>>
        /\ at[1] \in AlignPositions(v) /\ at[2] \in AlignPositions(v)
        /\ at \notin {<<6, 6>>, <<6, Size(v) - 7>>, <<Size(v) - 7, 6>>}
    BY DEF AlignCentres
  <1>2. v # 1
    BY <1>1 DEF AlignPositions
  <1>3. Size(v) \in Nat /\ Size(v) >= 25
    BY <1>2 DEF Size
  <1>4. \A i \in 1 .. 2 : /\ at[i] \in Nat /\ at[i] % 2 = 0
                          /\ at[i] = 6 \/ at[i] = Size(v) - 7 \/ at[i] \in 18 .. Size(v) - 19
    BY <1>1, AlignSpacing
  <1>5. \A i \in 1 .. 2 : /\ at[i] = 6 \/ at[i] >= 18
                          /\ at[i] = Size(v) - 7 \/ at[i] <= Size(v) - 19
    BY <1>3, <1>4
  <1>6. \A i \in 1 .. 2 : at[i] = 6 => at[3 - i] \in 18 .. Size(v) - 19
    BY <1>1, <1>4
  <1>7. ASSUME NEW bt \in AlignCentres(v), bt # at
        PROVE  \E i \in 1 .. 2 : bt[i] - at[i] > 4 \/ at[i] - bt[i] > 4
    <2>1. bt = <<bt[1], bt[2]>> /\ bt[1] \in AlignPositions(v) /\ bt[2] \in AlignPositions(v)
      BY DEF AlignCentres
    <2>2. PICK i \in 1 .. 2 : bt[i] # at[i]
      BY <1>1, <1>7, <2>1
    <2>3. bt[i] \in AlignPositions(v) /\ at[i] \in AlignPositions(v)
      BY <1>1, <2>1
    <2>4. QED
      BY <2>2, <2>3, AlignSpacing
  <1>8. QED
    BY <1>1, <1>4, <1>5, <1>6, <1>7

LEMMA FinderCentresApart ==
    ASSUME NEW v \in 1 .. 20, NEW at \in FinderCentres(v)
    PROVE  /\ at \in Int \X Int
           /\ at \in {<<3, 3>>, <<Size(v) - 4, 3>>, <<3, Size(v) - 4>>}
  BY DEF FinderCentres, Size

\* Where the format stands: in row and column 8, not on the timing patterns.
LEMMA FormatPlaces ==
    ASSUME NEW v \in 1 .. 20, NEW c \in Grid(v), FormatBits(v, c) # {}
    PROVE  \/ c[1] = 8 /\ c[2] \in (0 .. 5) \cup {7, 8} \cup (Size(v) - 7 .. Size(v) - 1)
           \/ c[2] = 8 /\ c[1] \in (0 .. 5) \cup {7} \cup (Size(v) - 8 .. Size(v) - 1)
  <1>1. PICK i \in 0 .. 14 : c = FormatCopy1[i] \/ c = FormatCopy2(v)[i]
    BY DEF FormatBits
  <1>2. CASE c = FormatCopy1[i]
    BY <1>2, GridIs DEF FormatCopy1
  <1>3. CASE c = FormatCopy2(v)[i]
    BY <1>3, GridIs DEF FormatCopy2
  <1>4. QED
    BY <1>1, <1>2, <1>3

\* Where the version stands: beside two of the finders.
LEMMA VersionPlaces ==
    ASSUME NEW v \in 1 .. 20, NEW c \in Grid(v), VersionBits(v, c) # {}
    PROVE  /\ v >= 7
           /\ \/ c[1] \in 0 .. 5 /\ c[2] \in Size(v) - 11 .. Size(v) - 9
              \/ c[2] \in 0 .. 5 /\ c[1] \in Size(v) - 11 .. Size(v) - 9
  BY GridIs DEF VersionBits

-----------------------------------------------------------------------------
(* What each module shows *)

Symbol(v) == Formatted(v, Patterns(v))

LEMMA SymbolShows ==
    ASSUME NEW v \in 1 .. 20
    PROVE  /\ DOMAIN Symbol(v) = Grid(v)
           /\ \A c \in Grid(v) :
                Symbol(v)[c] =
                    IF c = DarkModule(v) THEN Dark
                    ELSE IF FormatBits(v, c) # {} THEN <<"format", Min(FormatBits(v, c))>>
                    ELSE IF VersionBits(v, c) # {} THEN <<"version", Min(VersionBits(v, c))>>
                    ELSE IF FormatArea(v, c) THEN Light
                    ELSE Drawn(v, c)
  BY DEF Symbol, Formatted, Patterns

\* A finder and its separator are where nothing else is drawn.
LEMMA FinderIntact ==
    ASSUME NEW v \in 1 .. 20, NEW c \in Grid(v), NEW at \in FinderCentres(v), Ring(c, at) <= 4
    PROVE  Symbol(v)[c] = FinderColour(Ring(c, at))
  <1> DEFINE S == Size(v)
  <1>1. /\ c = <<c[1], c[2]>> /\ c[1] \in 0 .. S - 1 /\ c[2] \in 0 .. S - 1
        /\ S \in Nat /\ S >= 21 /\ (v >= 7 => S >= 45)
    BY GridIs
  <1>2. /\ at \in Int \X Int /\ at \in {<<3, 3>>, <<S - 4, 3>>, <<3, S - 4>>}
        /\ c[1] - at[1] \in -4 .. 4 /\ c[2] - at[2] \in -4 .. 4
    BY FinderCentresApart, RingIs
  <1>3. \/ c[1] \in 0 .. 7 /\ c[2] \in 0 .. 7
        \/ c[1] \in S - 8 .. S - 1 /\ c[2] \in 0 .. 7
        \/ c[1] \in 0 .. 7 /\ c[2] \in S - 8 .. S - 1
    BY <1>1, <1>2
  <1>4. c # DarkModule(v) /\ ~OnTiming(v, c) /\ ~FormatArea(v, c)
    BY <1>1, <1>3 DEF DarkModule, OnTiming, FormatArea, BesideFinder, BesideOthers
  <1>5. FormatBits(v, c) = {} /\ VersionBits(v, c) = {}
    BY <1>1, <1>3, FormatPlaces, VersionPlaces
  <1>6. ASSUME NEW bt \in AlignCentres(v)
        PROVE  ~(Ring(c, bt) <= 2)
    <2>1. Ring(c, bt) <= 2 => c[1] - bt[1] \in -2 .. 2 /\ c[2] - bt[2] \in -2 .. 2
      BY AlignCentresApart, RingIs
    <2>2. /\ bt[1] \in Int /\ bt[2] \in Int
          /\ bt[1] = 6 \/ bt[1] >= 18
          /\ bt[2] = 6 \/ bt[2] >= 18
          /\ bt[1] = S - 7 \/ bt[1] <= S - 19
          /\ bt[2] = S - 7 \/ bt[2] <= S - 19
          /\ bt[1] = 6 => bt[2] \in 18 .. S - 19
          /\ bt[2] = 6 => bt[1] \in 18 .. S - 19
      BY AlignCentresApart
    <2>3. QED
      BY <1>1, <1>3, <2>1, <2>2
  <1>7. {bt \in AlignCentres(v) : Ring(c, bt) <= 2} = {}
    BY <1>6
  <1>8. {bt \in FinderCentres(v) : Ring(c, bt) <= 4} = {at}
    <2>1. ASSUME NEW bt \in FinderCentres(v), Ring(c, bt) <= 4
          PROVE  bt = at
      <3>1. /\ bt \in {<<3, 3>>, <<S - 4, 3>>, <<3, S - 4>>}
            /\ c[1] - bt[1] \in -4 .. 4 /\ c[2] - bt[2] \in -4 .. 4
        BY <2>1, FinderCentresApart, RingIs
      <3>2. QED
        BY <1>1, <1>2, <3>1
    <2>2. QED
      BY <2>1
  <1>9. Drawn(v, c) = FinderColour(Ring(c, at))
    BY <1>4, <1>7, <1>8 DEF Drawn
  <1>10. QED
    BY <1>4, <1>5, <1>9, SymbolShows

\* What is drawn at an alignment pattern is that pattern, and nothing is put over it.
LEMMA AlignIntact ==
    ASSUME NEW v \in 1 .. 20, NEW c \in Grid(v), NEW at \in AlignCentres(v), Ring(c, at) <= 2
    PROVE  Symbol(v)[c] = AlignColour(Ring(c, at))
  <1> DEFINE S == Size(v)
  <1>1. /\ c = <<c[1], c[2]>> /\ c[1] \in 0 .. S - 1 /\ c[2] \in 0 .. S - 1
        /\ S \in Nat /\ S >= 21 /\ (v >= 7 => S >= 45)
    BY GridIs
  <1>2. c[1] - at[1] \in -2 .. 2 /\ c[2] - at[2] \in -2 .. 2
    BY AlignCentresApart, RingIs
  <1>3. /\ at[1] \in Int /\ at[2] \in Int
        /\ at[1] = 6 \/ at[1] >= 18
        /\ at[2] = 6 \/ at[2] >= 18
        /\ at[1] = S - 7 \/ at[1] <= S - 19
        /\ at[2] = S - 7 \/ at[2] <= S - 19
        /\ at[1] = 6 => at[2] \in 18 .. S - 19
        /\ at[2] = 6 => at[1] \in 18 .. S - 19
    BY AlignCentresApart
  <1>4. c # DarkModule(v) /\ ~FormatArea(v, c)
    BY <1>1, <1>2, <1>3 DEF DarkModule, FormatArea, BesideFinder, BesideOthers
  <1>5. FormatBits(v, c) = {} /\ VersionBits(v, c) = {}
    BY <1>1, <1>2, <1>3, FormatPlaces, VersionPlaces
  <1>6. {bt \in AlignCentres(v) : Ring(c, bt) <= 2} = {at}
    <2>1. ASSUME NEW bt \in AlignCentres(v), Ring(c, bt) <= 2
          PROVE  bt = at
      <3>1. /\ bt \in Int \X Int
            /\ c[1] - bt[1] \in -2 .. 2 /\ c[2] - bt[2] \in -2 .. 2
        BY <2>1, AlignCentresApart, RingIs
      <3>2. bt = at \/ \E i \in 1 .. 2 : bt[i] - at[i] > 4 \/ at[i] - bt[i] > 4
        BY AlignCentresApart
      <3>3. \/ bt = at
            \/ bt[1] - at[1] > 4 \/ at[1] - bt[1] > 4
            \/ bt[2] - at[2] > 4 \/ at[2] - bt[2] > 4
        BY <3>2
      <3>4. QED
        BY <1>1, <1>2, <1>3, <3>1, <3>3
    <2>2. QED
      BY <2>1
  <1>7. Drawn(v, c) = AlignColour(Ring(c, at))
    BY <1>4, <1>6 DEF Drawn
  <1>8. QED
    BY <1>4, <1>5, <1>7, SymbolShows

\* An alignment pattern that stands on a timing pattern goes on with its colours.
LEMMA TimingIntact ==
    ASSUME NEW v \in 1 .. 20, NEW c \in Grid(v), OnTiming(v, c)
    PROVE  Symbol(v)[c] = TimingColour(c)
  <1> DEFINE S == Size(v)
  <1>1. /\ c = <<c[1], c[2]>> /\ c[1] \in 0 .. S - 1 /\ c[2] \in 0 .. S - 1
        /\ S \in Nat /\ S >= 21 /\ (v >= 7 => S >= 45)
    BY GridIs
  <1>2. \/ c[2] = 6 /\ c[1] \in 8 .. S - 9
        \/ c[1] = 6 /\ c[2] \in 8 .. S - 9
    BY DEF OnTiming
  <1>3. c # DarkModule(v)
    BY <1>1, <1>2 DEF DarkModule
  <1>4. CASE \E at \in AlignCentres(v) : Ring(c, at) <= 2
    <2>1. PICK at \in AlignCentres(v) : Ring(c, at) <= 2
      BY <1>4
    <2>2. Symbol(v)[c] = AlignColour(Ring(c, at))
      BY <2>1, AlignIntact
    <2>3. /\ at \in Int \X Int /\ at[1] % 2 = 0 /\ at[2] % 2 = 0
          /\ at[1] = 6 \/ at[1] >= 18
          /\ at[2] = 6 \/ at[2] >= 18
          /\ c[1] - at[1] \in -2 .. 2 /\ c[2] - at[2] \in -2 .. 2
      BY <2>1, AlignCentresApart, RingIs
    <2>4. \/ c[2] = 6 /\ at[2] = 6 /\ Ring(c, at) = Abs(c[1] - at[1])
          \/ c[1] = 6 /\ at[1] = 6 /\ Ring(c, at) = Abs(c[2] - at[2])
      BY <1>1, <1>2, <2>3, RingIs
    <2>5. (Ring(c, at) # 1) <=> ((c[1] + c[2]) % 2 = 0)
      BY <1>1, <2>3, <2>4 DEF Abs
    <2>6. QED
      BY <2>2, <2>5 DEF AlignColour, TimingColour, Colour
  <1>5. CASE ~ \E at \in AlignCentres(v) : Ring(c, at) <= 2
    <2>1. {at \in AlignCentres(v) : Ring(c, at) <= 2} = {}
      BY <1>5
    <2>2. Drawn(v, c) = TimingColour(c)
      BY <1>3, <2>1 DEF Drawn
    <2>3. TimingColour(c) # Free
      BY DEF TimingColour, Colour, Dark, Light, Free
    <2>4. FormatBits(v, c) = {} /\ VersionBits(v, c) = {}
      BY <1>1, <1>2, FormatPlaces, VersionPlaces
    <2>5. ~FormatArea(v, c)
      BY <1>1, <1>2, <2>2, <2>3 DEF FormatArea, BesideOthers
    <2>6. QED
      BY <1>3, <2>2, <2>4, <2>5, SymbolShows
  <1>6. QED
    BY <1>4, <1>5

-----------------------------------------------------------------------------
(* The bits of the format and of the version *)

LEMMA MinOfOne ==
    ASSUME NEW i \in Int
    PROVE  Min({i}) = i
  BY DEF Min

\* To count a set is to number it.
Numbers(f, n, S) ==
    /\ f \in [0 .. n -> S]
    /\ \A i, j \in 0 .. n : f[i] = f[j] => i = j
    /\ \A x \in S : \E i \in 0 .. n : f[i] = x

LEMMA Counted ==
    ASSUME NEW S, NEW n \in Nat, NEW f, Numbers(f, n, S)
    PROVE  Cardinality(S) = n + 1
  <1>1. 0 \in Int /\ n \in Int
    OBVIOUS
  <1>2. IsFiniteSet(0 .. n) /\ Cardinality(0 .. n) = IF 0 > n THEN 0 ELSE n - 0 + 1
    BY <1>1, FS_Interval, Zenon
  <1>3. f \in Bijection(0 .. n, S)
    BY Fun_IsBij DEF Numbers
  <1>4. Cardinality(S) = Cardinality(0 .. n)
    BY <1>2, <1>3, Fun_ExistsBij, FS_Bijection
  <1>5. QED
    BY <1>2, <1>4

\* Two copies that have no module in common have twice as many as each.
TwoCopies(f, g, n, S) ==
    /\ f \in [0 .. n -> S] /\ g \in [0 .. n -> S]
    /\ \A i, j \in 0 .. n : /\ f[i] = f[j] => i = j
                            /\ g[i] = g[j] => i = j
                            /\ f[i] # g[j]
    /\ \A x \in S : \E i \in 0 .. n : x \in {f[i], g[i]}

LEMMA CountedTwice ==
    ASSUME NEW S, NEW n \in Nat, NEW f, NEW g, TwoCopies(f, g, n, S)
    PROVE  Cardinality(S) = 2 * (n + 1)
  <1> DEFINE m == 2 * n + 1
             both == [k \in 0 .. m |-> IF k <= n THEN f[k] ELSE g[k - n - 1]]
  <1>1. m \in Nat
    OBVIOUS
  <1>2. \A k \in 0 .. m : \/ k \in 0 .. n /\ both[k] = f[k]
                          \/ k - n - 1 \in 0 .. n /\ both[k] = g[k - n - 1]
    OBVIOUS
  <1>3. \A k \in 0 .. n : /\ k \in 0 .. m /\ both[k] = f[k]
                          /\ k + n + 1 \in 0 .. m /\ both[k + n + 1] = g[k]
    OBVIOUS
  <1>4. both = [k \in 0 .. m |-> both[k]]
    OBVIOUS
  <1> HIDE DEF both
  <1>5. both \in [0 .. m -> S]
    <2>1. \A k \in 0 .. m : both[k] \in S
      BY <1>2 DEF TwoCopies
    <2>2. QED
      BY <1>4, <2>1
  <1>6. ASSUME NEW i \in 0 .. m, NEW j \in 0 .. m, both[i] = both[j]
        PROVE  i = j
    <2>1. i - n - 1 = j - n - 1 => i = j
      OBVIOUS
    <2>2. QED
      BY <1>2, <1>6, <2>1 DEF TwoCopies
  <1>7. ASSUME NEW x \in S
        PROVE  \E i \in 0 .. m : both[i] = x
    <2>1. PICK k \in 0 .. n : x \in {f[k], g[k]}
      BY DEF TwoCopies
    <2>2. QED
      BY <1>3, <2>1
  <1>8. Numbers(both, m, S)
    BY <1>5, <1>6, <1>7 DEF Numbers
  <1>9. Cardinality(S) = m + 1
    BY <1>1, <1>8, Counted
  <1>10. QED
    BY <1>9

\* The modules of the two copies of the format are all different.
LEMMA FormatCopiesApart ==
    ASSUME NEW v \in 1 .. 20, NEW i \in 0 .. 14, NEW j \in 0 .. 14
    PROVE  /\ FormatCopy1[i] \in Grid(v) /\ FormatCopy2(v)[i] \in Grid(v)
           /\ FormatCopy1[i] = FormatCopy1[j] => i = j
           /\ FormatCopy2(v)[i] = FormatCopy2(v)[j] => i = j
           /\ FormatCopy1[i] # FormatCopy2(v)[j]
  <1>1. Size(v) \in Nat /\ Size(v) >= 21
    BY DEF Size
  <1>2. /\ FormatCopy1[i] \in Grid(v)
        /\ FormatCopy1[i] = FormatCopy1[j] => i = j
    BY <1>1 DEF FormatCopy1, Grid
  <1>3. /\ FormatCopy2(v)[i] \in Grid(v)
        /\ FormatCopy2(v)[i] = FormatCopy2(v)[j] => i = j
    BY <1>1 DEF FormatCopy2, Grid
  <1>4. FormatCopy1[i] # FormatCopy2(v)[j]
    BY <1>1 DEF FormatCopy1, FormatCopy2
  <1>5. QED
    BY <1>2, <1>3, <1>4

LEMMA FormatBitIs ==
    ASSUME NEW v \in 1 .. 20, NEW i \in 0 .. 14
    PROVE  /\ FormatBits(v, FormatCopy1[i]) = {i}
           /\ FormatBits(v, FormatCopy2(v)[i]) = {i}
  <1>1. \A j \in 0 .. 14 : /\ FormatCopy1[i] = FormatCopy1[j] => i = j
                           /\ FormatCopy2(v)[i] = FormatCopy2(v)[j] => i = j
                           /\ FormatCopy1[i] # FormatCopy2(v)[j]
                           /\ FormatCopy1[j] # FormatCopy2(v)[i]
    BY FormatCopiesApart
  <1>2. QED
    BY <1>1 DEF FormatBits

\* What is drawn is a colour.
LEMMA DrawnIsColour ==
    ASSUME NEW v, NEW c
    PROVE  Drawn(v, c) \in {Dark, Light, Free}
  BY DEF Drawn, AlignColour, TimingColour, FinderColour, Colour

\* The format is seen on the modules of its copies, and the dark module is none of them.
LEMMA FormatShown ==
    ASSUME NEW v \in 1 .. 20, NEW c \in Grid(v)
    PROVE  /\ Symbol(v)[c][1] = "format" <=> FormatBits(v, c) # {}
           /\ FormatBits(v, c) # {} => Symbol(v)[c] = <<"format", Min(FormatBits(v, c))>>
  <1>1. FormatBits(v, c) # {} => c # DarkModule(v)
    BY GridIs, FormatPlaces DEF DarkModule
  <1>2. FormatBits(v, c) # {} => Symbol(v)[c] = <<"format", Min(FormatBits(v, c))>>
    BY <1>1, SymbolShows
  <1>3. FormatBits(v, c) = {} =>
            Symbol(v)[c] \in {Dark, Light, Free, <<"version", Min(VersionBits(v, c))>>}
    BY SymbolShows, DrawnIsColour
  <1>4. QED
    BY <1>2, <1>3 DEF Dark, Light, Free

LEMMA FormatTwice ==
    ASSUME NEW v \in 1 .. 20
    PROVE  LET cells == {c \in Grid(v) : Symbol(v)[c][1] = "format"}
           IN  Cardinality(cells) = 30 /\ {Symbol(v)[c][2] : c \in cells} = 0 .. 14
  <1> DEFINE cells == {c \in Grid(v) : Symbol(v)[c][1] = "format"}
  <1>1. cells = {c \in Grid(v) : FormatBits(v, c) # {}}
    BY FormatShown
  <1>2. \A i \in 0 .. 14 : /\ FormatCopy1[i] \in cells
                           /\ Symbol(v)[FormatCopy1[i]] = <<"format", i>>
                           /\ FormatCopy2(v)[i] \in cells
    <2> SUFFICES ASSUME NEW i \in 0 .. 14
                 PROVE  /\ FormatCopy1[i] \in cells
                        /\ Symbol(v)[FormatCopy1[i]] = <<"format", i>>
                        /\ FormatCopy2(v)[i] \in cells
      OBVIOUS
    <2>1. FormatCopy1[i] \in Grid(v) /\ FormatCopy2(v)[i] \in Grid(v)
      BY FormatCopiesApart
    <2>2. FormatBits(v, FormatCopy1[i]) = {i} /\ FormatBits(v, FormatCopy2(v)[i]) = {i}
      BY FormatBitIs
    <2>3. FormatCopy1[i] \in cells /\ FormatCopy2(v)[i] \in cells
      BY <1>1, <2>1, <2>2
    <2>4. Symbol(v)[FormatCopy1[i]] = <<"format", Min({i})>>
      BY <2>1, <2>2, FormatShown
    <2>5. QED
      BY <2>3, <2>4, MinOfOne
  <1>3. \A c \in cells : \E i \in 0 .. 14 : /\ c = FormatCopy1[i] \/ c = FormatCopy2(v)[i]
                                            /\ Symbol(v)[c] = <<"format", i>>
    <2> SUFFICES ASSUME NEW c \in cells
                 PROVE  \E i \in 0 .. 14 : /\ c = FormatCopy1[i] \/ c = FormatCopy2(v)[i]
                                           /\ Symbol(v)[c] = <<"format", i>>
      OBVIOUS
    <2>1. PICK i \in 0 .. 14 : c = FormatCopy1[i] \/ c = FormatCopy2(v)[i]
      BY <1>1 DEF FormatBits
    <2>2. FormatBits(v, c) = {i}
      BY <2>1, FormatBitIs
    <2>3. Symbol(v)[c] = <<"format", i>>
      BY <2>2, FormatShown, MinOfOne
    <2>4. QED
      BY <2>1, <2>3
  <1>4. TwoCopies(FormatCopy1, FormatCopy2(v), 14, cells)
    <2>1. \A i, j \in 0 .. 14 : /\ FormatCopy1[i] = FormatCopy1[j] => i = j
                                /\ FormatCopy2(v)[i] = FormatCopy2(v)[j] => i = j
                                /\ FormatCopy1[i] # FormatCopy2(v)[j]
      BY FormatCopiesApart
    <2>2. \A c \in cells : \E i \in 0 .. 14 : c \in {FormatCopy1[i], FormatCopy2(v)[i]}
      BY <1>3
    <2>3. /\ FormatCopy1 = [i \in 0 .. 14 |-> FormatCopy1[i]]
          /\ FormatCopy2(v) = [i \in 0 .. 14 |-> FormatCopy2(v)[i]]
      BY DEF FormatCopy1, FormatCopy2
    <2> HIDE DEF cells
    <2>4. FormatCopy1 \in [0 .. 14 -> cells] /\ FormatCopy2(v) \in [0 .. 14 -> cells]
      BY <1>2, <2>3
    <2>5. QED
      BY <2>1, <2>2, <2>4 DEF TwoCopies
  <1>5. Cardinality(cells) = 30
    BY <1>4, CountedTwice
  <1>6. {Symbol(v)[c][2] : c \in cells} = 0 .. 14
    BY <1>2, <1>3
  <1>7. QED
    BY <1>5, <1>6

\* The modules that show the version, bit by bit.
VersionCopy1(v) == [i \in 0 .. 17 |-> <<i \div 3, Size(v) - 11 + (i % 3)>>]
VersionCopy2(v) == [i \in 0 .. 17 |-> <<Size(v) - 11 + (i % 3), i \div 3>>]

LEMMA VersionCopiesApart ==
    ASSUME NEW v \in 7 .. 20, NEW i \in 0 .. 17, NEW j \in 0 .. 17
    PROVE  /\ VersionCopy1(v)[i] \in Grid(v) /\ VersionCopy2(v)[i] \in Grid(v)
           /\ VersionCopy1(v)[i] = VersionCopy1(v)[j] => i = j
           /\ VersionCopy2(v)[i] = VersionCopy2(v)[j] => i = j
           /\ VersionCopy1(v)[i] # VersionCopy2(v)[j]
  <1>1. Size(v) \in Nat /\ Size(v) >= 45
    BY DEF Size
  <1>2. /\ i \div 3 \in 0 .. 5 /\ i % 3 \in 0 .. 2 /\ i = 3 * (i \div 3) + (i % 3)
        /\ j \div 3 \in 0 .. 5 /\ j % 3 \in 0 .. 2 /\ j = 3 * (j \div 3) + (j % 3)
    OBVIOUS
  <1>3. QED
    BY <1>1, <1>2 DEF VersionCopy1, VersionCopy2, Grid

LEMMA VersionBitIs ==
    ASSUME NEW v \in 7 .. 20, NEW i \in 0 .. 17
    PROVE  /\ VersionBits(v, VersionCopy1(v)[i]) = {i}
           /\ VersionBits(v, VersionCopy2(v)[i]) = {i}
  <1>1. Size(v) \in Nat /\ Size(v) >= 45
    BY DEF Size
  <1>2. i \div 3 \in 0 .. 5 /\ i % 3 \in 0 .. 2 /\ i = 3 * (i \div 3) + (i % 3)
    OBVIOUS
  <1>3. QED
    BY <1>1, <1>2 DEF VersionCopy1, VersionCopy2, VersionBits

LEMMA VersionBitAt ==
    ASSUME NEW v \in 7 .. 20, NEW c \in Grid(v), VersionBits(v, c) # {}
    PROVE  \E i \in 0 .. 17 : c \in {VersionCopy1(v)[i], VersionCopy2(v)[i]}
  <1> DEFINE last == Size(v) - 11
  <1>1. /\ c = <<c[1], c[2]>> /\ Size(v) \in Nat
        /\ c[1] \in 0 .. Size(v) - 1 /\ c[2] \in 0 .. Size(v) - 1
    BY GridIs
  <1>2. \A a \in 0 .. 5 : \A b \in last .. last + 2 :
            LET i == 3 * a + b - last
            IN  i \in 0 .. 17 /\ i \div 3 = a /\ last + (i % 3) = b
    BY <1>1
  <1>3. CASE c[1] \in 0 .. 5 /\ c[2] \in last .. last + 2
    <2>1. PICK i \in 0 .. 17 : i \div 3 = c[1] /\ last + (i % 3) = c[2]
      BY <1>2, <1>3
    <2>2. c = VersionCopy1(v)[i]
      BY <1>1, <2>1 DEF VersionCopy1
    <2>3. QED
      BY <2>2
  <1>4. CASE c[2] \in 0 .. 5 /\ c[1] \in last .. last + 2
    <2>1. PICK i \in 0 .. 17 : i \div 3 = c[2] /\ last + (i % 3) = c[1]
      BY <1>2, <1>4
    <2>2. c = VersionCopy2(v)[i]
      BY <1>1, <2>1 DEF VersionCopy2
    <2>3. QED
      BY <2>2
  <1>5. QED
    BY <1>1, <1>3, <1>4, VersionPlaces

\* Nothing is put over the version.
LEMMA VersionShown ==
    ASSUME NEW v \in 1 .. 20, NEW c \in Grid(v)
    PROVE  /\ Symbol(v)[c][1] = "version" <=> VersionBits(v, c) # {}
           /\ VersionBits(v, c) # {} => Symbol(v)[c] = <<"version", Min(VersionBits(v, c))>>
  <1>1. VersionBits(v, c) # {} => c # DarkModule(v) /\ FormatBits(v, c) = {}
    BY GridIs, FormatPlaces, VersionPlaces DEF DarkModule
  <1>2. VersionBits(v, c) # {} => Symbol(v)[c] = <<"version", Min(VersionBits(v, c))>>
    BY <1>1, SymbolShows
  <1>3. VersionBits(v, c) = {} =>
            Symbol(v)[c] \in {Dark, Light, Free, <<"format", Min(FormatBits(v, c))>>}
    BY SymbolShows, DrawnIsColour
  <1>4. QED
    BY <1>2, <1>3 DEF Dark, Light, Free

LEMMA VersionTwice ==
    ASSUME NEW v \in 7 .. 20
    PROVE  LET cells == {c \in Grid(v) : Symbol(v)[c][1] = "version"}
           IN  Cardinality(cells) = 36 /\ {Symbol(v)[c][2] : c \in cells} = 0 .. 17
  <1> DEFINE cells == {c \in Grid(v) : Symbol(v)[c][1] = "version"}
  <1>1. cells = {c \in Grid(v) : VersionBits(v, c) # {}}
    BY VersionShown
  <1>2. \A i \in 0 .. 17 : /\ VersionCopy1(v)[i] \in cells
                           /\ Symbol(v)[VersionCopy1(v)[i]] = <<"version", i>>
                           /\ VersionCopy2(v)[i] \in cells
    <2> SUFFICES ASSUME NEW i \in 0 .. 17
                 PROVE  /\ VersionCopy1(v)[i] \in cells
                        /\ Symbol(v)[VersionCopy1(v)[i]] = <<"version", i>>
                        /\ VersionCopy2(v)[i] \in cells
      OBVIOUS
    <2>1. VersionCopy1(v)[i] \in Grid(v) /\ VersionCopy2(v)[i] \in Grid(v)
      BY VersionCopiesApart
    <2>2. VersionBits(v, VersionCopy1(v)[i]) = {i} /\ VersionBits(v, VersionCopy2(v)[i]) = {i}
      BY VersionBitIs
    <2>3. VersionCopy1(v)[i] \in cells /\ VersionCopy2(v)[i] \in cells
      BY <1>1, <2>1, <2>2
    <2>4. Symbol(v)[VersionCopy1(v)[i]] = <<"version", Min({i})>>
      <3>1. \A c \in Grid(v) : VersionBits(v, c) # {} =>
                Symbol(v)[c] = <<"version", Min(VersionBits(v, c))>>
        BY VersionShown
      <3>2. VersionBits(v, VersionCopy1(v)[i]) # {}
        BY <2>2
      <3>3. Symbol(v)[VersionCopy1(v)[i]]
                = <<"version", Min(VersionBits(v, VersionCopy1(v)[i]))>>
        BY <2>1, <3>1, <3>2
      <3>4. QED
        BY <2>2, <3>3
    <2>5. QED
      BY <2>3, <2>4, MinOfOne
  <1>3. \A c \in cells : \E i \in 0 .. 17 : /\ c \in {VersionCopy1(v)[i], VersionCopy2(v)[i]}
                                            /\ Symbol(v)[c] = <<"version", i>>
    <2> SUFFICES ASSUME NEW c \in cells
                 PROVE  \E i \in 0 .. 17 : /\ c \in {VersionCopy1(v)[i], VersionCopy2(v)[i]}
                                           /\ Symbol(v)[c] = <<"version", i>>
      OBVIOUS
    <2>1. PICK i \in 0 .. 17 : c \in {VersionCopy1(v)[i], VersionCopy2(v)[i]}
      BY <1>1, VersionBitAt
    <2>2. VersionBits(v, c) = {i}
      BY <2>1, VersionBitIs
    <2>3. Symbol(v)[c] = <<"version", i>>
      BY <2>2, VersionShown, MinOfOne
    <2>4. QED
      BY <2>1, <2>3
  <1>4. TwoCopies(VersionCopy1(v), VersionCopy2(v), 17, cells)
    <2>1. \A i, j \in 0 .. 17 : /\ VersionCopy1(v)[i] = VersionCopy1(v)[j] => i = j
                                /\ VersionCopy2(v)[i] = VersionCopy2(v)[j] => i = j
                                /\ VersionCopy1(v)[i] # VersionCopy2(v)[j]
      BY VersionCopiesApart
    <2>2. \A c \in cells : \E i \in 0 .. 17 : c \in {VersionCopy1(v)[i], VersionCopy2(v)[i]}
      BY <1>3
    <2>3. /\ VersionCopy1(v) = [i \in 0 .. 17 |-> VersionCopy1(v)[i]]
          /\ VersionCopy2(v) = [i \in 0 .. 17 |-> VersionCopy2(v)[i]]
      BY DEF VersionCopy1, VersionCopy2
    <2> HIDE DEF cells
    <2>4. /\ VersionCopy1(v) \in [0 .. 17 -> cells]
          /\ VersionCopy2(v) \in [0 .. 17 -> cells]
      BY <1>2, <2>3
    <2>5. QED
      BY <2>1, <2>2, <2>4 DEF TwoCopies
  <1>5. Cardinality(cells) = 36
    BY <1>4, CountedTwice
  <1>6. {Symbol(v)[c][2] : c \in cells} = 0 .. 17
    BY <1>2, <1>3
  <1>7. QED
    BY <1>5, <1>6

\* Below version 7 there is no such field.
LEMMA VersionAbsent ==
    ASSUME NEW v \in 1 .. 6, NEW c \in Grid(v)
    PROVE  Symbol(v)[c][1] # "version"
  <1>1. VersionBits(v, c) = {}
    BY DEF VersionBits
  <1>2. QED
    BY <1>1, VersionShown

-----------------------------------------------------------------------------
(* The symbol as a reader finds it *)

LEMMA DarkModuleShown ==
    ASSUME NEW v \in 1 .. 20
    PROVE  Symbol(v)[DarkModule(v)] = Dark
  <1>1. DarkModule(v) \in Grid(v)
    BY DEF DarkModule, Grid, Size
  <1>2. QED
    BY <1>1, SymbolShows

\* In every version no pattern is damaged, by a later one or by the format, and each
\* bit of the format and of the version is there twice.
THEOREM PatternsIntact == Spec => []PatternsAreIntact
  <1>1. IInv => PatternsAreIntact
    <2> SUFFICES ASSUME IInv, pc = "done" PROVE PatternsAreIntact
      BY DEF PatternsAreIntact
    <2>1. version \in 1 .. 20 /\ M = Symbol(version)
      BY DEF IInv, Chosen, OfVersion, Symbol
    <2>2. DOMAIN M = Grid(version)
      BY <2>1, SymbolShows
    <2>3. \A c \in DOMAIN M : \A at \in FinderCentres(version) :
              Ring(c, at) <= 4 => M[c] = FinderColour(Ring(c, at))
      BY <2>1, <2>2, FinderIntact
    <2>4. \A c \in DOMAIN M : \A at \in AlignCentres(version) :
              Ring(c, at) <= 2 => M[c] = AlignColour(Ring(c, at))
      BY <2>1, <2>2, AlignIntact
    <2>5. \A c \in DOMAIN M : OnTiming(version, c) => M[c] = TimingColour(c)
      BY <2>1, <2>2, TimingIntact
    <2>6. M[DarkModule(version)] = Dark
      BY <2>1, DarkModuleShown
    <2>7. /\ Cardinality(Shown("format")) = 30
          /\ {M[c][2] : c \in Shown("format")} = 0 .. 14
      BY <2>1, <2>2, FormatTwice DEF Shown
    <2> DEFINE n == IF version >= 7 THEN 18 ELSE 0
    <2>8. /\ Cardinality(Shown("version")) = 2 * n
          /\ {M[c][2] : c \in Shown("version")} = 0 .. n - 1
      <3>1. CASE version >= 7
        <4>1. version \in 7 .. 20 /\ 2 * n = 36 /\ 0 .. n - 1 = 0 .. 17
          BY <2>1, <3>1
        <4>2. /\ Cardinality(Shown("version")) = 36
              /\ {M[c][2] : c \in Shown("version")} = 0 .. 17
          <5>1. Shown("version") = {c \in Grid(version) : Symbol(version)[c][1] = "version"}
            BY <2>1, <2>2 DEF Shown
          <5> DEFINE cells == {c \in Grid(version) : Symbol(version)[c][1] = "version"}
          <5>2. Cardinality(cells) = 36 /\ {Symbol(version)[c][2] : c \in cells} = 0 .. 17
            BY <4>1, VersionTwice
          <5> HIDE DEF cells
          <5>3. Shown("version") = cells
            BY <5>1 DEF cells
          <5>4. QED
            BY <2>1, <5>2, <5>3
        <4>3. QED
          BY <4>1, <4>2
      <3>2. CASE version < 7
        <4>1. version \in 1 .. 6 /\ 2 * n = 0 /\ 0 .. n - 1 = {}
          BY <2>1, <3>2
        <4>2. Shown("version") = {}
          BY <2>1, <2>2, <4>1, VersionAbsent DEF Shown
        <4>3. Cardinality(Shown("version")) = 0
          BY <4>2, FS_EmptySet
        <4>4. {M[c][2] : c \in Shown("version")} = {}
          BY <4>2
        <4>5. QED
          BY <4>1, <4>3, <4>4
      <3>3. QED
        BY <2>1, <3>1, <3>2
    <2>9. QED
      BY <2>3, <2>4, <2>5, <2>6, <2>7, <2>8 DEF PatternsAreIntact
  <1>2. QED
    BY Invariance, <1>1, PTL

-----------------------------------------------------------------------------
(* Sequences that are joined *)

\* What holds at the first number, and with each number at the next, holds at all.
LEMMA Inductive ==
    ASSUME NEW a \in Int, NEW n \in Int, NEW T, a \in T,
           \A i \in a .. n - 1 : i \in T => i + 1 \in T
    PROVE  \A i \in a .. n : i \in T
  <1> DEFINE C == {i \in Nat : a + i <= n /\ a + i \notin T}
  <1> SUFFICES ASSUME NEW k \in a .. n, k \notin T
               PROVE  FALSE
    OBVIOUS
  <1>1. C \in SUBSET Nat /\ k - a \in C
    OBVIOUS
  <1>2. \E x \in C : \A y \in C : ~ (<<y, x>> \in OpToRel(<, Nat))
    BY <1>1, NatLessThanWellFounded, WFMin, Zenon
  <1>3. PICK x \in C : \A y \in C : ~ (<<y, x>> \in OpToRel(<, Nat))
    BY <1>2
  <1>4. x \in Nat /\ a + x <= n /\ a + x \notin T
    BY <1>3
  <1>5. \A y \in C : ~ (y < x)
    BY <1>3, <1>4 DEF OpToRel
  <1>6. x # 0
    <2>1. x = 0 => a + x = a
      OBVIOUS
    <2>2. QED
      BY <1>4, <2>1
  <1>7. x - 1 \in Nat /\ a + (x - 1) <= n /\ x - 1 < x
    BY <1>4, <1>6
  <1>8. a + (x - 1) \in T
    BY <1>5, <1>7
  <1>9. a + (x - 1) \in a .. n - 1 /\ (a + (x - 1)) + 1 = a + x
    BY <1>4, <1>7
  <1>10. QED
    BY <1>4, <1>8, <1>9

\* What FlattenSeq computes as it goes: the first sequences, joined.
Flattens(g, n, seqs) ==
    g = [i \in 1 .. n |-> IF i = 1 THEN seqs[i] ELSE g[i - 1] \o seqs[i]]

\* There is such a function: it is extended one sequence at a time.
LEMMA FlattenExists ==
  ASSUME NEW seqs, NEW L \in Nat \ {0}
  PROVE  \E g : Flattens(g, L, seqs)
  <1> DEFINE T == {n \in 1 .. L : \E g : Flattens(g, n, seqs)}
  <1>1. 1 \in T
    <2>1. Flattens([i \in 1 .. 1 |-> seqs[i]], 1, seqs)
      BY DEF Flattens
    <2>2. QED
      BY <2>1
  <1>2. ASSUME NEW n \in 1 .. L - 1, n \in T
        PROVE  n + 1 \in T
    <2>1. PICK g : Flattens(g, n, seqs)
      BY <1>2
    <2> DEFINE h == [i \in 1 .. n + 1 |-> IF i <= n THEN g[i] ELSE g[n] \o seqs[n + 1]]
    <2>2. \A i \in 1 .. n : h[i] = IF i = 1 THEN seqs[i] ELSE h[i - 1] \o seqs[i]
      <3> SUFFICES ASSUME NEW i \in 1 .. n
                   PROVE  h[i] = IF i = 1 THEN seqs[i] ELSE h[i - 1] \o seqs[i]
        OBVIOUS
      <3>1. h[i] = g[i]
        OBVIOUS
      <3>2. g[i] = IF i = 1 THEN seqs[i] ELSE g[i - 1] \o seqs[i]
        BY <2>1 DEF Flattens
      <3>3. i # 1 => h[i-1] = g[i-1]
        OBVIOUS
      <3> QED BY <3>1, <3>2, <3>3
    <2>3. h[n + 1] = h[n] \o seqs[n + 1]
      <3>1. n \in 1 .. n + 1 /\ n <= n /\ n + 1 \in 1 .. n + 1 /\ ~(n + 1 <= n)
        OBVIOUS
      <3>2. QED
        BY <3>1
    <2>4. h = [i \in 1 .. n + 1 |-> h[i]]
      OBVIOUS
    <2> HIDE DEF h
    <2>5. \A i \in 1 .. n + 1 : h[i] = IF i = 1 THEN seqs[i] ELSE h[i - 1] \o seqs[i]
      <3> SUFFICES ASSUME NEW i \in 1 .. n + 1
                   PROVE  h[i] = IF i = 1 THEN seqs[i] ELSE h[i - 1] \o seqs[i]
        OBVIOUS
      <3>1. CASE i \in 1 .. n
        BY <2>2, <3>1
      <3>2. CASE i = n + 1
        <4>1. i # 1 /\ i - 1 = n
          BY <3>2
        <4>2. QED
          BY <2>3, <3>2, <4>1
      <3>3. QED
        BY <3>1, <3>2
    <2>6. Flattens(h, n + 1, seqs)
      BY <2>4, <2>5 DEF Flattens
    <2>7. QED
      BY <2>6
  <1>3. L \in T
    <2> HIDE DEF T
    <2>1. \A i \in 1 .. L : i \in T
      BY <1>1, <1>2, Inductive
    <2>2. QED
      BY <2>1
  <1>4. QED
    BY <1>3

\* Joined sequences are the last value of such a function.
LEMMA FlattenBy ==
  ASSUME NEW seqs, Len(seqs) \in Nat \ {0}
  PROVE  \E g : Flattens(g, Len(seqs), seqs) /\ FlattenSeq(seqs) = g[Len(seqs)]
  <1> DEFINE f == CHOOSE f : Flattens(f, Len(seqs), seqs)
  <1>1. Flattens(f, Len(seqs), seqs)
    BY FlattenExists
  <1>2. FlattenSeq(seqs) = f[Len(seqs)]
    BY DEF FlattenSeq, Flattens
  <1>4. QED
    BY <1>1, <1>2

\* A sequence and its continuation.
LEMMA ConcatAt ==
    ASSUME NEW s \in Seq(Nat), NEW t \in Seq(Nat)
    PROVE  /\ s \o t \in Seq(Nat)
           /\ Len(s) \in Nat /\ Len(t) \in Nat /\ Len(s \o t) = Len(s) + Len(t)
           /\ \A k \in 1 .. Len(s) : (s \o t)[k] = s[k]
           /\ \A b \in 1 .. Len(t) : (s \o t)[Len(s) + b] = t[b]
  <1>1. Len(s) \in Nat /\ Len(t) \in Nat
    OBVIOUS
  <1>2. s \o t \in Seq(Nat) /\ Len(s \o t) = Len(s) + Len(t)
    OBVIOUS
  <1>3. \A k \in 1 .. Len(s) + Len(t) :
            (s \o t)[k] = IF k <= Len(s) THEN s[k] ELSE t[k - Len(s)]
    OBVIOUS
  <1>4. ASSUME NEW k \in 1 .. Len(s)
        PROVE  (s \o t)[k] = s[k]
    BY <1>1, <1>3
  <1>5. ASSUME NEW b \in 1 .. Len(t)
        PROVE  (s \o t)[Len(s) + b] = t[b]
    <2>1. /\ Len(s) + b \in 1 .. Len(s) + Len(t)
          /\ ~(Len(s) + b <= Len(s))
          /\ (Len(s) + b) - Len(s) = b
      BY <1>1
    <2>2. QED
      BY <1>3, <2>1
  <1>6. QED
    BY <1>1, <1>2, <1>4, <1>5

\* Where the elements of sequences are when they are joined, P being the positions before
\* which each of them starts.
LEMMA FlattenAt ==
    ASSUME NEW L \in Nat \ {0}, NEW seqs \in [1 .. L -> Seq(Nat)],
           NEW P \in [1 .. L + 1 -> Nat], P[1] = 0,
           \A i \in 1 .. L : P[i + 1] = P[i] + Len(seqs[i])
    PROVE  /\ FlattenSeq(seqs) \in Seq(Nat)
           /\ Len(FlattenSeq(seqs)) = P[L + 1]
           /\ \A i \in 1 .. L : \A b \in 1 .. Len(seqs[i]) :
                 FlattenSeq(seqs)[P[i] + b] = seqs[i][b]
  <1>1. /\ L \in Nat \ {0}
        /\ \A i \in 1 .. L : seqs[i] \in Seq(Nat) /\ Len(seqs[i]) \in Nat
    OBVIOUS
  <1>2. PICK g : Flattens(g, L, seqs) /\ FlattenSeq(seqs) = g[L]
    <2>1. Len(seqs) = L
      OBVIOUS
    <2>2. QED
      BY <2>1, FlattenBy
  <1>3. /\ g[1] = seqs[1]
        /\ \A n \in 1 .. L - 1 : g[n + 1] = g[n] \o seqs[n + 1]
    <2>1. \A n \in 1 .. L : g[n] = IF n = 1 THEN seqs[n] ELSE g[n - 1] \o seqs[n]
      BY <1>2 DEF Flattens
    <2>2. g[1] = seqs[1]
      BY <1>1, <2>1
    <2>3. ASSUME NEW n \in 1 .. L - 1
          PROVE  g[n + 1] = g[n] \o seqs[n + 1]
      <3>1. n + 1 \in 1 .. L /\ n + 1 # 1 /\ (n + 1) - 1 = n
        BY <1>1
      <3>2. QED
        BY <2>1, <3>1
    <2>4. QED
      BY <2>2, <2>3
  <1> DEFINE At(n) == /\ g[n] \in Seq(Nat) /\ Len(g[n]) = P[n + 1]
                      /\ \A i \in 1 .. n : \A b \in 1 .. Len(seqs[i]) :
                            P[i] + b <= P[n + 1] /\ g[n][P[i] + b] = seqs[i][b]
             T == {n \in 1 .. L : At(n)}
  <1>4. 1 \in T
    <2>1. 1 \in 1 .. L /\ P[2] = Len(seqs[1]) /\ g[1] = seqs[1]
      <3>1. 1 \in 1 .. L /\ 1 + 1 = 2 /\ Len(seqs[1]) \in Nat
        BY <1>1
      <3>2. P[1 + 1] = P[1] + Len(seqs[1])
        BY <3>1
      <3>3. QED
        BY <1>3, <3>1, <3>2
    <2>2. \A i \in 1 .. 1 : i = 1
      OBVIOUS
    <2>3. \A b \in 1 .. Len(seqs[1]) : P[1] + b = b /\ b <= Len(seqs[1])
      OBVIOUS
    <2>4. QED
      BY <1>1, <2>1, <2>2, <2>3
  <1>5. ASSUME NEW n \in 1 .. L - 1, n \in T
        PROVE  n + 1 \in T
    <2>1. n \in 1 .. L /\ n + 1 \in 1 .. L /\ At(n)
      <3>1. n \in 1 .. L /\ n + 1 \in 1 .. L
        OBVIOUS
      <3>2. QED
        BY <1>5, <3>1
    <2>2. /\ P[n + 1] \in Nat /\ P[n + 2] \in Nat /\ Len(seqs[n + 1]) \in Nat
          /\ P[n + 2] = P[n + 1] + Len(seqs[n + 1])
      <3>1. P[(n + 1) + 1] = P[n + 1] + Len(seqs[n + 1])
        BY <2>1
      <3>2. (n + 1) + 1 = n + 2
        OBVIOUS
      <3>3. n + 1 \in 1 .. L + 1 /\ n + 2 \in 1 .. L + 1
        BY <2>1
      <3>4. QED
        BY <1>1, <2>1, <3>1, <3>2, <3>3
    <2>3. /\ g[n + 1] \in Seq(Nat) /\ Len(g[n + 1]) = P[n + 2]
          /\ \A k \in 1 .. P[n + 1] : g[n + 1][k] = g[n][k]
          /\ \A b \in 1 .. Len(seqs[n + 1]) : g[n + 1][P[n + 1] + b] = seqs[n + 1][b]
      <3>1. g[n] \in Seq(Nat) /\ seqs[n + 1] \in Seq(Nat)
        BY <1>1, <2>1
      <3>2. /\ g[n] \o seqs[n + 1] \in Seq(Nat)
            /\ Len(g[n] \o seqs[n + 1]) = Len(g[n]) + Len(seqs[n + 1])
            /\ \A k \in 1 .. Len(g[n]) : (g[n] \o seqs[n + 1])[k] = g[n][k]
            /\ \A b \in 1 .. Len(seqs[n + 1]) :
                  (g[n] \o seqs[n + 1])[Len(g[n]) + b] = seqs[n + 1][b]
        <4> DEFINE s == g[n]
                   t == seqs[n + 1]
        <4>1. s \in Seq(Nat) /\ t \in Seq(Nat)
          BY <3>1
        <4> HIDE DEF s, t
        <4>2. /\ s \o t \in Seq(Nat)
              /\ Len(s \o t) = Len(s) + Len(t)
              /\ \A k \in 1 .. Len(s) : (s \o t)[k] = s[k]
              /\ \A b \in 1 .. Len(t) : (s \o t)[Len(s) + b] = t[b]
          BY <4>1, ConcatAt
        <4>3. QED
          BY <4>2 DEF s, t
      <3>3. g[n + 1] = g[n] \o seqs[n + 1]
        BY <1>3
      <3>4. Len(g[n]) = P[n + 1]
        BY <2>1
      <3>5. QED
        BY <2>2, <3>2, <3>3, <3>4
    <2>4. ASSUME NEW i \in 1 .. n + 1, NEW b \in 1 .. Len(seqs[i])
          PROVE  P[i] + b <= P[n + 2] /\ g[n + 1][P[i] + b] = seqs[i][b]
      <3>1. CASE i = n + 1
        <4>1. b \in 1 .. Len(seqs[n + 1])
          BY <3>1
        <4>2. g[n + 1][P[n + 1] + b] = seqs[n + 1][b]
          BY <2>3, <4>1
        <4>3. P[n + 1] + b <= P[n + 2]
          <5> DEFINE q == P[n + 1]
                     m == Len(seqs[n + 1])
                     r == P[n + 2]
          <5>1. q \in Nat /\ m \in Nat /\ r = q + m
            BY <2>2
          <5>2. b \in 1 .. m
            BY <4>1
          <5> HIDE DEF q, m, r
          <5>3. q + b <= r
            BY <5>1, <5>2
          <5>4. QED
            BY <5>3 DEF q, r
        <4>4. QED
          BY <3>1, <4>2, <4>3
      <3>2. CASE i \in 1 .. n
        <4> HIDE DEF At
        <4>1. P[i] + b <= P[n + 1] /\ g[n][P[i] + b] = seqs[i][b]
          <5>1. i \in 1 .. n /\ At(n)
            BY <2>1, <3>2
          <5>2. \A k \in 1 .. n : \A c \in 1 .. Len(seqs[k]) :
                    P[k] + c <= P[n + 1] /\ g[n][P[k] + c] = seqs[k][c]
            BY <5>1, Zenon DEF At
          <5>3. QED
            BY <5>1, <5>2, Zenon
        <4>2. P[i] \in Nat /\ b \in Nat /\ b >= 1
          <5>1. i \in 1 .. L + 1 /\ i \in 1 .. L
            BY <3>2
          <5>2. Len(seqs[i]) \in Nat
            BY <1>1, <5>1
          <5>3. P[i] \in Nat
            BY <5>1
          <5>4. QED
            BY <5>2, <5>3
        <4>3. P[i] + b \in 1 .. P[n + 1]
          <5>1. P[n + 1] \in Nat
            BY <2>2
          <5> DEFINE p == P[i]
                     q == P[n + 1]
          <5>2. p \in Nat /\ q \in Nat /\ b \in Nat /\ b >= 1 /\ p + b <= q
            BY <4>1, <4>2, <5>1
          <5> HIDE DEF p, q
          <5>3. p + b \in 1 .. q
            BY <5>2
          <5>4. QED
            BY <5>3 DEF p, q
        <4>4. g[n + 1][P[i] + b] = seqs[i][b]
          BY <2>3, <4>1, <4>3
        <4>5. P[i] + b <= P[n + 2]
          <5> DEFINE p == P[i]
                     q == P[n + 1]
                     r == P[n + 2]
                     m == Len(seqs[n + 1])
          <5>1. q \in Nat /\ m \in Nat /\ r = q + m
            BY <2>2
          <5>2. p \in Nat /\ q \in Nat /\ b \in Nat /\ p + b <= q
            BY <2>2, <4>1, <4>2
          <5> HIDE DEF p, q, r, m
          <5>3. p + b <= r
            BY <5>1, <5>2
          <5>4. QED
            BY <5>3 DEF p, r
        <4>6. QED
          BY <4>4, <4>5
      <3>3. QED
        BY <3>1, <3>2
    <2>5. (n + 1) + 1 = n + 2
      OBVIOUS
    <2>6. At(n + 1)
      BY <2>3, <2>4, <2>5
    <2>7. QED
      BY <2>1, <2>6
  <1>6. L \in T
    <2> HIDE DEF T
    <2>1. 1 \in Int /\ L \in Int
      BY <1>1
    <2>2. \A n \in 1 .. L - 1 : n \in T => n + 1 \in T
      BY <1>5
    <2>3. \A i \in 1 .. L : i \in T
      BY <1>4, <2>1, <2>2, Inductive
    <2>4. QED
      BY <1>1, <2>3
  <1>7. QED
    BY <1>2, <1>6

-----------------------------------------------------------------------------
(* The codewords *)

\* Products of naturals, with one factor or the other a step further.
LEMMA Product ==
    ASSUME NEW m \in Nat, NEW n \in Nat
    PROVE  m * n \in Nat /\ m * (n + 1) = m * n + m /\ (m + 1) * n = m * n + n
  OBVIOUS

\* A greater factor leaves room for one more row.
LEMMA ProductGrows ==
    ASSUME NEW m \in Nat, NEW n \in Nat, NEW k \in Nat, m < k
    PROVE  m * n + n <= k * n
  <1>1. k = (m + 1) + (k - m - 1) /\ k - m - 1 \in Nat
    OBVIOUS
  <1>2. k * n = (m + 1) * n + (k - m - 1) * n
    BY <1>1
  <1>3. (k - m - 1) * n \in Nat
    BY <1>1, Product
  <1>4. QED
    BY <1>2, <1>3, Product

\* Quotient and remainder; the quotient of what is no less than the divisor is not zero.
LEMMA Divided ==
    ASSUME NEW e \in Nat, NEW m \in Nat \ {0}
    PROVE  /\ e \div m \in Nat /\ e % m \in 0 .. m - 1
           /\ e = (e \div m) * m + (e % m)
           /\ m <= e => e \div m # 0
  <1>1. e \div m \in Nat /\ e % m \in 0 .. m - 1 /\ e = m * (e \div m) + (e % m)
    OBVIOUS
  <1> DEFINE q == e \div m
             r == e % m
  <1>2. q \in Nat /\ r \in 0 .. m - 1 /\ e = m * q + r
    BY <1>1
  <1> HIDE DEF q, r
  <1>3. m * q = q * m
    BY <1>2
  <1>4. q = 0 => e = r
    BY <1>2
  <1>5. m <= e => q # 0
    BY <1>2, <1>4
  <1>6. QED
    BY <1>2, <1>3, <1>5 DEF q, r

\* Every block has a codeword of data, and the long ones have one more.
LEMMA BlocksOf ==
    ASSUME NEW v \in 1 .. 20
    PROVE  /\ NumBlocks(v) \in Nat \ {0} /\ ShortLen(v) \in Nat \ {0}
           /\ NumLong(v) \in 0 .. NumBlocks(v) - 1 /\ EcPerBlock(v) \in Nat \ {0}
           /\ DataCw(v) = ShortLen(v) * NumBlocks(v) + NumLong(v)
           /\ TotalCodewords(v) = DataCw(v) + EcPerBlock(v) * NumBlocks(v)
  <1>1. /\ DataCw(1) = 16 /\ DataCw(2) = 28 /\ DataCw(3) = 44 /\ DataCw(4) = 64
        /\ DataCw(5) = 86 /\ DataCw(6) = 108 /\ DataCw(7) = 124 /\ DataCw(8) = 154
        /\ DataCw(9) = 182 /\ DataCw(10) = 216 /\ DataCw(11) = 254 /\ DataCw(12) = 290
        /\ DataCw(13) = 334 /\ DataCw(14) = 365 /\ DataCw(15) = 415 /\ DataCw(16) = 453
        /\ DataCw(17) = 507 /\ DataCw(18) = 563 /\ DataCw(19) = 627 /\ DataCw(20) = 669
    BY DEF DataCw, TotalCodewords, RawDataModules, Alignments, EcPerBlock, NumBlocks, ECC_M
  <1>2. DataCw(v) = <<16, 28, 44, 64, 86, 108, 124, 154, 182, 216,
                       254, 290, 334, 365, 415, 453, 507, 563, 627, 669>>[v]
    BY <1>1
  <1>3. NumBlocks(v) \in Nat \ {0} /\ EcPerBlock(v) \in Nat \ {0}
    BY DEF NumBlocks, EcPerBlock, ECC_M
  <1>4. DataCw(v) \in Nat /\ NumBlocks(v) <= 16 /\ 16 <= DataCw(v)
    BY <1>2 DEF NumBlocks, ECC_M
  <1>5. /\ ShortLen(v) \in Nat \ {0} /\ NumLong(v) \in 0 .. NumBlocks(v) - 1
        /\ DataCw(v) = ShortLen(v) * NumBlocks(v) + NumLong(v)
    <2> DEFINE d == DataCw(v)
               n == NumBlocks(v)
    <2>1. d \in Nat /\ n \in Nat \ {0} /\ n <= d
      BY <1>3, <1>4
    <2> HIDE DEF d, n
    <2>2. /\ d \div n \in Nat /\ d % n \in 0 .. n - 1 /\ d \div n # 0
          /\ d = (d \div n) * n + (d % n)
      BY <2>1, Divided
    <2>3. ShortLen(v) = d \div n /\ NumLong(v) = d % n
      BY DEF ShortLen, NumLong, d, n
    <2>4. /\ ShortLen(v) \in Nat \ {0} /\ NumLong(v) \in 0 .. n - 1
          /\ d = ShortLen(v) * n + NumLong(v)
      BY <2>2, <2>3
    <2>5. QED
      BY <2>4 DEF d, n
  <1>6. TotalCodewords(v) \in Int
    BY DEF TotalCodewords, RawDataModules, Alignments
  <1>7. EcPerBlock(v) * NumBlocks(v) \in Nat
    BY <1>3, Product
  <1>8. TotalCodewords(v) = DataCw(v) + EcPerBlock(v) * NumBlocks(v)
    BY <1>6, <1>7 DEF DataCw
  <1>9. QED
    BY <1>3, <1>5, <1>8

\* The first block that is long.
FirstLong(v) == NumBlocks(v) - NumLong(v)

\* The offset of a block, summed up: the long blocks come last.
LEMMA OffsetIs ==
    ASSUME NEW v \in 1 .. 20, NEW b \in 0 .. NumBlocks(v)
    PROVE  Offset(v, b) = ShortLen(v) * b + (IF b <= FirstLong(v) THEN 0 ELSE b - FirstLong(v))
  <1> DEFINE S == ShortLen(v)
             K == 0 .. b - 1
             Long == FirstLong(v) .. NumBlocks(v) - 1
             Sums(f) == f = [s \in SUBSET K |->
                               IF s = {} THEN 0
                               ELSE LET x == CHOOSE x \in s : TRUE
                                    IN  BlockLen(v, x) + f[s \ {x}]]
             it == CHOOSE f : Sums(f)
             Sum(s) == S * Cardinality(s) + Cardinality(s \cap Long)
  <1>1. Offset(v, b) = it[K]
    BY DEF Offset, MapThenSumSet, MapThenFoldSet
  <1>2. /\ S \in Nat \ {0} /\ NumBlocks(v) \in Nat \ {0} /\ FirstLong(v) \in 1 .. NumBlocks(v)
        /\ b \in Nat
    BY BlocksOf DEF FirstLong
  <1>3. \A x \in K : BlockLen(v, x) = S + (IF x \in Long THEN 1 ELSE 0)
    BY <1>2, BlocksOf DEF BlockLen, FirstLong
  <1>4. \A s \in SUBSET K : /\ IsFiniteSet(s) /\ Cardinality(s) \in Nat
                            /\ IsFiniteSet(s \cap Long) /\ Cardinality(s \cap Long) \in Nat
    <2>1. IsFiniteSet(K)
      BY <1>2, FS_Interval
    <2> SUFFICES ASSUME NEW s \in SUBSET K
                 PROVE  /\ IsFiniteSet(s) /\ Cardinality(s) \in Nat
                        /\ IsFiniteSet(s \cap Long) /\ Cardinality(s \cap Long) \in Nat
      OBVIOUS
    <2>2. IsFiniteSet(s)
      BY <2>1, FS_Subset
    <2>3. IsFiniteSet(s \cap Long)
      BY <2>2, FS_Intersection
    <2>4. QED
      BY <2>2, <2>3, FS_CardinalityType
  <1>5. ASSUME NEW s \in SUBSET K, NEW x \in s
        PROVE  /\ s \ {x} \in SUBSET K /\ Cardinality(s \ {x}) = Cardinality(s) - 1
               /\ Sum(s) = BlockLen(v, x) + Sum(s \ {x})
    <2>1. s \ {x} \in SUBSET K /\ x \in K
      OBVIOUS
    <2>2. Cardinality(s \ {x}) = Cardinality(s) - 1
      BY <1>4, FS_RemoveElement
    <2>3. (s \ {x}) \cap Long = (s \cap Long) \ {x}
      OBVIOUS
    <2>4. Cardinality((s \ {x}) \cap Long)
            = IF x \in Long THEN Cardinality(s \cap Long) - 1 ELSE Cardinality(s \cap Long)
      <3>1. Cardinality((s \cap Long) \ {x})
            = IF x \in s \cap Long THEN Cardinality(s \cap Long) - 1 ELSE Cardinality(s \cap Long)
        BY <1>4, FS_RemoveElement
      <3>2. QED
        BY <2>3, <3>1
    <2>5. Cardinality(s) - 1 \in Nat /\ (Cardinality(s) - 1) + 1 = Cardinality(s)
      <3>1. Cardinality(s) \in Nat /\ Cardinality(s \ {x}) \in Nat
        BY <1>4, <2>1
      <3>2. QED
        BY <2>2, <3>1
    <2>6. /\ S * (Cardinality(s) - 1) \in Nat
          /\ S * Cardinality(s) = S * (Cardinality(s) - 1) + S
      <3>1. S \in Nat
        BY <1>2
      <3> HIDE DEF S
      <3>2. QED
        BY <2>5, <3>1, Product
    <2>7. BlockLen(v, x) = S + (IF x \in Long THEN 1 ELSE 0)
      BY <1>3, <2>1
    <2>8. Cardinality(s \cap Long) \in Nat
      BY <1>4
    <2>9. S \in Nat
      BY <1>2
    <2>10. Sum(s) = BlockLen(v, x) + Sum(s \ {x})
      <3> HIDE DEF S, Long
      <3>1. QED
        BY <2>2, <2>4, <2>6, <2>7, <2>8, <2>9
    <2>11. QED
      BY <2>1, <2>2, <2>10
  <1>6. Sum({}) = 0
    BY <1>2, FS_EmptySet
  <1> HIDE DEF K, Long, Sum
  <1>7. Sums([s \in SUBSET K |-> Sum(s)])
    <2> DEFINE g == [s \in SUBSET K |-> Sum(s)]
    <2>1. ASSUME NEW s \in SUBSET K
          PROVE  Sum(s) = IF s = {} THEN 0
                          ELSE LET x == CHOOSE x \in s : TRUE
                               IN  BlockLen(v, x) + g[s \ {x}]
      <3>1. CASE s = {}
        BY <1>6, <3>1
      <3>2. CASE s # {}
        <4>1. PICK y : y = CHOOSE x \in s : TRUE
          OBVIOUS
        <4>2. y \in s
          BY <3>2, <4>1
        <4>3. Sum(s) = BlockLen(v, y) + g[s \ {y}]
          BY <1>5, <4>2
        <4>4. QED
          BY <3>2, <4>1, <4>3
      <3>3. QED
        BY <3>1, <3>2
    <2>2. QED
      BY <2>1
  <1>8. Sums(it)
    BY <1>7
  <1>9. \A s \in SUBSET K : it[s] = IF s = {} THEN 0
                                    ELSE LET x == CHOOSE x \in s : TRUE
                                         IN  BlockLen(v, x) + it[s \ {x}]
    BY <1>8
  <1> HIDE DEF it
  <1> DEFINE T == {n \in 0 .. b : \A s \in SUBSET K : Cardinality(s) = n => it[s] = Sum(s)}
  <1>10. 0 \in T
    <2>1. ASSUME NEW s \in SUBSET K, Cardinality(s) = 0
          PROVE  it[s] = Sum(s)
      <3>1. s = {}
        BY <1>4, <2>1, FS_EmptySet
      <3>2. QED
        BY <1>6, <1>9, <3>1
    <2>2. QED
      BY <1>2, <2>1
  <1>11. ASSUME NEW n \in 0 .. b - 1, n \in T
         PROVE  n + 1 \in T
    <2>1. ASSUME NEW s \in SUBSET K, Cardinality(s) = n + 1
          PROVE  it[s] = Sum(s)
      <3>1. s # {}
        BY <2>1, FS_EmptySet
      <3>2. PICK y : y = CHOOSE x \in s : TRUE
        OBVIOUS
      <3>3. y \in s
        BY <3>1, <3>2
      <3>4. it[s] = BlockLen(v, y) + it[s \ {y}]
        BY <1>9, <3>1, <3>2
      <3>5. s \ {y} \in SUBSET K /\ Cardinality(s \ {y}) = n
        BY <1>5, <2>1, <3>3
      <3>6. it[s \ {y}] = Sum(s \ {y})
        BY <1>11, <3>5
      <3>7. QED
        BY <1>5, <3>3, <3>4, <3>6
    <2>2. QED
      BY <1>2, <2>1
  <1>12. b \in T
    <2> HIDE DEF T
    <2>1. \A n \in 0 .. b - 1 : n \in T => n + 1 \in T
      BY <1>11
    <2>2. \A n \in 0 .. b : n \in T
      BY <1>2, <1>10, <2>1, Inductive
    <2>3. QED
      BY <1>2, <2>2
  <1>13. Cardinality(K) = b
    BY <1>2, FS_Interval DEF K
  <1>14. it[K] = Sum(K)
    BY <1>12, <1>13
  <1>15. Cardinality(K \cap Long) = IF b <= FirstLong(v) THEN 0 ELSE b - FirstLong(v)
    <2>1. K \cap Long = FirstLong(v) .. b - 1
      BY <1>2 DEF K, Long
    <2>2. FirstLong(v) \in Int /\ b - 1 \in Int
      BY <1>2
    <2>3. Cardinality(FirstLong(v) .. b - 1)
            = IF FirstLong(v) > b - 1 THEN 0 ELSE (b - 1) - FirstLong(v) + 1
      BY <2>2, FS_Interval
    <2>4. FirstLong(v) > b - 1 <=> b <= FirstLong(v)
      BY <1>2
    <2>5. (b - 1) - FirstLong(v) + 1 = b - FirstLong(v)
      BY <1>2
    <2>6. QED
      BY <2>1, <2>3, <2>4, <2>5
  <1>16. QED
    BY <1>1, <1>13, <1>14, <1>15 DEF Sum

\* Offsets are natural numbers.
LEMMA OffsetNat ==
    ASSUME NEW v \in 1 .. 20, NEW b \in 0 .. NumBlocks(v)
    PROVE  Offset(v, b) \in Nat
  <1>1. ShortLen(v) \in Nat /\ b \in Nat /\ FirstLong(v) \in Nat
    BY BlocksOf DEF FirstLong
  <1>2. ShortLen(v) * b \in Nat
    BY <1>1, Product
  <1>3. QED
    BY <1>1, <1>2, OffsetIs

\* The i-th codewords of the blocks: one of each, or of the long blocks alone.
LEMMA DataRowIs ==
    ASSUME NEW v \in 1 .. 20, NEW i \in 0 .. ShortLen(v)
    PROVE  /\ DataRow(v, i) \in Seq(Nat)
           /\ Len(DataRow(v, i)) = IF i < ShortLen(v) THEN NumBlocks(v) ELSE NumLong(v)
           /\ \A x \in 0 .. NumBlocks(v) - 1 :
                 i < BlockLen(v, x) =>
                   /\ i = ShortLen(v) => x >= FirstLong(v)
                   /\ DataRow(v, i)[(IF i < ShortLen(v) THEN x ELSE x - FirstLong(v)) + 1]
                        = Offset(v, x) + i
  <1> DEFINE S == ShortLen(v)
             N == NumBlocks(v)
             F == FirstLong(v)
             row == [b \in 1 .. N |->
                       IF i < BlockLen(v, b - 1) THEN <<Offset(v, b - 1) + i>> ELSE <<>>]
             P == [b \in 1 .. N + 1 |->
                     IF i < S THEN b - 1 ELSE IF b - 1 <= F THEN 0 ELSE b - 1 - F]
  <1>1. /\ S \in Nat \ {0} /\ N \in Nat \ {0} /\ F \in 1 .. N /\ i \in Nat
        /\ N - F = NumLong(v) /\ i <= S
    BY BlocksOf DEF FirstLong
  <1>2. \A x \in 0 .. N - 1 : /\ Offset(v, x) \in Nat
                              /\ BlockLen(v, x) = S + (IF x >= F THEN 1 ELSE 0)
    <2>1. \A x \in 0 .. N - 1 : x \in 0 .. N
      BY <1>1
    <2>2. QED
      BY <2>1, OffsetNat DEF BlockLen, FirstLong
  <1>3. DataRow(v, i) = FlattenSeq(row)
    BY DEF DataRow
  <1>4. \A b \in 1 .. N : /\ row[b] \in Seq(Nat)
                          /\ Len(row[b]) = IF i < S \/ b - 1 >= F THEN 1 ELSE 0
                          /\ i < BlockLen(v, b - 1) => row[b][1] = Offset(v, b - 1) + i
    <2> SUFFICES ASSUME NEW b \in 1 .. N
                 PROVE  /\ row[b] \in Seq(Nat)
                        /\ Len(row[b]) = IF i < S \/ b - 1 >= F THEN 1 ELSE 0
                        /\ i < BlockLen(v, b - 1) => row[b][1] = Offset(v, b - 1) + i
      OBVIOUS
    <2>1. b - 1 \in 0 .. N - 1
      BY <1>1
    <2>2. Offset(v, b - 1) \in Nat /\ BlockLen(v, b - 1) = S + (IF b - 1 >= F THEN 1 ELSE 0)
      BY <1>2, <2>1
    <2>3. i < BlockLen(v, b - 1) <=> i < S \/ b - 1 >= F
      BY <1>1, <2>1, <2>2
    <2>4. row[b] = IF i < BlockLen(v, b - 1) THEN <<Offset(v, b - 1) + i>> ELSE <<>>
      OBVIOUS
    <2>5. Offset(v, b - 1) + i \in Nat
      BY <1>1, <2>2
    <2> HIDE DEF row, S, F, N
    <2>6. QED
      BY <2>3, <2>4, <2>5
  <1>5. row \in [1 .. N -> Seq(Nat)]
    BY <1>4
  <1>6. P \in [1 .. N + 1 -> Nat] /\ P[1] = 0
    BY <1>1
  <1>7. \A b \in 1 .. N : P[b + 1] = P[b] + Len(row[b])
    <2> SUFFICES ASSUME NEW b \in 1 .. N
                 PROVE  P[b + 1] = P[b] + Len(row[b])
      OBVIOUS
    <2>1. Len(row[b]) = IF i < S \/ b - 1 >= F THEN 1 ELSE 0
      BY <1>4
    <2>2. /\ b \in 1 .. N + 1 /\ b + 1 \in 1 .. N + 1
          /\ P[b] = IF i < S THEN b - 1 ELSE IF b - 1 <= F THEN 0 ELSE b - 1 - F
          /\ P[b + 1] = IF i < S THEN b ELSE IF b <= F THEN 0 ELSE b - F
      BY <1>1
    <2> HIDE DEF P, row, S, F, N
    <2>3. QED
      BY <1>1, <2>1, <2>2
  <1>8. /\ P[N + 1] = IF i < S THEN N ELSE N - F
        /\ \A x \in 0 .. N - 1 : P[x + 1] = IF i < S THEN x ELSE IF x <= F THEN 0 ELSE x - F
    BY <1>1
  <1> HIDE DEF P, row
  <1>10. /\ FlattenSeq(row) \in Seq(Nat)
         /\ Len(FlattenSeq(row)) = P[N + 1]
         /\ \A j \in 1 .. N : \A b \in 1 .. Len(row[j]) : FlattenSeq(row)[P[j] + b] = row[j][b]
    <2>1. N \in Nat \ {0}
      BY <1>1
    <2> HIDE DEF N, S, F
    <2>2. FlattenSeq(row) \in Seq(Nat)
      BY <1>5, <1>6, <1>7, <2>1, FlattenAt
    <2>3. Len(FlattenSeq(row)) = P[N + 1]
      BY <1>5, <1>6, <1>7, <2>1, FlattenAt
    <2>4. \A j \in 1 .. N : \A b \in 1 .. Len(row[j]) : FlattenSeq(row)[P[j] + b] = row[j][b]
      BY <1>5, <1>6, <1>7, <2>1, FlattenAt
    <2>5. QED
      BY <2>2, <2>3, <2>4
  <1>11. ASSUME NEW x \in 0 .. N - 1, i < BlockLen(v, x)
         PROVE  /\ i = S => x >= F
                /\ DataRow(v, i)[(IF i < S THEN x ELSE x - F) + 1] = Offset(v, x) + i
    <2>1. x + 1 \in 1 .. N /\ (x + 1) - 1 = x
      BY <1>1
    <2>2. i < S \/ x >= F
      BY <1>1, <1>2, <1>11
    <2>3. Len(row[x + 1]) = 1 /\ row[x + 1][1] = Offset(v, x) + i
      BY <1>4, <1>11, <2>1, <2>2
    <2>4. FlattenSeq(row)[P[x + 1] + 1] = Offset(v, x) + i
      BY <1>10, <2>1, <2>3
    <2>5. P[x + 1] = IF i < S THEN x ELSE x - F
      BY <1>1, <1>8, <2>2
    <2>6. i = S => x >= F
      BY <1>1, <2>2
    <2>7. QED
      BY <1>3, <2>4, <2>5, <2>6
  <1>12. Len(DataRow(v, i)) = IF i < S THEN N ELSE NumLong(v)
    BY <1>1, <1>3, <1>8, <1>10
  <1>13. QED
    BY <1>3, <1>10, <1>11, <1>12

\* Where the i-th codeword of block x is among those of data.
DataPlace(v, x, i) ==
    IF i < ShortLen(v) THEN i * NumBlocks(v) + x
    ELSE ShortLen(v) * NumBlocks(v) + (x - FirstLong(v))

\* The codewords of data, interleaved: how many, and each at its place.
LEMMA DataIs ==
    ASSUME NEW v \in 1 .. 20
    PROVE  LET data == FlattenSeq([i \in 1 .. ShortLen(v) + 1 |-> DataRow(v, i - 1)])
           IN  /\ data \in Seq(Nat)
               /\ Len(data) = DataCw(v)
               /\ \A x \in 0 .. NumBlocks(v) - 1 : \A i \in 0 .. BlockLen(v, x) - 1 :
                     /\ DataPlace(v, x, i) \in 0 .. DataCw(v) - 1
                     /\ data[DataPlace(v, x, i) + 1] = Offset(v, x) + i
  <1> DEFINE S == ShortLen(v)
             N == NumBlocks(v)
             F == FirstLong(v)
             rows == [i \in 1 .. S + 1 |-> DataRow(v, i - 1)]
             P == [i \in 1 .. S + 2 |-> IF i <= S + 1 THEN (i - 1) * N ELSE S * N + NumLong(v)]
  <1>1. /\ S \in Nat \ {0} /\ N \in Nat \ {0} /\ F \in 1 .. N
        /\ NumLong(v) = N - F /\ DataCw(v) = S * N + (N - F) /\ S * N \in Nat
    BY BlocksOf, Product DEF FirstLong
  <1>2. \A x \in 0 .. N - 1 : BlockLen(v, x) = S + (IF x >= F THEN 1 ELSE 0)
    BY DEF BlockLen, FirstLong
  <1>3. \A i \in 1 .. S + 1 : /\ i - 1 \in 0 .. S
                              /\ rows[i] = DataRow(v, i - 1)
                              /\ rows[i] \in Seq(Nat)
                              /\ Len(rows[i]) = IF i <= S THEN N ELSE N - F
    <2> SUFFICES ASSUME NEW i \in 1 .. S + 1
                 PROVE  /\ i - 1 \in 0 .. S
                        /\ rows[i] = DataRow(v, i - 1)
                        /\ rows[i] \in Seq(Nat)
                        /\ Len(rows[i]) = IF i <= S THEN N ELSE N - F
      OBVIOUS
    <2>1. i - 1 \in 0 .. S /\ (i - 1 < S <=> i <= S)
      BY <1>1
    <2>2. rows[i] = DataRow(v, i - 1)
      OBVIOUS
    <2>3. /\ DataRow(v, i - 1) \in Seq(Nat)
          /\ Len(DataRow(v, i - 1)) = IF i - 1 < S THEN N ELSE NumLong(v)
      BY <2>1, DataRowIs
    <2> HIDE DEF rows, S, N, F
    <2>4. QED
      BY <1>1, <2>1, <2>2, <2>3
  <1>4. \A i \in 0 .. S : i * N \in Nat /\ (i + 1) * N = i * N + N
    BY <1>1, Product
  <1>5. /\ \A i \in 1 .. S + 1 : P[i] = (i - 1) * N
        /\ P[S + 2] = S * N + (N - F)
    <2>1. \A i \in 1 .. S + 1 : i \in 1 .. S + 2 /\ i <= S + 1
      BY <1>1
    <2>2. S + 2 \in 1 .. S + 2 /\ ~(S + 2 <= S + 1)
      BY <1>1
    <2>3. QED
      BY <1>1, <2>1, <2>2
  <1>6. P \in [1 .. (S + 1) + 1 -> Nat]
    <2>1. \A i \in 1 .. S + 2 : P[i] \in Nat
      <3> SUFFICES ASSUME NEW i \in 1 .. S + 2 PROVE P[i] \in Nat
        OBVIOUS
      <3>1. CASE i = S + 2
        <4>1. N - F \in Nat
          BY <1>1
        <4>2. QED
          BY <1>1, <1>5, <3>1, <4>1
      <3>2. CASE i # S + 2
        <4>1. i \in 1 .. S + 1 /\ i - 1 \in 0 .. S
          BY <1>1, <3>2
        <4>2. QED
          BY <1>4, <1>5, <4>1
      <3>3. QED
        BY <3>1, <3>2
    <2>2. (S + 1) + 1 = S + 2
      BY <1>1
    <2>3. QED
      BY <2>1, <2>2
  <1>7. rows \in [1 .. S + 1 -> Seq(Nat)]
    BY <1>3
  <1> HIDE DEF P, rows
  <1>8. P[1] = 0
    <2>1. 1 \in 1 .. S + 1 /\ 1 - 1 = 0 /\ 0 * N = 0
      BY <1>1
    <2>2. QED
      BY <1>5, <2>1
  <1>9. \A i \in 1 .. S + 1 : P[i + 1] = P[i] + Len(rows[i])
    <2> SUFFICES ASSUME NEW i \in 1 .. S + 1
                 PROVE  P[i + 1] = P[i] + Len(rows[i])
      OBVIOUS
    <2> HIDE DEF S, N, F
    <2>1. CASE i = S + 1
      <3>1. ~(i <= S) /\ i + 1 = S + 2 /\ i - 1 = S
        BY <1>1, <2>1
      <3>2. QED
        BY <1>3, <1>5, <3>1
    <2>2. CASE i # S + 1
      <3>1. i <= S /\ i + 1 \in 1 .. S + 1 /\ (i + 1) - 1 = i /\ (i - 1) + 1 = i /\ i - 1 \in 0 .. S
        BY <1>1, <2>2
      <3>2. i * N = (i - 1) * N + N
        BY <1>4, <3>1
      <3>3. P[i + 1] = i * N /\ P[i] = (i - 1) * N /\ Len(rows[i]) = N
        BY <1>3, <1>5, <3>1
      <3>4. QED
        BY <3>2, <3>3
    <2>3. QED
      BY <2>1, <2>2
  <1> DEFINE data == FlattenSeq(rows)
  <1>10. /\ data \in Seq(Nat)
         /\ Len(data) = P[(S + 1) + 1]
         /\ \A i \in 1 .. S + 1 : \A b \in 1 .. Len(rows[i]) : data[P[i] + b] = rows[i][b]
    <2>1. S + 1 \in Nat \ {0}
      BY <1>1
    <2> HIDE DEF S, N, F
    <2>2. QED
      BY <1>6, <1>7, <1>8, <1>9, <2>1, FlattenAt
  <1>11. Len(data) = DataCw(v)
    <2>1. (S + 1) + 1 = S + 2
      BY <1>1
    <2> HIDE DEF data
    <2>2. QED
      BY <1>1, <1>5, <1>10, <2>1
  <1> HIDE DEF data
  <1>12. ASSUME NEW x \in 0 .. N - 1, NEW i \in 0 .. BlockLen(v, x) - 1
         PROVE  /\ DataPlace(v, x, i) \in 0 .. DataCw(v) - 1
                /\ data[DataPlace(v, x, i) + 1] = Offset(v, x) + i
    <2>1. /\ i \in 0 .. S /\ i < BlockLen(v, x) /\ (i = S => x >= F)
          /\ i + 1 \in 1 .. S + 1 /\ (i + 1) - 1 = i /\ x \in Nat
      BY <1>1, <1>2
    <2> DEFINE b == IF i < S THEN x ELSE x - F
    <2>2. b + 1 \in 1 .. Len(rows[i + 1]) /\ b \in Nat
      <3>1. Len(rows[i + 1]) = IF i + 1 <= S THEN N ELSE N - F
        BY <1>3, <2>1
      <3>2. CASE i < S
        <4>1. i + 1 <= S /\ b = x /\ x + 1 \in 1 .. N
          BY <1>1, <2>1, <3>2
        <4>2. QED
          BY <2>1, <3>1, <4>1
      <3>3. CASE ~(i < S)
        <4>1. ~(i + 1 <= S) /\ b = x - F /\ x - F \in Nat /\ (x - F) + 1 \in 1 .. N - F
          BY <1>1, <2>1, <3>3
        <4>2. QED
          BY <3>1, <4>1
      <3>4. QED
        BY <3>2, <3>3
    <2>3. rows[i + 1][b + 1] = Offset(v, x) + i
      <3>1. DataRow(v, i)[b + 1] = Offset(v, x) + i
        BY <2>1, DataRowIs
      <3>2. rows[i + 1] = DataRow(v, i)
        BY <1>3, <2>1
      <3>3. QED
        BY <3>1, <3>2
    <2>4. P[i + 1] = i * N /\ i * N \in Nat
      BY <1>4, <1>5, <2>1
    <2>5. data[i * N + (b + 1)] = Offset(v, x) + i
      BY <1>10, <2>1, <2>2, <2>3, <2>4
    <2>6. DataPlace(v, x, i) = i * N + b
      <3>1. ~(i < S) => i = S
        BY <1>1, <2>1
      <3>2. QED
        BY <3>1 DEF DataPlace
    <2>7. i * N + (b + 1) = (i * N + b) + 1
      BY <2>2, <2>4
    <2>8. i * N + b \in 0 .. DataCw(v) - 1
      <3>1. CASE i < S
        <4>1. i * N + N <= S * N
          BY <1>1, <2>1, <3>1, ProductGrows
        <4>2. b < N
          BY <1>1, <3>1
        <4> HIDE DEF b, S, N, F
        <4>3. i * N + b < S * N
          BY <1>1, <2>2, <2>4, <4>1, <4>2
        <4>4. QED
          BY <1>1, <2>2, <2>4, <4>3
      <3>2. CASE ~(i < S)
        <4>1. i = S
          BY <1>1, <2>1, <3>2
        <4>2. b < N - F
          BY <1>1, <2>1, <3>2
        <4> HIDE DEF b, S, N, F
        <4>3. QED
          BY <1>1, <2>2, <2>4, <4>1, <4>2
      <3>3. QED
        BY <3>1, <3>2
    <2>9. QED
      BY <2>5, <2>6, <2>7, <2>8
  <1>13. QED
    BY <1>10, <1>11, <1>12 DEF data, rows

\* Where the i-th codeword of error correction of block x is among those.
LEMMA EccIs ==
    ASSUME NEW v \in 1 .. 20
    PROVE  LET ecc == FlattenSeq([i \in 1 .. EcPerBlock(v) |-> EccRow(v, i - 1)])
           IN  /\ ecc \in Seq(Nat)
               /\ Len(ecc) = EcPerBlock(v) * NumBlocks(v)
               /\ \A x \in 0 .. NumBlocks(v) - 1 : \A i \in 0 .. EcPerBlock(v) - 1 :
                     /\ i * NumBlocks(v) + x \in 0 .. EcPerBlock(v) * NumBlocks(v) - 1
                     /\ ecc[i * NumBlocks(v) + x + 1] = DataCw(v) + x * EcPerBlock(v) + i
  <1> DEFINE E == EcPerBlock(v)
             N == NumBlocks(v)
             D == DataCw(v)
             rows == [i \in 1 .. E |-> EccRow(v, i - 1)]
             P == [i \in 1 .. E + 1 |-> (i - 1) * N]
  <1>1. E \in Nat \ {0} /\ N \in Nat \ {0} /\ D \in Nat
    <2>1. ShortLen(v) * NumBlocks(v) \in Nat
      BY BlocksOf, Product
    <2>2. QED
      BY <2>1, BlocksOf
  <1>2. \A i \in 0 .. E : i * N \in Nat /\ (i + 1) * N = i * N + N
    BY <1>1, Product
  <1>3. \A i \in 1 .. E : /\ rows[i] \in Seq(Nat)
                          /\ Len(rows[i]) = N
                          /\ \A b \in 1 .. N : rows[i][b] = D + (b - 1) * E + (i - 1)
    <2> SUFFICES ASSUME NEW i \in 1 .. E
                 PROVE  /\ rows[i] \in Seq(Nat)
                        /\ Len(rows[i]) = N
                        /\ \A b \in 1 .. N : rows[i][b] = D + (b - 1) * E + (i - 1)
      OBVIOUS
    <2>1. rows[i] = [b \in 1 .. N |-> D + (b - 1) * E + (i - 1)]
      BY DEF EccRow
    <2>2. \A b \in 1 .. N : D + (b - 1) * E + (i - 1) \in Nat
      <3> SUFFICES ASSUME NEW b \in 1 .. N
                   PROVE  D + (b - 1) * E + (i - 1) \in Nat
        OBVIOUS
      <3>1. b - 1 \in Nat /\ i - 1 \in Nat
        BY <1>1
      <3>2. (b - 1) * E \in Nat
        BY <1>1, <3>1, Product
      <3> HIDE DEF D, E
      <3>3. QED
        BY <1>1, <3>1, <3>2
    <2> HIDE DEF rows, N, D, E
    <2>3. QED
      BY <1>1, <2>1, <2>2
  <1>4. rows \in [1 .. E -> Seq(Nat)]
    BY <1>3
  <1>5. \A i \in 1 .. E + 1 : P[i] = (i - 1) * N /\ P[i] \in Nat /\ i - 1 \in 0 .. E
    <2> SUFFICES ASSUME NEW i \in 1 .. E + 1
                 PROVE  P[i] = (i - 1) * N /\ P[i] \in Nat /\ i - 1 \in 0 .. E
      OBVIOUS
    <2>1. i - 1 \in 0 .. E
      BY <1>1
    <2>2. P[i] = (i - 1) * N
      OBVIOUS
    <2>3. QED
      BY <1>2, <2>1, <2>2
  <1>6. P \in [1 .. E + 1 -> Nat]
    BY <1>5
  <1> HIDE DEF P, rows
  <1>7. P[1] = 0
    <2>1. 1 \in 1 .. E + 1 /\ 1 - 1 = 0 /\ 0 * N = 0
      BY <1>1
    <2>2. QED
      BY <1>5, <2>1
  <1>8. \A i \in 1 .. E : P[i + 1] = P[i] + Len(rows[i])
    <2> SUFFICES ASSUME NEW i \in 1 .. E
                 PROVE  P[i + 1] = P[i] + Len(rows[i])
      OBVIOUS
    <2>1. /\ i \in 1 .. E + 1 /\ i + 1 \in 1 .. E + 1
          /\ (i + 1) - 1 = i /\ (i - 1) + 1 = i /\ i - 1 \in 0 .. E
      BY <1>1
    <2> HIDE DEF E, N
    <2>2. i * N = (i - 1) * N + N
      BY <1>2, <2>1
    <2>3. P[i + 1] = i * N /\ P[i] = (i - 1) * N /\ Len(rows[i]) = N
      BY <1>3, <1>5, <2>1
    <2>4. QED
      BY <2>2, <2>3
  <1> DEFINE ecc == FlattenSeq(rows)
  <1>9. /\ ecc \in Seq(Nat)
        /\ Len(ecc) = P[E + 1]
        /\ \A i \in 1 .. E : \A b \in 1 .. Len(rows[i]) : ecc[P[i] + b] = rows[i][b]
    <2> HIDE DEF E, N
    <2>1. QED
      BY <1>1, <1>4, <1>6, <1>7, <1>8, FlattenAt
  <1> HIDE DEF ecc
  <1>10. Len(ecc) = E * N
    <2>1. E + 1 \in 1 .. E + 1 /\ (E + 1) - 1 = E
      BY <1>1
    <2>2. QED
      BY <1>5, <1>9, <2>1
  <1>11. ASSUME NEW x \in 0 .. N - 1, NEW i \in 0 .. E - 1
         PROVE  /\ i * N + x \in 0 .. E * N - 1
                /\ ecc[i * N + x + 1] = D + x * E + i
    <2>1. /\ i + 1 \in 1 .. E /\ i + 1 \in 1 .. E + 1 /\ (i + 1) - 1 = i /\ i \in 0 .. E
          /\ x + 1 \in 1 .. N /\ (x + 1) - 1 = x /\ i \in Nat /\ x \in Nat /\ i < E /\ x < N
      BY <1>1
    <2>2. i * N \in Nat
      BY <1>2, <2>1
    <2>3. rows[i + 1][x + 1] = D + x * E + i /\ Len(rows[i + 1]) = N
      BY <1>3, <2>1
    <2>4. P[i + 1] = i * N
      BY <1>5, <2>1
    <2>5. ecc[i * N + (x + 1)] = D + x * E + i
      BY <1>9, <2>1, <2>3, <2>4
    <2>6. i * N + (x + 1) = i * N + x + 1
      BY <2>1, <2>2
    <2>7. i * N + N <= E * N
      BY <1>1, <2>1, ProductGrows
    <2>8. i * N + x \in 0 .. E * N - 1
      <3>1. E * N \in Nat
        BY <1>1, Product
      <3> HIDE DEF E, N
      <3>2. QED
        BY <1>1, <2>1, <2>2, <2>7, <3>1
    <2>9. QED
      BY <2>5, <2>6, <2>8
  <1>12. QED
    BY <1>9, <1>10, <1>11 DEF ecc, rows

\* Every codeword of data is one of a block.
LEMMA InSomeBlock ==
    ASSUME NEW v \in 1 .. 20, NEW k \in 0 .. DataCw(v) - 1
    PROVE  \E x \in 0 .. NumBlocks(v) - 1 : Offset(v, x) <= k /\ k < Offset(v, x) + BlockLen(v, x)
  <1> DEFINE N == NumBlocks(v)
             F == FirstLong(v)
             S == ShortLen(v)
  <1>1. /\ N \in Nat \ {0} /\ F \in 1 .. N /\ S \in Nat \ {0}
        /\ DataCw(v) = S * N + (N - F)
    BY BlocksOf DEF FirstLong
  <1>2. \A x \in 0 .. N : Offset(v, x) \in Nat
    BY OffsetNat
  <1>3. \A x \in 0 .. N - 1 : Offset(v, x + 1) = Offset(v, x) + BlockLen(v, x)
    <2> SUFFICES ASSUME NEW x \in 0 .. N - 1
                 PROVE  Offset(v, x + 1) = Offset(v, x) + BlockLen(v, x)
      OBVIOUS
    <2>1. x \in 0 .. N /\ x + 1 \in 0 .. N /\ x \in Nat
      BY <1>1
    <2>2. S * (x + 1) = S * x + S /\ S * x \in Nat
      BY <1>1, <2>1, Product
    <2>3. Offset(v, x) = S * x + (IF x <= F THEN 0 ELSE x - F)
      BY <2>1, OffsetIs
    <2>4. Offset(v, x + 1) = S * (x + 1) + (IF x + 1 <= F THEN 0 ELSE (x + 1) - F)
      BY <2>1, OffsetIs
    <2>5. BlockLen(v, x) = S + (IF x >= F THEN 1 ELSE 0)
      BY DEF BlockLen, FirstLong
    <2>6. (IF x + 1 <= F THEN 0 ELSE (x + 1) - F)
            = (IF x <= F THEN 0 ELSE x - F) + (IF x >= F THEN 1 ELSE 0)
      BY <1>1, <2>1
    <2> HIDE DEF N, F, S
    <2>7. QED
      BY <1>1, <2>1, <2>2, <2>3, <2>4, <2>5, <2>6
  <1>4. Offset(v, 0) = 0 /\ Offset(v, N) = DataCw(v)
    <2>1. 0 \in 0 .. N /\ N \in 0 .. N /\ 0 <= F
      BY <1>1
    <2>2. Offset(v, 0) = S * 0 + 0
      BY <2>1, OffsetIs
    <2>3. Offset(v, N) = S * N + (IF N <= F THEN 0 ELSE N - F)
      BY <2>1, OffsetIs
    <2>4. (IF N <= F THEN 0 ELSE N - F) = N - F
      BY <1>1
    <2>5. S * 0 + 0 = 0
      BY <1>1
    <2>6. QED
      BY <1>1, <2>2, <2>3, <2>4, <2>5
  <1> DEFINE Past == {x \in 0 .. N : Offset(v, x) <= k}
  <1>5. SUFFICES ASSUME \A x \in 0 .. N - 1 :
                           ~(Offset(v, x) <= k /\ k < Offset(v, x) + BlockLen(v, x))
                 PROVE  FALSE
    OBVIOUS
  <1>6. 0 \in Past
    BY <1>1, <1>4
  <1>7. \A x \in 0 .. N - 1 : x \in Past => x + 1 \in Past
    <2> SUFFICES ASSUME NEW x \in 0 .. N - 1, x \in Past
                 PROVE  x + 1 \in Past
      OBVIOUS
    <2>1. x + 1 \in 0 .. N
      BY <1>1
    <2>2. ~(k < Offset(v, x) + BlockLen(v, x))
      BY <1>5
    <2>3. Offset(v, x + 1) \in Nat /\ ~(k < Offset(v, x + 1))
      BY <1>2, <1>3, <2>1, <2>2
    <2>4. Offset(v, x + 1) <= k
      BY <2>3
    <2>5. QED
      BY <2>1, <2>4
  <1>8. N \in Past
    <2> HIDE DEF Past
    <2>1. 0 \in Int /\ N \in Int
      BY <1>1
    <2> HIDE DEF N
    <2>2. \A x \in 0 .. N : x \in Past
      BY <1>6, <1>7, <2>1, Inductive
    <2>3. QED
      BY <1>1, <2>2
  <1>9. QED
    <2>1. DataCw(v) <= k
      BY <1>4, <1>8
    <2>2. DataCw(v) \in Int
      BY <1>1, <1>2, <1>4
    <2>3. QED
      BY <2>1, <2>2

\* Quotient and remainder of what fits into n rows of m.
LEMMA DivMod ==
    ASSUME NEW e \in Nat, NEW m \in Nat \ {0}, NEW n \in Nat, e < m * n
    PROVE  /\ e \div m \in 0 .. n - 1 /\ e % m \in 0 .. m - 1
           /\ e = (e \div m) * m + (e % m)
  <1>1. e \div m \in Nat /\ e % m \in 0 .. m - 1 /\ e = (e \div m) * m + (e % m)
    BY Divided
  <1> DEFINE q == e \div m
             r == e % m
  <1>2. q \in Nat /\ r \in Nat /\ e = q * m + r
    BY <1>1
  <1> HIDE DEF q, r
  <1>3. m * n = n * m
    OBVIOUS
  <1>4. q < n
    <2>1. CASE n < q
      <3>1. n * m + m <= q * m
        BY <1>2, <2>1, ProductGrows
      <3>2. QED
        BY <1>2, <1>3, <3>1
    <2>2. CASE n = q
      BY <1>2, <1>3, <2>2
    <2>3. QED
      BY <1>2, <2>1, <2>2
  <1>5. QED
    BY <1>1, <1>2, <1>3, <1>4 DEF q, r

\* Each codeword is where the reader looks for it, in all versions.
LEMMA ReadBack ==
    ASSUME NEW v \in 1 .. 20
    PROVE  /\ Len(Interleaved(v)) = TotalCodewords(v)
           /\ \A k \in 0 .. TotalCodewords(v) - 1 : Interleaved(v)[ReadPlace(v, k) + 1] = k
  <1> DEFINE S == ShortLen(v)
             N == NumBlocks(v)
             F == FirstLong(v)
             D == DataCw(v)
             E == EcPerBlock(v)
             data == FlattenSeq([i \in 1 .. S + 1 |-> DataRow(v, i - 1)])
             ecc == FlattenSeq([i \in 1 .. E |-> EccRow(v, i - 1)])
  <1>1. /\ S \in Nat \ {0} /\ N \in Nat \ {0} /\ F \in 1 .. N /\ E \in Nat \ {0} /\ D \in Nat
        /\ E * N \in Nat /\ TotalCodewords(v) = D + E * N /\ NumLong(v) = N - F
    <2>1. S * N \in Nat /\ E * N \in Nat
      BY BlocksOf, Product
    <2>2. QED
      BY <2>1, BlocksOf DEF FirstLong
  <1>2. Interleaved(v) = data \o ecc
    BY DEF Interleaved
  <1>3. /\ data \in Seq(Nat)
        /\ Len(data) = D
        /\ \A x \in 0 .. N - 1 : \A i \in 0 .. BlockLen(v, x) - 1 :
              /\ DataPlace(v, x, i) \in 0 .. D - 1
              /\ data[DataPlace(v, x, i) + 1] = Offset(v, x) + i
    BY DataIs
  <1>4. /\ ecc \in Seq(Nat)
        /\ Len(ecc) = E * N
        /\ \A x \in 0 .. N - 1 : \A i \in 0 .. E - 1 :
              /\ i * N + x \in 0 .. E * N - 1
              /\ ecc[i * N + x + 1] = D + x * E + i
    BY EccIs
  <1> HIDE DEF data, ecc
  <1>5. /\ Len(data \o ecc) = D + E * N
        /\ \A k \in 1 .. D : (data \o ecc)[k] = data[k]
        /\ \A b \in 1 .. E * N : (data \o ecc)[D + b] = ecc[b]
    <2>1. /\ Len(data \o ecc) = Len(data) + Len(ecc)
          /\ \A k \in 1 .. Len(data) : (data \o ecc)[k] = data[k]
          /\ \A b \in 1 .. Len(ecc) : (data \o ecc)[Len(data) + b] = ecc[b]
      BY <1>3, <1>4, ConcatAt
    <2>2. QED
      BY <1>3, <1>4, <2>1
  <1>6. ASSUME NEW k \in 0 .. D - 1
        PROVE  (data \o ecc)[ReadPlace(v, k) + 1] = k
    <2>1. PICK x : x = CHOOSE y \in 0 .. N - 1 :
                            Offset(v, y) <= k /\ k < Offset(v, y) + BlockLen(v, y)
      OBVIOUS
    <2>2. x \in 0 .. N - 1 /\ Offset(v, x) <= k /\ k < Offset(v, x) + BlockLen(v, x)
      BY <2>1, InSomeBlock
    <2>3. Offset(v, x) \in Nat /\ BlockLen(v, x) = S + (IF x >= F THEN 1 ELSE 0)
      <3>1. x \in 0 .. N
        BY <1>1, <2>2
      <3>2. QED
        BY <3>1, OffsetNat DEF BlockLen, FirstLong
    <2> DEFINE i == k - Offset(v, x)
    <2>4. k \in Nat /\ ~(k >= D) /\ i \in 0 .. BlockLen(v, x) - 1 /\ Offset(v, x) + i = k
      BY <1>1, <2>2, <2>3
    <2>5. ReadPlace(v, k) = IF i < S THEN i * N + x ELSE S * N + x - (N - NumLong(v))
      BY <2>1, <2>4 DEF ReadPlace
    <2>6. S * N + x - (N - NumLong(v)) = S * N + (x - F)
      <3>1. S * N \in Nat
        BY <1>1, Product
      <3>2. N - NumLong(v) = F /\ x \in Int /\ F \in Int
        BY <1>1, <2>2
      <3>3. QED
        BY <3>1, <3>2
    <2>7. ReadPlace(v, k) = DataPlace(v, x, i)
      BY <2>5, <2>6 DEF DataPlace
    <2>8. DataPlace(v, x, i) \in 0 .. D - 1 /\ data[DataPlace(v, x, i) + 1] = k
      BY <1>3, <2>2, <2>4
    <2>9. DataPlace(v, x, i) + 1 \in 1 .. D
      BY <1>1, <2>8
    <2>10. QED
      BY <1>5, <2>7, <2>8, <2>9
  <1>7. ASSUME NEW k \in D .. D + E * N - 1
        PROVE  (data \o ecc)[ReadPlace(v, k) + 1] = k
    <2> DEFINE e == k - D
               q == e \div E
               r == e % E
    <2>1. k >= D /\ e \in Nat /\ e < E * N /\ D + e = k
      BY <1>1
    <2>2. q \in 0 .. N - 1 /\ r \in 0 .. E - 1 /\ e = q * E + r
      <3> HIDE DEF e, E, N
      <3>1. QED
        BY <1>1, <2>1, DivMod
    <2>3. ReadPlace(v, k) = D + r * N + q
      BY <2>1 DEF ReadPlace
    <2>4. /\ r * N + q \in 0 .. E * N - 1
          /\ ecc[r * N + q + 1] = D + q * E + r
      <3> HIDE DEF q, r
      <3>1. QED
        BY <1>4, <2>2
    <2>5. r * N \in Nat /\ q * E \in Nat /\ r \in Nat /\ q \in Nat
      <3>1. r \in Nat /\ q \in Nat /\ N \in Nat /\ E \in Nat
        BY <1>1, <2>2
      <3> HIDE DEF r, q, N, E
      <3>2. QED
        BY <3>1, Product
    <2> HIDE DEF q, r, e
    <2>6. (D + r * N + q) + 1 = D + (r * N + q + 1) /\ r * N + q + 1 \in 1 .. E * N
      <3> HIDE DEF D, E, N
      <3>1. QED
        BY <1>1, <2>4, <2>5
    <2>7. D + q * E + r = k
      <3> HIDE DEF D, E, N
      <3>1. QED
        BY <1>1, <2>1, <2>2, <2>5
    <2>8. QED
      BY <1>5, <2>3, <2>4, <2>6, <2>7
  <1>8. ASSUME NEW k \in 0 .. TotalCodewords(v) - 1
        PROVE  (data \o ecc)[ReadPlace(v, k) + 1] = k
    <2>1. k \in 0 .. D - 1 \/ k \in D .. D + E * N - 1
      <3> HIDE DEF D, E, N
      <3>1. QED
        BY <1>1
    <2>2. QED
      BY <1>6, <1>7, <2>1
  <1>9. QED
    BY <1>1, <1>2, <1>5, <1>8

\* Every codeword of every block is where the reader looks for it, none is left out.
THEOREM BlocksReadBack == Spec => []BlocksAreReadBack
  <1>1. IInv => BlocksAreReadBack
    <2> SUFFICES ASSUME IInv, pc = "patterns"
                 PROVE  /\ Len(finalCw) = TotalCodewords(version)
                        /\ \A k \in 0 .. TotalCodewords(version) - 1 :
                              finalCw[ReadPlace(version, k) + 1] = k
      BY DEF BlocksAreReadBack
    <2>1. version \in 1 .. 20 /\ finalCw = Interleaved(version)
      BY DEF IInv, Chosen, OfVersion
    <2>2. QED
      BY <2>1, ReadBack
  <1>2. QED
    BY <1>1, Invariance, PTL

-----------------------------------------------------------------------------
(* The modules that are left for data *)

\* The numbers within 2 of one of A.
Near(A) == {x \in Int : \E p \in A : x - p \in -2 .. 2}

\* Where the alignment patterns stand that are not beside the timing patterns, and those
\* that are on one.
Inner(v) == AlignPositions(v) \ {6}
OnEdge(v) == Inner(v) \ {Size(v) - 7}

\* The corners, with the finders, the format and the dark module.
Corners(v) ==
    ((0 .. 8) \X (0 .. 8)) \cup ((Size(v) - 8 .. Size(v) - 1) \X (0 .. 8))
      \cup ((0 .. 8) \X (Size(v) - 8 .. Size(v) - 1))

\* The timing patterns, between the corners.
Timing(v) == ((9 .. Size(v) - 9) \X {6}) \cup ({6} \X (9 .. Size(v) - 9))

\* The alignment patterns, without what lies on the timing patterns.
Aligned(v) ==
    (Near(Inner(v)) \X Near(Inner(v)))
      \cup (Near(OnEdge(v)) \X {4, 5, 7, 8}) \cup ({4, 5, 7, 8} \X Near(OnEdge(v)))

\* The two copies of the version.
VersionAreas(v) ==
    IF v >= 7 THEN ((0 .. 5) \X (Size(v) - 11 .. Size(v) - 9))
                     \cup ((Size(v) - 11 .. Size(v) - 9) \X (0 .. 5))
    ELSE {}

DataArea(v) == {c \in Grid(v) : Patterns(v)[c] = Free}

\* Where the alignment patterns can stand.
LEMMA InnerIs ==
    ASSUME NEW v \in 1 .. 20
    PROVE  /\ \A p \in Inner(v) : p \in 18 .. Size(v) - 7
           /\ \A p \in OnEdge(v) : p \in 18 .. Size(v) - 19
           /\ Near(Inner(v)) \subseteq 16 .. Size(v) - 5
           /\ Near(OnEdge(v)) \subseteq 16 .. Size(v) - 17
           /\ Near(OnEdge(v)) \subseteq Near(Inner(v))
           /\ Size(v) \in Nat /\ Size(v) >= 21 /\ (v >= 7 => Size(v) >= 45)
  <1>1. Size(v) \in Nat /\ Size(v) >= 21 /\ (v >= 7 => Size(v) >= 45)
    BY DEF Size
  <1>2. v = 1 => AlignPositions(v) = {}
    BY DEF AlignPositions
  <1>3. v # 1 => Size(v) >= 25
    BY DEF Size
  <1>4. ASSUME NEW p \in Inner(v)
        PROVE  p \in 18 .. Size(v) - 7
    <2>1. p \in AlignPositions(v) /\ p # 6 /\ v # 1
      BY <1>2 DEF Inner
    <2>2. p \in Nat /\ (p = 6 \/ p = Size(v) - 7 \/ p \in 18 .. Size(v) - 19)
      BY <2>1, AlignSpacing
    <2>3. QED
      BY <1>1, <1>3, <2>1, <2>2
  <1>5. ASSUME NEW p \in OnEdge(v)
        PROVE  p \in 18 .. Size(v) - 19
    <2>1. p \in AlignPositions(v) /\ p # 6 /\ p # Size(v) - 7
      BY DEF OnEdge, Inner
    <2>2. QED
      BY <2>1, AlignSpacing
  <1>6. Near(Inner(v)) \subseteq 16 .. Size(v) - 5
    BY <1>1, <1>4 DEF Near
  <1>7. Near(OnEdge(v)) \subseteq 16 .. Size(v) - 17
    BY <1>1, <1>5 DEF Near
  <1>8. Near(OnEdge(v)) \subseteq Near(Inner(v))
    BY DEF Near, OnEdge
  <1>9. QED
    BY <1>1, <1>4, <1>5, <1>6, <1>7, <1>8

\* What alignment patterns cover, but for the timing patterns.
LEMMA AlignedIs ==
    ASSUME NEW v \in 1 .. 20, NEW c \in Grid(v), ~OnTiming(v, c)
    PROVE  (\E at \in AlignCentres(v) : Ring(c, at) <= 2) <=> c \in Aligned(v)
  <1> DEFINE S == Size(v)
  <1>1. /\ c = <<c[1], c[2]>> /\ c[1] \in 0 .. S - 1 /\ c[2] \in 0 .. S - 1
        /\ S \in Nat /\ S >= 21 /\ (v >= 7 => S >= 45)
    BY GridIs
  <1>2. /\ \A p \in Inner(v) : p \in 18 .. S - 7
        /\ \A p \in OnEdge(v) : p \in 18 .. S - 19
        /\ Near(OnEdge(v)) \subseteq 16 .. S - 17
    BY InnerIs
  <1>3. ASSUME NEW at \in AlignCentres(v), Ring(c, at) <= 2
        PROVE  c \in Aligned(v)
    <2>1. /\ at = <<at[1], at[2]>>
          /\ at[1] \in AlignPositions(v) /\ at[2] \in AlignPositions(v)
          /\ at \notin {<<6, 6>>, <<6, S - 7>>, <<S - 7, 6>>}
      BY DEF AlignCentres
    <2>2. c[1] - at[1] \in -2 .. 2 /\ c[2] - at[2] \in -2 .. 2
      BY <1>3, AlignCentresApart, RingIs
    <2>3. CASE at[1] # 6 /\ at[2] # 6
      <3>1. at[1] \in Inner(v) /\ at[2] \in Inner(v)
        BY <2>1, <2>3 DEF Inner
      <3>2. c[1] \in Near(Inner(v)) /\ c[2] \in Near(Inner(v))
        BY <1>1, <2>2, <3>1 DEF Near
      <3>3. QED
        BY <1>1, <3>2 DEF Aligned
    <2>4. CASE at[2] = 6
      <3>1. at[1] \in OnEdge(v)
        BY <2>1, <2>4 DEF OnEdge, Inner
      <3>2. c[1] \in Near(OnEdge(v))
        BY <1>1, <2>2, <3>1 DEF Near
      <3>3. c[2] \in {4, 5, 7, 8}
        <4>1. c[2] \in 4 .. 8
          BY <1>1, <2>2, <2>4
        <4>2. c[1] \in 8 .. S - 9
          BY <1>1, <1>2, <3>2
        <4>3. c[2] # 6
          BY <4>2 DEF OnTiming
        <4>4. QED
          BY <4>1, <4>3
      <3>4. QED
        BY <1>1, <3>2, <3>3 DEF Aligned
    <2>5. CASE at[1] = 6
      <3>1. at[2] \in OnEdge(v)
        BY <2>1, <2>5 DEF OnEdge, Inner
      <3>2. c[2] \in Near(OnEdge(v))
        BY <1>1, <2>2, <3>1 DEF Near
      <3>3. c[1] \in {4, 5, 7, 8}
        <4>1. c[1] \in 4 .. 8
          BY <1>1, <2>2, <2>5
        <4>2. c[2] \in 8 .. S - 9
          BY <1>1, <1>2, <3>2
        <4>3. c[1] # 6
          BY <4>2 DEF OnTiming
        <4>4. QED
          BY <4>1, <4>3
      <3>4. QED
        BY <1>1, <3>2, <3>3 DEF Aligned
    <2>6. QED
      BY <2>3, <2>4, <2>5
  <1>4. ASSUME NEW p \in AlignPositions(v), NEW q \in AlignPositions(v),
               <<p, q>> \notin {<<6, 6>>, <<6, S - 7>>, <<S - 7, 6>>},
               c[1] - p \in -2 .. 2, c[2] - q \in -2 .. 2
        PROVE  \E at \in AlignCentres(v) : Ring(c, at) <= 2
    <2> DEFINE at == <<p, q>>
    <2>1. at \in AlignCentres(v) /\ at[1] = p /\ at[2] = q
      BY <1>4 DEF AlignCentres
    <2>2. at \in Int \X Int
      BY <2>1, AlignCentresApart
    <2> HIDE DEF at
    <2>3. Ring(c, at) <= 2
      BY <1>4, <2>1, <2>2, RingIs
    <2>4. QED
      BY <2>1, <2>3
  <1>5. ASSUME c \in Aligned(v)
        PROVE  \E at \in AlignCentres(v) : Ring(c, at) <= 2
    <2>1. CASE c[1] \in Near(Inner(v)) /\ c[2] \in Near(Inner(v))
      <3>1. PICK p \in Inner(v) : c[1] - p \in -2 .. 2
        BY <2>1 DEF Near
      <3>2. PICK q \in Inner(v) : c[2] - q \in -2 .. 2
        BY <2>1 DEF Near
      <3>3. p \in AlignPositions(v) /\ q \in AlignPositions(v) /\ p # 6 /\ q # 6
        BY DEF Inner
      <3>4. QED
        BY <1>4, <3>1, <3>2, <3>3
    <2>2. CASE c[1] \in Near(OnEdge(v)) /\ c[2] \in {4, 5, 7, 8}
      <3>1. PICK p \in OnEdge(v) : c[1] - p \in -2 .. 2
        BY <2>2 DEF Near
      <3>2. p \in AlignPositions(v) /\ p # 6 /\ p # S - 7
        BY DEF OnEdge, Inner
      <3>3. 6 \in AlignPositions(v) /\ c[2] - 6 \in -2 .. 2
        BY <2>2, <3>2 DEF AlignPositions
      <3>4. QED
        BY <1>4, <3>1, <3>2, <3>3
    <2>3. CASE c[1] \in {4, 5, 7, 8} /\ c[2] \in Near(OnEdge(v))
      <3>1. PICK p \in OnEdge(v) : c[2] - p \in -2 .. 2
        BY <2>3 DEF Near
      <3>2. p \in AlignPositions(v) /\ p # 6 /\ p # S - 7
        BY DEF OnEdge, Inner
      <3>3. 6 \in AlignPositions(v) /\ c[1] - 6 \in -2 .. 2
        BY <2>3, <3>2 DEF AlignPositions
      <3>4. QED
        BY <1>4, <3>1, <3>2, <3>3
    <2>4. QED
      BY <1>1, <1>5, <2>1, <2>2, <2>3 DEF Aligned
  <1>6. QED
    BY <1>3, <1>5

\* A version is shown where VersionAreas says.
LEMMA VersionAreaIs ==
    ASSUME NEW v \in 1 .. 20, NEW c \in Grid(v)
    PROVE  VersionBits(v, c) # {} <=> c \in VersionAreas(v)
  <1>1. c = <<c[1], c[2]>>
    BY GridIs
  <1>2. c \in VersionAreas(v) <=>
            /\ v >= 7
            /\ \/ c[1] \in 0 .. 5 /\ c[2] \in Size(v) - 11 .. Size(v) - 9
               \/ c[2] \in 0 .. 5 /\ c[1] \in Size(v) - 11 .. Size(v) - 9
    BY <1>1 DEF VersionAreas
  <1>3. (Size(v) - 11) + 2 = Size(v) - 9
    BY DEF Size
  <1>4. ASSUME c \in VersionAreas(v)
        PROVE  VersionBits(v, c) # {}
    BY <1>2, <1>3, <1>4 DEF VersionBits
  <1>5. QED
    BY <1>2, <1>4, VersionPlaces

\* What no pattern is drawn on.
LEMMA DrawnFree ==
    ASSUME NEW v \in 1 .. 20, NEW c \in Grid(v)
    PROVE  Drawn(v, c) = Free <=>
              /\ c # DarkModule(v) /\ ~OnTiming(v, c)
              /\ ~ \E at \in AlignCentres(v) : Ring(c, at) <= 2
              /\ ~ \E at \in FinderCentres(v) : Ring(c, at) <= 4
  <1>1. Dark # Free /\ Light # Free
    BY DEF Dark, Light, Free
  <1>2. \A r : AlignColour(r) # Free /\ FinderColour(r) # Free
    BY <1>1 DEF AlignColour, FinderColour, Colour
  <1>3. TimingColour(c) # Free
    BY <1>1 DEF TimingColour, Colour
  <1> DEFINE aligned == {at \in AlignCentres(v) : Ring(c, at) <= 2}
             found == {at \in FinderCentres(v) : Ring(c, at) <= 4}
  <1>4. Drawn(v, c) =
            IF c = DarkModule(v) THEN Dark
            ELSE IF aligned # {} THEN AlignColour(Ring(c, CHOOSE at \in aligned : TRUE))
            ELSE IF OnTiming(v, c) THEN TimingColour(c)
            ELSE IF found # {} THEN FinderColour(Ring(c, CHOOSE at \in found : TRUE))
            ELSE Free
    BY DEF Drawn
  <1>5. /\ aligned # {} <=> \E at \in AlignCentres(v) : Ring(c, at) <= 2
        /\ found # {} <=> \E at \in FinderCentres(v) : Ring(c, at) <= 4
    OBVIOUS
  <1> HIDE DEF aligned, found
  <1>6. QED
    BY <1>1, <1>2, <1>3, <1>4, <1>5

\* Finders, their separators, the format and the dark module fill the corners.
LEMMA CornerIs ==
    ASSUME NEW v \in 1 .. 20, NEW c \in Grid(v)
    PROVE  c \in Corners(v) \cup Timing(v) <=>
              \/ c = DarkModule(v) \/ OnTiming(v, c)
              \/ \E at \in FinderCentres(v) : Ring(c, at) <= 4
              \/ BesideFinder(c) \/ BesideOthers(v, c)
  <1> DEFINE S == Size(v)
  <1>1. /\ c = <<c[1], c[2]>> /\ c[1] \in 0 .. S - 1 /\ c[2] \in 0 .. S - 1
        /\ S \in Nat /\ S >= 21
    BY GridIs
  <1>2. (\E at \in FinderCentres(v) : Ring(c, at) <= 4) <=>
            \/ c[1] \in 0 .. 7 /\ c[2] \in 0 .. 7
            \/ c[1] \in S - 8 .. S - 1 /\ c[2] \in 0 .. 7
            \/ c[1] \in 0 .. 7 /\ c[2] \in S - 8 .. S - 1
    <2>1. FinderCentres(v) = {<<3, 3>>, <<S - 4, 3>>, <<3, S - 4>>}
      BY DEF FinderCentres
    <2>2. \A at \in FinderCentres(v) :
              Ring(c, at) <= 4 <=> c[1] - at[1] \in -4 .. 4 /\ c[2] - at[2] \in -4 .. 4
      BY FinderCentresApart, RingIs
    <2>3. /\ Ring(c, <<3, 3>>) <= 4 <=> c[1] - 3 \in -4 .. 4 /\ c[2] - 3 \in -4 .. 4
          /\ Ring(c, <<S - 4, 3>>) <= 4 <=> c[1] - (S - 4) \in -4 .. 4 /\ c[2] - 3 \in -4 .. 4
          /\ Ring(c, <<3, S - 4>>) <= 4 <=> c[1] - 3 \in -4 .. 4 /\ c[2] - (S - 4) \in -4 .. 4
      BY <2>1, <2>2
    <2>4. /\ c[1] - 3 \in -4 .. 4 <=> c[1] \in 0 .. 7
          /\ c[2] - 3 \in -4 .. 4 <=> c[2] \in 0 .. 7
          /\ c[1] - (S - 4) \in -4 .. 4 <=> c[1] \in S - 8 .. S - 1
          /\ c[2] - (S - 4) \in -4 .. 4 <=> c[2] \in S - 8 .. S - 1
      BY <1>1
    <2>5. QED
      BY <2>1, <2>3, <2>4
  <1>3. c \in Corners(v) <=> \/ c[1] \in 0 .. 8 /\ c[2] \in 0 .. 8
                             \/ c[1] \in S - 8 .. S - 1 /\ c[2] \in 0 .. 8
                             \/ c[1] \in 0 .. 8 /\ c[2] \in S - 8 .. S - 1
    BY <1>1 DEF Corners
  <1>4. c \in Timing(v) <=> \/ c[1] \in 9 .. S - 9 /\ c[2] = 6
                            \/ c[1] = 6 /\ c[2] \in 9 .. S - 9
    BY <1>1 DEF Timing
  <1>5. c = DarkModule(v) <=> c[1] = 8 /\ c[2] = S - 8
    BY <1>1 DEF DarkModule
  <1>6. QED
    BY <1>1, <1>2, <1>3, <1>4, <1>5 DEF OnTiming, BesideFinder, BesideOthers

\* Data goes where no pattern and no field is.
LEMMA FreeIs ==
    ASSUME NEW v \in 1 .. 20, NEW c \in Grid(v)
    PROVE  Patterns(v)[c] = Free <=>
              c \notin Corners(v) \cup Timing(v) \cup Aligned(v) \cup VersionAreas(v)
  <1>1. Patterns(v)[c] =
            IF VersionBits(v, c) # {} THEN <<"version", Min(VersionBits(v, c))>>
            ELSE IF FormatArea(v, c) THEN Light
            ELSE Drawn(v, c)
    BY DEF Patterns
  <1>2. <<"version", Min(VersionBits(v, c))>> # Free /\ Light # Free
    BY DEF Light, Free
  <1>3. Patterns(v)[c] = Free <=>
            VersionBits(v, c) = {} /\ ~FormatArea(v, c) /\ Drawn(v, c) = Free
    BY <1>1, <1>2
  <1>4. ~FormatArea(v, c) /\ Drawn(v, c) = Free <=>
            ~BesideFinder(c) /\ ~BesideOthers(v, c) /\ Drawn(v, c) = Free
    BY DEF FormatArea
  <1>5. QED
    BY <1>3, <1>4, DrawnFree, CornerIs, AlignedIs, VersionAreaIs

\* The column of the timing pattern has no module for data.
LEMMA NoDataBesideTiming ==
    ASSUME NEW v \in 1 .. 20, NEW c \in DataArea(v)
    PROVE  c \in Grid(v) /\ c[1] # 6
  <1>1. c \in Grid(v) /\ c \notin Corners(v) \cup Timing(v)
    BY FreeIs DEF DataArea
  <1>2. QED
    BY <1>1, GridIs DEF Corners, Timing

\* Data is seen where it was put: the format and the dark module are elsewhere.
LEMMA FreeShown ==
    ASSUME NEW v \in 1 .. 20
    PROVE  {c \in DOMAIN Symbol(v) : Symbol(v)[c][1] = "free"} = DataArea(v)
  <1>1. ASSUME NEW c \in Grid(v), Patterns(v)[c] = Free
        PROVE  Symbol(v)[c] = Free
    <2>1. c \notin Corners(v) \cup Timing(v)
      BY <1>1, FreeIs
    <2>2. c # DarkModule(v)
      BY <2>1, CornerIs
    <2>3. FormatBits(v, c) = {}
      BY <2>1, GridIs, FormatPlaces DEF Corners
    <2>4. QED
      BY <1>1, <2>2, <2>3 DEF Symbol, Formatted, Patterns
  <1>2. ASSUME NEW c \in Grid(v), Symbol(v)[c][1] = "free"
        PROVE  Patterns(v)[c] = Free
    <2>1. Symbol(v)[c] \in {Dark, <<"format", Min(FormatBits(v, c))>>, Patterns(v)[c]}
      BY DEF Symbol, Formatted, Patterns
    <2>2. Patterns(v)[c] \in {<<"version", Min(VersionBits(v, c))>>, Dark, Light, Free}
      BY DrawnIsColour DEF Patterns
    <2>3. QED
      BY <1>2, <2>1, <2>2 DEF Dark, Light, Free
  <1>3. Free[1] = "free"
    BY DEF Free
  <1>4. QED
    BY <1>1, <1>2, <1>3, SymbolShows DEF DataArea

-----------------------------------------------------------------------------
(* How many they are *)

\* Sets with nothing in common are counted one by one.
LEMMA ApartCount ==
    ASSUME NEW S, NEW T, IsFiniteSet(S), IsFiniteSet(T), \A x \in S : x \notin T
    PROVE  /\ IsFiniteSet(S \cup T)
           /\ Cardinality(S \cup T) = Cardinality(S) + Cardinality(T)
           /\ Cardinality(S) \in Nat /\ Cardinality(T) \in Nat
  <1>1. S \cap T = {}
    OBVIOUS
  <1>2. Cardinality(S \cap T) = 0
    BY <1>1, FS_EmptySet
  <1>3. Cardinality(S) \in Nat /\ Cardinality(T) \in Nat
    BY FS_CardinalityType
  <1>4. /\ IsFiniteSet(S \cup T)
        /\ Cardinality(S \cup T) = Cardinality(S) + Cardinality(T) - Cardinality(S \cap T)
    BY FS_Union, Zenon
  <1>5. QED
    BY <1>2, <1>3, <1>4

\* A set is counted: it is finite and has n elements.
Counts(S, n) == IsFiniteSet(S) /\ Cardinality(S) = n

LEMMA CountUnion ==
    ASSUME NEW S, NEW T, NEW m, NEW n, Counts(S, m), Counts(T, n), \A x \in S : x \notin T
    PROVE  Counts(S \cup T, m + n)
  BY ApartCount DEF Counts

LEMMA CountProduct ==
    ASSUME NEW S, NEW T, NEW m, NEW n, Counts(S, m), Counts(T, n)
    PROVE  Counts(S \X T, m * n)
  BY FS_Product DEF Counts

LEMMA CountInterval ==
    ASSUME NEW a \in Int, NEW b \in Int, NEW n, a <= b, n = b - a + 1
    PROVE  Counts(a .. b, n)
  <1>1. /\ IsFiniteSet(a .. b)
        /\ Cardinality(a .. b) = IF a > b THEN 0 ELSE b - a + 1
    BY FS_Interval, Zenon
  <1>2. QED
    BY <1>1 DEF Counts

LEMMA CountOne ==
    ASSUME NEW x
    PROVE  Counts({x}, 1)
  BY FS_Singleton DEF Counts

LEMMA CountNone == Counts({}, 0)
  BY FS_EmptySet DEF Counts

LEMMA CornersCount ==
    ASSUME NEW v \in 1 .. 20
    PROVE  Counts(Corners(v), 225)
  <1> DEFINE S == Size(v)
             A == 0 .. 8
             Z == S - 8 .. S - 1
  <1>1. S \in Int /\ S >= 21
    BY DEF Size
  <1>2. Counts(A, 9)
    <2>1. 0 \in Int /\ 8 \in Int /\ 0 <= 8 /\ 9 = 8 - 0 + 1
      OBVIOUS
    <2>2. QED
      BY <2>1, CountInterval
  <1>3. Counts(Z, 8)
    <2>1. S - 8 \in Int /\ S - 1 \in Int /\ S - 8 <= S - 1 /\ 8 = (S - 1) - (S - 8) + 1
      BY <1>1
    <2> HIDE DEF S
    <2>2. QED
      BY <2>1, CountInterval
  <1>4. \A x \in A : x \notin Z
    BY <1>1
  <1> HIDE DEF A, Z
  <1>5. Counts(A \X A, 81) /\ Counts(Z \X A, 72) /\ Counts(A \X Z, 72)
    <2>1. Counts(A \X A, 9 * 9) /\ Counts(Z \X A, 8 * 9) /\ Counts(A \X Z, 9 * 8)
      BY <1>2, <1>3, CountProduct
    <2>2. QED
      BY <2>1
  <1>6. Counts((A \X A) \cup (Z \X A), 153)
    <2>1. Counts((A \X A) \cup (Z \X A), 81 + 72)
      <3>1. \A x \in A \X A : x \notin Z \X A
        BY <1>4
      <3>2. QED
        BY <1>5, <3>1, CountUnion
    <2>2. QED
      BY <2>1
  <1>7. Counts((A \X A) \cup (Z \X A) \cup (A \X Z), 225)
    <2>1. Counts((A \X A) \cup (Z \X A) \cup (A \X Z), 153 + 72)
      <3>1. \A x \in (A \X A) \cup (Z \X A) : x \notin A \X Z
        BY <1>4
      <3>2. QED
        BY <1>5, <1>6, <3>1, CountUnion
    <2>2. QED
      BY <2>1
  <1>8. QED
    BY <1>7 DEF Corners, A, Z

LEMMA TimingCount ==
    ASSUME NEW v \in 1 .. 20
    PROVE  Counts(Timing(v), 2 * (Size(v) - 17))
  <1> DEFINE S == Size(v)
             A == 9 .. S - 9
  <1>1. S \in Int /\ S >= 21
    BY DEF Size
  <1>2. Counts(A, S - 17)
    <2>1. 9 \in Int /\ S - 9 \in Int /\ 9 <= S - 9 /\ S - 17 = (S - 9) - 9 + 1
      BY <1>1
    <2> HIDE DEF S
    <2>2. QED
      BY <2>1, CountInterval
  <1>3. 6 \notin A
    BY <1>1
  <1> HIDE DEF A
  <1>4. Counts(A \X {6}, S - 17) /\ Counts({6} \X A, S - 17)
    <2>1. Counts({6}, 1)
      BY CountOne
    <2>2. Counts(A \X {6}, (S - 17) * 1) /\ Counts({6} \X A, 1 * (S - 17))
      BY <1>2, <2>1, CountProduct
    <2>3. (S - 17) * 1 = S - 17 /\ 1 * (S - 17) = S - 17
      BY <1>1
    <2>4. QED
      BY <2>2, <2>3
  <1>5. Counts((A \X {6}) \cup ({6} \X A), (S - 17) + (S - 17))
    <2>1. \A x \in A \X {6} : x \notin {6} \X A
      BY <1>3
    <2>2. QED
      BY <1>4, <2>1, CountUnion
  <1>6. (S - 17) + (S - 17) = 2 * (S - 17)
    BY <1>1
  <1>7. QED
    BY <1>5, <1>6 DEF Timing, A

LEMMA VersionCount ==
    ASSUME NEW v \in 1 .. 20
    PROVE  Counts(VersionAreas(v), IF v >= 7 THEN 36 ELSE 0)
  <1>1. CASE v < 7
    BY <1>1, CountNone DEF VersionAreas
  <1>2. CASE v >= 7
    <2> DEFINE S == Size(v)
               A == 0 .. 5
               Z == S - 11 .. S - 9
    <2>1. S \in Int /\ S >= 45
      BY <1>2 DEF Size
    <2>2. Counts(A, 6)
      <3>1. 0 \in Int /\ 5 \in Int /\ 0 <= 5 /\ 6 = 5 - 0 + 1
        OBVIOUS
      <3>2. QED
        BY <3>1, CountInterval
    <2>3. Counts(Z, 3)
      <3>1. S - 11 \in Int /\ S - 9 \in Int /\ S - 11 <= S - 9 /\ 3 = (S - 9) - (S - 11) + 1
        BY <2>1
      <3> HIDE DEF S
      <3>2. QED
        BY <3>1, CountInterval
    <2>4. \A x \in A : x \notin Z
      BY <2>1
    <2>5. VersionAreas(v) = (A \X Z) \cup (Z \X A)
      BY <1>2 DEF VersionAreas
    <2> HIDE DEF A, Z
    <2>6. Counts(A \X Z, 18) /\ Counts(Z \X A, 18)
      <3>1. Counts(A \X Z, 6 * 3) /\ Counts(Z \X A, 3 * 6)
        BY <2>2, <2>3, CountProduct
      <3>2. QED
        BY <3>1
    <2>7. Counts((A \X Z) \cup (Z \X A), 36)
      <3>1. Counts((A \X Z) \cup (Z \X A), 18 + 18)
        <4>1. \A x \in A \X Z : x \notin Z \X A
          BY <2>4
        <4>2. QED
          BY <2>6, <4>1, CountUnion
      <3>2. QED
        BY <3>1
    <2>8. QED
      BY <1>2, <2>5, <2>7
  <1>3. QED
    BY <1>1, <1>2

\* One more alignment position, apart from the others, has five more numbers near it.
LEMMA NearCount ==
    ASSUME NEW A \in SUBSET Int, NEW p \in Int, NEW m \in Nat, Counts(Near(A), m),
           \A q \in A : q - p > 4 \/ p - q > 4
    PROVE  Counts(Near(A \cup {p}), m + 5)
  <1>1. Counts(p - 2 .. p + 2, 5)
    <2>1. p - 2 \in Int /\ p + 2 \in Int /\ p - 2 <= p + 2 /\ 5 = (p + 2) - (p - 2) + 1
      OBVIOUS
    <2>2. QED
      BY <2>1, CountInterval
  <1>2. \A x \in Near(A) : x \notin p - 2 .. p + 2
    BY DEF Near
  <1>3. Near(A \cup {p}) = Near(A) \cup (p - 2 .. p + 2)
    <2>1. \A x \in Int : x - p \in -2 .. 2 <=> x \in p - 2 .. p + 2
      OBVIOUS
    <2>2. p - 2 .. p + 2 \subseteq Int
      OBVIOUS
    <2>3. QED
      BY <2>1, <2>2 DEF Near
  <1> DEFINE N == Near(A)
             I == p - 2 .. p + 2
  <1>4. Counts(N, m) /\ Counts(I, 5) /\ \A x \in N : x \notin I
    BY <1>1, <1>2
  <1> HIDE DEF N, I
  <1>5. Counts(N \cup I, m + 5)
    BY <1>4, CountUnion
  <1>6. QED
    BY <1>3, <1>5 DEF N, I

LEMMA NearNone == Counts(Near({}), 0)
  BY CountNone DEF Near

LEMMA NearOne ==
    ASSUME NEW p \in Int
    PROVE  Counts(Near({p}), 5)
  <1>1. {} \in SUBSET Int /\ \A q \in {} : q - p > 4 \/ p - q > 4
    OBVIOUS
  <1>2. Counts(Near({} \cup {p}), 0 + 5)
    BY <1>1, NearNone, NearCount
  <1>3. {} \cup {p} = {p} /\ 0 + 5 = 5
    OBVIOUS
  <1>4. QED
    BY <1>2, <1>3

LEMMA NearTwo ==
    ASSUME NEW p \in Int, NEW q \in Int, p - q > 4
    PROVE  Counts(Near({p, q}), 10)
  <1>1. {p} \in SUBSET Int /\ \A r \in {p} : r - q > 4 \/ q - r > 4
    OBVIOUS
  <1>2. Counts(Near({p} \cup {q}), 5 + 5)
    BY <1>1, NearOne, NearCount
  <1>3. {p} \cup {q} = {p, q} /\ 5 + 5 = 10
    OBVIOUS
  <1>4. QED
    BY <1>2, <1>3

LEMMA NearThree ==
    ASSUME NEW p \in Int, NEW q \in Int, NEW r \in Int, p - q > 4, q - r > 4
    PROVE  Counts(Near({p, q, r}), 15)
  <1>1. {p, q} \in SUBSET Int /\ \A s \in {p, q} : s - r > 4 \/ r - s > 4
    OBVIOUS
  <1>2. Counts(Near({p, q} \cup {r}), 10 + 5)
    BY <1>1, NearTwo, NearCount
  <1>3. {p, q} \cup {r} = {p, q, r} /\ 10 + 5 = 15
    OBVIOUS
  <1>4. QED
    BY <1>2, <1>3

\* As many positions as versions of its size have, whatever the step between them.
LEMMA InnerCount ==
    ASSUME NEW v \in 1 .. 20
    PROVE  /\ Counts(Near(Inner(v)), IF v = 1 THEN 0 ELSE 5 * (Alignments(v) - 1))
           /\ Counts(Near(OnEdge(v)), IF v = 1 THEN 0 ELSE 5 * (Alignments(v) - 2))
  <1> DEFINE S == Size(v)
  <1>1. CASE v = 1
    <2>1. Inner(v) = {} /\ OnEdge(v) = {}
      BY <1>1 DEF Inner, OnEdge, AlignPositions
    <2>2. QED
      BY <1>1, <2>1, NearNone
  <1>2. CASE v \in 2 .. 6
    <2>1. Alignments(v) = 2 /\ 5 * (Alignments(v) - 1) = 5 /\ 5 * (Alignments(v) - 2) = 0 /\ v # 1
      BY <1>2 DEF Alignments
    <2>2. S - 7 \in Int /\ S - 7 # 6
      BY <1>2 DEF Size
    <2>3. AlignPositions(v) = {6, S - 7}
      <3>1. 0 .. Alignments(v) - 2 = {0}
        BY <2>1
      <3> DEFINE step == ((4 * v + 4 + 2 * Alignments(v) - 3) \div (2 * Alignments(v) - 2)) * 2
      <3>2. step \in Int
        BY <2>1
      <3>3. AlignPositions(v) = {6} \cup {S - 7 - k * step : k \in 0 .. Alignments(v) - 2}
        BY <2>1 DEF AlignPositions
      <3> HIDE DEF step
      <3>4. S - 7 - 0 * step = S - 7
        BY <2>2, <3>2
      <3>5. QED
        BY <3>1, <3>3, <3>4
    <2>4. Inner(v) = {S - 7} /\ OnEdge(v) = {}
      BY <2>2, <2>3 DEF Inner, OnEdge
    <2>5. QED
      BY <2>1, <2>2, <2>4, NearOne, NearNone
  <1>3. CASE v \in 7 .. 13
    <2> DEFINE q == S - 7 - 2 * (v + 1)
    <2>1. Alignments(v) = 3 /\ 5 * (Alignments(v) - 1) = 10 /\ 5 * (Alignments(v) - 2) = 5 /\ v # 1
      BY <1>3 DEF Alignments
    <2>2. S - 7 \in Int /\ q \in Int /\ S - 7 # 6 /\ q # 6 /\ (S - 7) - q > 4 /\ q # S - 7
      BY <1>3 DEF Size
    <2>3. AlignPositions(v) = {6, S - 7, q}
      <3>1. 0 .. Alignments(v) - 2 = {0, 1}
        BY <2>1
      <3> DEFINE step == ((4 * v + 4 + 2 * Alignments(v) - 3) \div (2 * Alignments(v) - 2)) * 2
      <3>2. step = 2 * (v + 1)
        BY <1>3, <2>1
      <3>3. AlignPositions(v) = {6} \cup {S - 7 - k * step : k \in 0 .. Alignments(v) - 2}
        BY <2>1 DEF AlignPositions
      <3> HIDE DEF step
      <3>4. S - 7 - 0 * step = S - 7 /\ S - 7 - 1 * step = q
        BY <2>2, <3>2
      <3>5. QED
        BY <3>1, <3>3, <3>4
    <2> HIDE DEF q
    <2>4. Inner(v) = {S - 7, q} /\ OnEdge(v) = {q}
      BY <2>2, <2>3 DEF Inner, OnEdge
    <2>5. QED
      BY <2>1, <2>2, <2>4, NearOne, NearTwo
  <1>4. CASE v \in 14 .. 20
    <2> DEFINE step == ((4 * v + 9) \div 6) * 2
               q == S - 7 - step
               r == S - 7 - 2 * step
    <2>1. Alignments(v) = 4 /\ 5 * (Alignments(v) - 1) = 15 /\ 5 * (Alignments(v) - 2) = 10 /\ v # 1
      BY <1>4 DEF Alignments
    <2>2. /\ step \in Int /\ S - 7 \in Int /\ q \in Int /\ r \in Int
          /\ S - 7 # 6 /\ q # 6 /\ r # 6 /\ q # S - 7 /\ r # S - 7
          /\ (S - 7) - q > 4 /\ q - r > 4
      BY <1>4 DEF Size
    <2>3. AlignPositions(v) = {6, S - 7, q, r}
      <3>1. 0 .. Alignments(v) - 2 = {0, 1, 2}
        BY <2>1
      <3>2. ((4 * v + 4 + 2 * Alignments(v) - 3) \div (2 * Alignments(v) - 2)) * 2 = step
        BY <1>4, <2>1
      <3>3. AlignPositions(v) = {6} \cup {S - 7 - k * step : k \in 0 .. Alignments(v) - 2}
        BY <2>1, <3>2 DEF AlignPositions
      <3> HIDE DEF step
      <3>4. S - 7 - 0 * step = S - 7 /\ S - 7 - 1 * step = q /\ S - 7 - 2 * step = r
        BY <2>2
      <3>5. QED
        BY <3>1, <3>3, <3>4
    <2> HIDE DEF q, r
    <2>4. Inner(v) = {S - 7, q, r} /\ OnEdge(v) = {q, r}
      BY <2>2, <2>3 DEF Inner, OnEdge
    <2>5. QED
      BY <2>1, <2>2, <2>4, NearTwo, NearThree
  <1>5. QED
    BY <1>1, <1>2, <1>3, <1>4

\* What the alignment patterns add, by the number n of the positions.
LEMMA AlignedCount ==
    ASSUME NEW v \in 1 .. 20
    PROVE  Counts(Aligned(v),
                  LET n == Alignments(v)
                  IN  IF v = 1 THEN 0 ELSE 25 * (n - 1) * (n - 1) + 40 * (n - 2))
  <1> DEFINE A == Near(Inner(v))
             Z == Near(OnEdge(v))
             Four == {4, 5, 7, 8}
             a == IF v = 1 THEN 0 ELSE 5 * (Alignments(v) - 1)
             z == IF v = 1 THEN 0 ELSE 5 * (Alignments(v) - 2)
  <1>1. Counts(A, a) /\ Counts(Z, z)
    BY InnerCount
  <1>2. Alignments(v) \in {2, 3, 4}
    BY DEF Alignments
  <1>3. a \in Nat /\ z \in Nat
    BY <1>2
  <1>4. Counts(Four, 4)
    <2>1. Counts(4 .. 5, 2) /\ Counts(7 .. 8, 2)
      <3>1. /\ 4 \in Int /\ 5 \in Int /\ 4 <= 5 /\ 2 = 5 - 4 + 1
            /\ 7 \in Int /\ 8 \in Int /\ 7 <= 8 /\ 2 = 8 - 7 + 1
        OBVIOUS
      <3>2. QED
        BY <3>1, CountInterval
    <2>2. \A x \in 4 .. 5 : x \notin 7 .. 8
      OBVIOUS
    <2>3. Counts((4 .. 5) \cup (7 .. 8), 2 + 2)
      BY <2>1, <2>2, CountUnion
    <2>4. (4 .. 5) \cup (7 .. 8) = Four /\ 2 + 2 = 4
      OBVIOUS
    <2>5. QED
      BY <2>3, <2>4
  <1>5. (\A x \in A : x \notin Four) /\ (\A x \in Z : x \notin Four)
    <2>1. A \subseteq 16 .. Size(v) - 5 /\ Z \subseteq 16 .. Size(v) - 17 /\ Size(v) \in Nat
      BY InnerIs
    <2>2. QED
      BY <2>1
  <1>6. Aligned(v) = (A \X A) \cup (Z \X Four) \cup (Four \X Z)
    BY DEF Aligned
  <1> HIDE DEF A, Z, Four, a, z
  <1>7. Counts(A \X A, a * a) /\ Counts(Z \X Four, z * 4) /\ Counts(Four \X Z, 4 * z)
    BY <1>1, <1>4, CountProduct
  <1>8. Counts((A \X A) \cup (Z \X Four), a * a + z * 4)
    <2>1. \A x \in A \X A : x \notin Z \X Four
      BY <1>5
    <2>2. QED
      BY <1>7, <2>1, CountUnion
  <1>9. Counts((A \X A) \cup (Z \X Four) \cup (Four \X Z), (a * a + z * 4) + 4 * z)
    <2>1. \A x \in (A \X A) \cup (Z \X Four) : x \notin Four \X Z
      BY <1>5
    <2>2. QED
      BY <1>7, <1>8, <2>1, CountUnion
  <1>10. (a * a + z * 4) + 4 * z =
             LET n == Alignments(v)
             IN  IF v = 1 THEN 0 ELSE 25 * (n - 1) * (n - 1) + 40 * (n - 2)
    BY <1>2 DEF a, z
  <1>11. QED
    BY <1>6, <1>9, <1>10

\* Patterns and fields are apart from each other, and inside the grid.
LEMMA PatternsApart ==
    ASSUME NEW v \in 1 .. 20
    PROVE  /\ \A c \in Corners(v) : c \notin Timing(v)
           /\ \A c \in Corners(v) \cup Timing(v) : c \notin Aligned(v)
           /\ \A c \in Corners(v) \cup Timing(v) \cup Aligned(v) : c \notin VersionAreas(v)
           /\ Corners(v) \cup Timing(v) \cup Aligned(v) \cup VersionAreas(v) \subseteq Grid(v)
  <1> DEFINE S == Size(v)
  <1>1. /\ Near(Inner(v)) \subseteq 16 .. S - 5
        /\ Near(OnEdge(v)) \subseteq 16 .. S - 17
        /\ S \in Nat /\ S >= 21 /\ (v >= 7 => S >= 45)
    BY InnerIs
  <1>2. \A c \in Corners(v) :
            /\ c = <<c[1], c[2]>>
            /\ \/ c[1] \in 0 .. 8 /\ c[2] \in 0 .. 8
               \/ c[1] \in S - 8 .. S - 1 /\ c[2] \in 0 .. 8
               \/ c[1] \in 0 .. 8 /\ c[2] \in S - 8 .. S - 1
    BY DEF Corners
  <1>3. \A c \in Timing(v) :
            /\ c = <<c[1], c[2]>>
            /\ \/ c[1] \in 9 .. S - 9 /\ c[2] = 6
               \/ c[1] = 6 /\ c[2] \in 9 .. S - 9
    BY DEF Timing
  <1>4. \A c \in Aligned(v) :
            /\ c = <<c[1], c[2]>>
            /\ \/ c[1] \in 16 .. S - 5 /\ c[2] \in 16 .. S - 5
               \/ c[1] \in 16 .. S - 17 /\ c[2] \in {4, 5, 7, 8}
               \/ c[1] \in {4, 5, 7, 8} /\ c[2] \in 16 .. S - 17
    BY <1>1 DEF Aligned
  <1>5. \A c \in VersionAreas(v) :
            /\ c = <<c[1], c[2]>> /\ S >= 45
            /\ \/ c[1] \in 0 .. 5 /\ c[2] \in S - 11 .. S - 9
               \/ c[1] \in S - 11 .. S - 9 /\ c[2] \in 0 .. 5
    BY <1>1 DEF VersionAreas
  <1>6. ASSUME NEW c \in Corners(v)
        PROVE  c \notin Timing(v) /\ c \notin Aligned(v) /\ c \notin VersionAreas(v)
    <2>1. c \notin Timing(v)
      BY <1>1, <1>2, <1>3
    <2>2. c \notin Aligned(v)
      BY <1>1, <1>2, <1>4
    <2>3. c \notin VersionAreas(v)
      BY <1>1, <1>2, <1>5
    <2>4. QED
      BY <2>1, <2>2, <2>3
  <1>7. ASSUME NEW c \in Timing(v)
        PROVE  c \notin Aligned(v) /\ c \notin VersionAreas(v)
    <2>1. c \notin Aligned(v)
      BY <1>1, <1>3, <1>4
    <2>2. c \notin VersionAreas(v)
      BY <1>1, <1>3, <1>5
    <2>3. QED
      BY <2>1, <2>2
  <1>8. ASSUME NEW c \in Aligned(v)
        PROVE  c \notin VersionAreas(v)
    BY <1>1, <1>4, <1>5
  <1>9. ASSUME NEW c, c = <<c[1], c[2]>>, c[1] \in 0 .. S - 1, c[2] \in 0 .. S - 1
        PROVE  c \in Grid(v)
    BY <1>9 DEF Grid
  <1>10. /\ \A c \in Corners(v) : c \in Grid(v)
         /\ \A c \in Timing(v) : c \in Grid(v)
         /\ \A c \in Aligned(v) : c \in Grid(v)
         /\ \A c \in VersionAreas(v) : c \in Grid(v)
    <2>1. ASSUME NEW c \in Corners(v)
          PROVE  c \in Grid(v)
      BY <1>1, <1>2, <1>9
    <2>2. ASSUME NEW c \in Timing(v)
          PROVE  c \in Grid(v)
      BY <1>1, <1>3, <1>9
    <2>3. ASSUME NEW c \in Aligned(v)
          PROVE  c \in Grid(v)
      BY <1>1, <1>4, <1>9
    <2>4. ASSUME NEW c \in VersionAreas(v)
          PROVE  c \in Grid(v)
      BY <1>1, <1>5, <1>9
    <2>5. QED
      BY <2>1, <2>2, <2>3, <2>4
  <1>11. QED
    BY <1>6, <1>7, <1>8, <1>10

LEMMA GridCount ==
    ASSUME NEW v \in 1 .. 20
    PROVE  Counts(Grid(v), Size(v) * Size(v))
  <1> DEFINE S == Size(v)
             A == 0 .. S - 1
  <1>1. S \in Int /\ 0 \in Int /\ S - 1 \in Int /\ 0 <= S - 1 /\ S = (S - 1) - 0 + 1
    BY DEF Size
  <1>2. Counts(A, S)
    <2> HIDE DEF S
    <2>1. QED
      BY <1>1, CountInterval
  <1>3. Grid(v) = A \X A
    BY DEF Grid
  <1> HIDE DEF A
  <1>4. QED
    BY <1>2, <1>3, CountProduct

\* What is left of a set without some of its elements.
LEMMA CountRest ==
    ASSUME NEW S, NEW T, NEW m, NEW n, Counts(S, m), Counts(T, n), T \subseteq S
    PROVE  Counts(S \ T, m - n)
  <1>1. S \cap T = T
    OBVIOUS
  <1>2. /\ IsFiniteSet(S \ T)
        /\ Cardinality(S \ T) = Cardinality(S) - Cardinality(S \cap T)
    BY FS_Difference DEF Counts
  <1>3. QED
    BY <1>1, <1>2 DEF Counts

\* The formula that chooses the version counts the modules that are there, in all versions.
LEMMA DataAreaCount ==
    ASSUME NEW v \in 1 .. 20
    PROVE  Counts(DataArea(v), RawDataModules(v))
  <1> DEFINE S == Size(v)
             n == Alignments(v)
             a == IF v = 1 THEN 0 ELSE 25 * (n - 1) * (n - 1) + 40 * (n - 2)
             f == IF v >= 7 THEN 36 ELSE 0
  <1>1. /\ Counts(Corners(v), 225)
        /\ Counts(Timing(v), 2 * (S - 17))
        /\ Counts(Aligned(v), a)
        /\ Counts(VersionAreas(v), f)
        /\ Counts(Grid(v), S * S)
    BY CornersCount, TimingCount, AlignedCount, VersionCount, GridCount
  <1> HIDE DEF a, f, S
  <1>2. Counts(Corners(v) \cup Timing(v), 225 + 2 * (S - 17))
    BY <1>1, PatternsApart, CountUnion
  <1>3. Counts(Corners(v) \cup Timing(v) \cup Aligned(v), (225 + 2 * (S - 17)) + a)
    BY <1>1, <1>2, PatternsApart, CountUnion
  <1> DEFINE all == Corners(v) \cup Timing(v) \cup Aligned(v) \cup VersionAreas(v)
             m == ((225 + 2 * (S - 17)) + a) + f
  <1>4. Counts(all, m)
    BY <1>1, <1>3, PatternsApart, CountUnion
  <1>5. all \subseteq Grid(v)
    BY PatternsApart
  <1>6. DataArea(v) = Grid(v) \ all
    BY FreeIs DEF DataArea
  <1> HIDE DEF all, m
  <1>7. Counts(DataArea(v), S * S - m)
    BY <1>1, <1>4, <1>5, <1>6, CountRest
  <1>8. S * S - m = RawDataModules(v)
    <2>1. S = 17 + 4 * v
      BY DEF S, Size
    <2>2. n \in {2, 3, 4}
      BY DEF Alignments
    <2>3. S * S = 16 * v * v + 136 * v + 289
      BY <2>1
    <2>4. (16 * v + 128) * v = 16 * v * v + 128 * v
      OBVIOUS
    <2>5. v # 1 => a = (25 * n - 10) * n - 55
      BY <2>2 DEF a
    <2> HIDE DEF n
    <2>6. RawDataModules(v) = (16 * v + 128) * v + 64
                                - (IF v >= 2 THEN (25 * n - 10) * n - 55 ELSE 0) - f
      BY DEF RawDataModules, f, n
    <2>7. a = IF v >= 2 THEN (25 * n - 10) * n - 55 ELSE 0
      BY <2>5 DEF a
    <2>8. RawDataModules(v) = (16 * v + 128) * v + 64 - a - f
      BY <2>6, <2>7
    <2>9. a \in Int /\ f \in Int
      BY <2>2 DEF a, f
    <2>10. 16 * v * v \in Int
      OBVIOUS
    <2> DEFINE w == 16 * v * v
    <2>11. w \in Int /\ S * S = w + 136 * v + 289 /\ (16 * v + 128) * v = w + 128 * v
      BY <2>3, <2>4, <2>10
    <2> HIDE DEF w
    <2>12. m = 225 + 8 * v + a + f
      BY <2>1, <2>9 DEF m
    <2>13. QED
      BY <2>8, <2>9, <2>11, <2>12
  <1>9. QED
    BY <1>7, <1>8

-----------------------------------------------------------------------------
(* The order in which they are filled *)

\* A sequence shows what its parts show.
LEMMA RangeJoined ==
    ASSUME NEW G, NEW s \in Seq(G), NEW t \in Seq(G)
    PROVE  /\ s \o t \in Seq(G)
           /\ Len(s) \in Nat /\ Len(t) \in Nat /\ Len(s \o t) = Len(s) + Len(t)
           /\ Range(s \o t) = Range(s) \cup Range(t)
           /\ Range(s) \subseteq G
  <1>1. s \o t \in Seq(G) /\ Len(s) \in Nat /\ Len(t) \in Nat /\ Len(s \o t) = Len(s) + Len(t)
    OBVIOUS
  <1>2. /\ DOMAIN s = 1 .. Len(s) /\ DOMAIN t = 1 .. Len(t)
        /\ DOMAIN (s \o t) = 1 .. Len(s) + Len(t)
    OBVIOUS
  <1>3. \A k \in 1 .. Len(s) + Len(t) :
            (s \o t)[k] = IF k <= Len(s) THEN s[k] ELSE t[k - Len(s)]
    OBVIOUS
  <1>4. ASSUME NEW x \in Range(s \o t)
        PROVE  x \in Range(s) \cup Range(t)
    <2>1. PICK k \in 1 .. Len(s) + Len(t) : x = (s \o t)[k]
      BY <1>2 DEF Range
    <2>2. CASE k <= Len(s)
      BY <1>1, <1>2, <1>3, <2>1, <2>2 DEF Range
    <2>3. CASE ~(k <= Len(s))
      <3>1. k - Len(s) \in 1 .. Len(t)
        BY <1>1, <2>3
      <3>2. QED
        BY <1>2, <1>3, <2>1, <2>3, <3>1 DEF Range
    <2>4. QED
      BY <2>2, <2>3
  <1>5. ASSUME NEW x \in Range(s)
        PROVE  x \in Range(s \o t)
    <2>1. PICK k \in 1 .. Len(s) : x = s[k]
      BY <1>2 DEF Range
    <2>2. k \in 1 .. Len(s) + Len(t) /\ k <= Len(s)
      BY <1>1
    <2>3. QED
      BY <1>2, <1>3, <2>1, <2>2 DEF Range
  <1>6. ASSUME NEW x \in Range(t)
        PROVE  x \in Range(s \o t)
    <2>1. PICK k \in 1 .. Len(t) : x = t[k]
      BY <1>2 DEF Range
    <2>2. /\ Len(s) + k \in 1 .. Len(s) + Len(t)
          /\ ~(Len(s) + k <= Len(s)) /\ (Len(s) + k) - Len(s) = k
      BY <1>1
    <2>3. (s \o t)[Len(s) + k] = x
      BY <1>3, <2>1, <2>2
    <2>4. QED
      BY <1>2, <2>2, <2>3 DEF Range
  <1>7. Range(s) \subseteq G
    BY DEF Range
  <1>8. QED
    BY <1>1, <1>4, <1>5, <1>6, <1>7

\* A sequence that shows each of its elements once.
Once(s, G, S) ==
    /\ s \in Seq(G)
    /\ Range(s) = S
    /\ Counts(S, Len(s))

\* Two such sequences with nothing in common are joined to a third.
LEMMA OnceJoined ==
    ASSUME NEW G, NEW s, NEW t, NEW S, NEW T, Once(s, G, S), Once(t, G, T),
           \A x \in S : x \notin T
    PROVE  Once(s \o t, G, S \cup T)
  <1>1. s \in Seq(G) /\ t \in Seq(G) /\ Range(s) = S /\ Range(t) = T
    BY DEF Once
  <1>2. /\ s \o t \in Seq(G) /\ Len(s \o t) = Len(s) + Len(t)
        /\ Range(s \o t) = Range(s) \cup Range(t)
    BY <1>1, RangeJoined
  <1>3. Counts(S, Len(s)) /\ Counts(T, Len(t))
    BY DEF Once
  <1>4. Counts(S \cup T, Len(s) + Len(t))
    BY <1>3, CountUnion
  <1>5. QED
    BY <1>1, <1>2, <1>4 DEF Once

LEMMA OnceNone ==
    ASSUME NEW G
    PROVE  Once(<<>>, G, {})
  <1>1. <<>> \in Seq(G) /\ Len(<<>>) = 0 /\ DOMAIN <<>> = {}
    OBVIOUS
  <1>2. Range(<<>>) = {}
    BY <1>1 DEF Range
  <1>3. QED
    BY <1>1, <1>2, CountNone DEF Once

LEMMA OnceOne ==
    ASSUME NEW G, NEW x \in G
    PROVE  Once(<<x>>, G, {x})
  <1>1. <<x>> \in Seq(G) /\ Len(<<x>>) = 1 /\ DOMAIN <<x>> = 1 .. 1 /\ <<x>>[1] = x
    OBVIOUS
  <1>2. Range(<<x>>) = {x}
    <2>1. \A i \in 1 .. 1 : i = 1
      OBVIOUS
    <2>2. 1 \in 1 .. 1
      OBVIOUS
    <2>3. QED
      BY <1>1, <2>1, <2>2 DEF Range
  <1>3. QED
    BY <1>1, <1>2, CountOne DEF Once

\* The elements of z that are not in F, in the order of z.
Kept(z, n, F) == [i \in 1 .. n |-> IF z[i] \in F THEN <<>> ELSE <<z[i]>>]

\* Each of them is kept, and once.
LEMMA KeptOnce ==
    ASSUME NEW G, NEW F, NEW L \in Nat \ {0}, NEW z \in [1 .. L -> G],
           \A i, j \in 1 .. L : z[i] = z[j] => i = j
    PROVE  Once(FlattenSeq(Kept(z, L, F)), G, {z[i] : i \in 1 .. L} \ F)
  <1> DEFINE seqs == Kept(z, L, F)
             Of(n) == {z[i] : i \in 1 .. n} \ F
  <1>1. /\ Len(seqs) = L
        /\ \A i \in 1 .. L : seqs[i] = IF z[i] \in F THEN <<>> ELSE <<z[i]>>
    BY DEF Kept
  <1> HIDE DEF seqs
  <1>2. PICK g : Flattens(g, L, seqs) /\ FlattenSeq(seqs) = g[L]
    BY <1>1, FlattenBy
  <1>3. /\ g[1] = seqs[1]
        /\ \A n \in 1 .. L - 1 : g[n + 1] = g[n] \o seqs[n + 1]
    <2>1. \A n \in 1 .. L : g[n] = IF n = 1 THEN seqs[n] ELSE g[n - 1] \o seqs[n]
      BY <1>2 DEF Flattens
    <2>2. g[1] = seqs[1]
      <3>1. 1 \in 1 .. L
        OBVIOUS
      <3>2. QED
        BY <2>1, <3>1
    <2>3. ASSUME NEW n \in 1 .. L - 1
          PROVE  g[n + 1] = g[n] \o seqs[n + 1]
      <3>1. n + 1 \in 1 .. L /\ n + 1 # 1 /\ (n + 1) - 1 = n
        OBVIOUS
      <3>2. QED
        BY <2>1, <3>1
    <2>4. QED
      BY <2>2, <2>3
  <1>4. \A i \in 1 .. L : Once(seqs[i], G, {z[i]} \ F)
    <2> SUFFICES ASSUME NEW i \in 1 .. L
                 PROVE  Once(seqs[i], G, {z[i]} \ F)
      OBVIOUS
    <2>1. CASE z[i] \in F
      <3>1. seqs[i] = <<>> /\ {z[i]} \ F = {}
        BY <1>1, <2>1
      <3>2. QED
        BY <3>1, OnceNone
    <2>2. CASE z[i] \notin F
      <3>1. seqs[i] = <<z[i]>> /\ {z[i]} \ F = {z[i]} /\ z[i] \in G
        BY <1>1, <2>2
      <3>2. QED
        BY <3>1, OnceOne
    <2>3. QED
      BY <2>1, <2>2
  <1> DEFINE T == {n \in 1 .. L : Once(g[n], G, Of(n))}
  <1>5. 1 \in T
    <2>1. 1 \in 1 .. L
      OBVIOUS
    <2>2. Of(1) = {z[1]} \ F
      <3>1. \A i \in 1 .. 1 : i = 1
        OBVIOUS
      <3>2. 1 \in 1 .. 1
        OBVIOUS
      <3>3. QED
        BY <3>1, <3>2
    <2>3. QED
      BY <1>3, <1>4, <2>1, <2>2
  <1>6. ASSUME NEW n \in 1 .. L - 1, n \in T
        PROVE  n + 1 \in T
    <2>1. n + 1 \in 1 .. L /\ Once(g[n], G, Of(n))
      BY <1>6
    <2>2. Once(seqs[n + 1], G, {z[n + 1]} \ F)
      BY <1>4, <2>1
    <2>3. \A x \in Of(n) : x \notin {z[n + 1]} \ F
      <3> SUFFICES ASSUME NEW i \in 1 .. n, z[i] = z[n + 1]
                   PROVE  FALSE
        OBVIOUS
      <3>1. i \in 1 .. L /\ i # n + 1
        OBVIOUS
      <3>2. QED
        BY <2>1, <3>1
    <2>4. Of(n + 1) = Of(n) \cup ({z[n + 1]} \ F)
      <3>1. \A i : i \in 1 .. n + 1 <=> i \in 1 .. n \/ i = n + 1
        OBVIOUS
      <3>2. QED
        BY <3>1
    <2> HIDE DEF Of
    <2>5. Once(g[n] \o seqs[n + 1], G, Of(n) \cup ({z[n + 1]} \ F))
      BY <2>1, <2>2, <2>3, OnceJoined
    <2>6. QED
      BY <1>3, <2>1, <2>4, <2>5
  <1>7. L \in T
    <2> HIDE DEF T
    <2>1. \A i \in 1 .. L : i \in T
      BY <1>5, <1>6, Inductive
    <2>2. QED
      BY <2>1
  <1>8. QED
    BY <1>2, <1>7 DEF seqs

\* The two columns are gone through once, from one end to the other.
LEMMA ZigzagIs ==
    ASSUME NEW v \in 1 .. 20, NEW r \in 1 .. Size(v) - 1
    PROVE  /\ 2 * Size(v) \in Nat \ {0}
           /\ Zigzag(v, r) \in [1 .. 2 * Size(v) -> Grid(v)]
           /\ \A i, j \in 1 .. 2 * Size(v) : Zigzag(v, r)[i] = Zigzag(v, r)[j] => i = j
           /\ {Zigzag(v, r)[i] : i \in 1 .. 2 * Size(v)} = {c \in Grid(v) : c[1] \in {r, r - 1}}
  <1> DEFINE S == Size(v)
             up == ((r + 1) \div 2) % 2 = 0
             z == Zigzag(v, r)
             Turn(y) == IF up THEN S - 1 - y ELSE y
  <1>1. S \in Nat /\ S >= 21 /\ 2 * S \in Nat \ {0} /\ r \in Nat /\ r >= 1 /\ r <= S - 1
    BY DEF Size
  <1>2. \A i \in 1 .. 2 * S : /\ (i - 1) \div 2 \in 0 .. S - 1
                              /\ (i - 1) % 2 \in {0, 1}
                              /\ i = 2 * ((i - 1) \div 2) + ((i - 1) % 2) + 1
    <2> SUFFICES ASSUME NEW i \in 1 .. 2 * S
                 PROVE  /\ (i - 1) \div 2 \in 0 .. S - 1
                        /\ (i - 1) % 2 \in {0, 1}
                        /\ i = 2 * ((i - 1) \div 2) + ((i - 1) % 2) + 1
      OBVIOUS
    <2>1. S \in Nat /\ i \in Nat /\ i >= 1 /\ i <= 2 * S
      BY <1>1
    <2> HIDE DEF S
    <2>2. QED
      BY <2>1
  <1>3. \A y \in 0 .. S - 1 : Turn(y) \in 0 .. S - 1 /\ Turn(Turn(y)) = y
    BY <1>1
  <1>4. /\ z = [i \in 1 .. 2 * S |-> z[i]]
        /\ \A i \in 1 .. 2 * S : z[i] = <<r - ((i - 1) % 2), Turn((i - 1) \div 2)>>
    BY DEF Zigzag
  <1> HIDE DEF z, Turn, up
  <1>5. \A i \in 1 .. 2 * S : /\ z[i][1] = r - ((i - 1) % 2) /\ z[i][2] = Turn((i - 1) \div 2)
                              /\ z[i] \in {c \in Grid(v) : c[1] \in {r, r - 1}}
    <2> SUFFICES ASSUME NEW i \in 1 .. 2 * S
                 PROVE  /\ z[i][1] = r - ((i - 1) % 2) /\ z[i][2] = Turn((i - 1) \div 2)
                        /\ z[i] \in {c \in Grid(v) : c[1] \in {r, r - 1}}
      OBVIOUS
    <2>1. z[i] = <<r - ((i - 1) % 2), Turn((i - 1) \div 2)>>
      BY <1>4
    <2>2. r - ((i - 1) % 2) \in {r, r - 1} /\ r - ((i - 1) % 2) \in 0 .. S - 1
      BY <1>1, <1>2
    <2>3. Turn((i - 1) \div 2) \in 0 .. S - 1
      BY <1>2, <1>3
    <2>4. QED
      BY <2>1, <2>2, <2>3 DEF Grid
  <1>6. z \in [1 .. 2 * S -> Grid(v)]
    BY <1>4, <1>5
  <1>7. ASSUME NEW i \in 1 .. 2 * S, NEW j \in 1 .. 2 * S, z[i] = z[j]
        PROVE  i = j
    <2>1. r - ((i - 1) % 2) = r - ((j - 1) % 2) /\ Turn((i - 1) \div 2) = Turn((j - 1) \div 2)
      BY <1>5, <1>7
    <2>2. (i - 1) \div 2 = (j - 1) \div 2
      BY <1>2, <1>3, <2>1
    <2>3. (i - 1) % 2 = (j - 1) % 2
      BY <1>1, <1>2, <2>1
    <2>4. QED
      BY <1>2, <2>2, <2>3
  <1>8. ASSUME NEW c \in Grid(v), c[1] \in {r, r - 1}
        PROVE  \E i \in 1 .. 2 * S : z[i] = c
    <2> DEFINE y == Turn(c[2])
               i == 2 * y + (r - c[1]) + 1
    <2>1. c = <<c[1], c[2]>> /\ c[2] \in 0 .. S - 1
      BY GridIs
    <2>2. y \in 0 .. S - 1 /\ Turn(y) = c[2]
      BY <1>3, <2>1
    <2>3. r - c[1] \in {0, 1} /\ r - (r - c[1]) = c[1]
      BY <1>1, <1>8
    <2> HIDE DEF y
    <2>4. i \in 1 .. 2 * S /\ (i - 1) \div 2 = y /\ (i - 1) % 2 = r - c[1]
      <3> DEFINE j == r - c[1]
      <3>1. j \in {0, 1} /\ y \in 0 .. S - 1 /\ S \in Nat /\ i = 2 * y + j + 1
        BY <1>1, <2>2, <2>3
      <3> HIDE DEF j, S, i
      <3>2. i \in 1 .. 2 * S /\ (i - 1) \div 2 = y /\ (i - 1) % 2 = j
        BY <3>1
      <3>3. QED
        BY <3>2 DEF j
    <2> HIDE DEF i
    <2>5. z[i] = <<r - (r - c[1]), Turn(y)>>
      BY <1>4, <2>4
    <2>6. z[i] = c
      BY <2>1, <2>2, <2>3, <2>5
    <2>7. QED
      BY <2>4, <2>6
  <1>9. {z[i] : i \in 1 .. 2 * S} = {c \in Grid(v) : c[1] \in {r, r - 1}}
    BY <1>5, <1>8
  <1>10. QED
    BY <1>1, <1>6, <1>7, <1>9 DEF z

\* A step fills what is free in its two columns.
LEMMA DataModulesOnce ==
    ASSUME NEW v \in 1 .. 20, NEW r \in 1 .. Size(v) - 1, M = Patterns(v)
    PROVE  Once(DataModules(v, r), Grid(v), {c \in DataArea(v) : c[1] \in {r, r - 1}})
  <1> DEFINE z == Zigzag(v, r)
             L == 2 * Size(v)
             F == {c \in Grid(v) : Patterns(v)[c] # Free}
             seqs == [n \in 1 .. L |-> IF Fixed(z[n]) THEN <<>> ELSE <<z[n]>>]
  <1>1. DataModules(v, r) = FlattenSeq(seqs)
    BY DEF DataModules
  <1>2. /\ L \in Nat \ {0} /\ z \in [1 .. L -> Grid(v)]
        /\ \A i, j \in 1 .. L : z[i] = z[j] => i = j
        /\ {z[i] : i \in 1 .. L} = {c \in Grid(v) : c[1] \in {r, r - 1}}
    BY ZigzagIs
  <1> HIDE DEF z, L
  <1>3. \A n \in 1 .. L : Fixed(z[n]) <=> z[n] \in F
    BY <1>2 DEF Fixed
  <1>4. seqs = Kept(z, L, F)
    BY <1>3 DEF Kept
  <1>5. Once(FlattenSeq(Kept(z, L, F)), Grid(v), {z[i] : i \in 1 .. L} \ F)
    <2> HIDE DEF F
    <2>1. QED
      BY <1>2, KeptOnce
  <1>6. {z[i] : i \in 1 .. L} \ F = {c \in DataArea(v) : c[1] \in {r, r - 1}}
    BY <1>2 DEF DataArea
  <1> HIDE DEF seqs, F
  <1>7. QED
    BY <1>1, <1>4, <1>5, <1>6

\* The columns that are filled next.
LEMMA RightIs ==
    ASSUME NEW v \in 1 .. 20,
           NEW r \in {-1, 1, 3, 5} \cup {k \in 8 .. Size(v) - 1 : k % 2 = 0}, r >= 1
    PROVE  /\ r \in 1 .. Size(v) - 1
           /\ NextRight(r) \in {-1, 1, 3, 5} \cup {k \in 8 .. Size(v) - 1 : k % 2 = 0}
           /\ \A x \in Nat : x # 6 => (x > NextRight(r) <=> x > r \/ x \in {r, r - 1})
  <1>1. Size(v) \in Nat /\ Size(v) >= 21
    BY DEF Size
  <1>2. QED
    BY <1>1 DEF NextRight

\* Filling goes on as it has begun, where codewords and grid are those of the version.
LEMMA FillingStep == IInv /\ Filling /\ [Next]_vars => Filling'
  <1> SUFFICES ASSUME IInv, Filling, [Next]_vars
               PROVE  Filling'
    OBVIOUS
  <1>1. CASE ChooseVersion
    BY <1>1 DEF ChooseVersion, Filling
  <1>2. CASE TooLarge
    BY <1>2 DEF TooLarge, Filling
  <1>3. CASE SplitBlocks
    BY <1>3 DEF SplitBlocks, Filling
  <1>4. CASE DrawPatterns
    <2>1. version \in 1 .. 20 /\ version' = version
      BY <1>4 DEF DrawPatterns, IInv, Chosen
    <2>2. pc' = "data" /\ filled' = <<>> /\ right' = Size(version) - 1
      BY <1>4 DEF DrawPatterns, Filling
    <2>3. right' \in {r \in 8 .. Size(version) - 1 : r % 2 = 0}
      BY <2>1, <2>2 DEF Size
    <2>4. Once(filled', Grid(version), {})
      BY <2>2, OnceNone
    <2>5. {c \in Grid(version) : Patterns(version)[c] = Free /\ c[1] > right'} = {}
      <3>1. \A c \in Grid(version) : ~(c[1] > Size(version) - 1)
        BY <2>1, GridIs
      <3>2. QED
        BY <2>2, <3>1
    <2>6. QED
      BY <2>1, <2>2, <2>3, <2>4, <2>5 DEF Filling, Once, Counts
  <1>5. CASE FillColumns
    <2> DEFINE v == version
               Past(r) == {c \in DataArea(v) : c[1] > r}
    <2>1. v \in 1 .. 20 /\ version' = v /\ M = Patterns(v)
      BY <1>5 DEF FillColumns, IInv, Chosen, OfVersion
    <2>2. /\ pc = "data" /\ pc' = "data" /\ right >= 1 /\ right' = NextRight(right)
          /\ filled' = filled \o DataModules(v, right)
      BY <1>5 DEF FillColumns
    <2>3. /\ right \in {-1, 1, 3, 5} \cup {k \in 8 .. Size(v) - 1 : k % 2 = 0}
          /\ filled \in Seq(Grid(v))
          /\ Range(filled) = Past(right)
          /\ Cardinality(Range(filled)) = Len(filled)
      BY <2>2 DEF Filling, DataArea
    <2> HIDE DEF v
    <2>4. /\ right \in 1 .. Size(v) - 1
          /\ right' \in {-1, 1, 3, 5} \cup {k \in 8 .. Size(v) - 1 : k % 2 = 0}
          /\ \A x \in Nat : x # 6 => (x > right' <=> x > right \/ x \in {right, right - 1})
      BY <2>1, <2>2, <2>3, RightIs
    <2>5. Once(filled, Grid(v), Past(right))
      <3>1. IsFiniteSet(DataArea(v))
        BY <2>1, DataAreaCount DEF Counts
      <3>2. Past(right) \in SUBSET DataArea(v)
        OBVIOUS
      <3> HIDE DEF Past
      <3>3. IsFiniteSet(Past(right))
        BY <3>1, <3>2, FS_Subset
      <3>4. QED
        BY <2>3, <3>3 DEF Once, Counts
    <2> DEFINE these == {c \in DataArea(v) : c[1] \in {right, right - 1}}
    <2>6. Once(DataModules(v, right), Grid(v), these)
      BY <2>1, <2>4, DataModulesOnce
    <2>7. \A c \in DataArea(v) : c[1] \in Nat /\ c[1] # 6
      BY <2>1, NoDataBesideTiming, GridIs
    <2>8. \A c \in Past(right) : c \notin these
      BY <2>4, <2>7
    <2>9. Past(right') = Past(right) \cup these
      BY <2>4, <2>7
    <2>10. Once(filled', Grid(v), Past(right'))
      <3> HIDE DEF Past, these
      <3>1. QED
        BY <2>2, <2>5, <2>6, <2>8, <2>9, OnceJoined
    <2>11. Past(right') = {c \in Grid(v) : Patterns(v)[c] = Free /\ c[1] > right'}
      BY DEF DataArea
    <2> HIDE DEF Past
    <2>12. QED
      BY <2>1, <2>2, <2>4, <2>10, <2>11 DEF Filling, Once, Counts, v
  <1>6. ASSUME NEW m \in 0 .. 7, Format(m)
        PROVE  Filling'
    BY <1>6 DEF Format, Filling
  <1>7. CASE UNCHANGED vars
    BY <1>7 DEF vars, Filling
  <1>8. QED
    BY <1>1, <1>2, <1>3, <1>4, <1>5, <1>6, <1>7 DEF Next

\* At all times the modules that have been filled are those right of the next columns,
\* each of them once.
THEOREM FilledOnce == Spec => []Filling
  <1>1. Init => Filling
    BY DEF Init, Filling
  <1>2. QED
    BY Invariance, <1>1, FillingStep, PTL DEF Spec

\* Every bit of every codeword has a module of its own, at most 7 modules are left, and
\* the formula that chose the version counts them.
THEOREM EveryBitShownOnce == Spec => []EveryBitOnce
  <1>1. IInv /\ Filling => EveryBitOnce
    <2> SUFFICES ASSUME IInv, Filling, pc = "done" PROVE EveryBitOnce
      BY DEF EveryBitOnce
    <2> DEFINE v == version
    <2>1. v \in 1 .. 20 /\ M = Symbol(v) /\ finalCw = Interleaved(v)
      BY DEF IInv, Chosen, OfVersion, Symbol
    <2>2. /\ Range(filled) = {c \in Grid(v) : Patterns(v)[c] = Free /\ c[1] > right}
          /\ Cardinality(Range(filled)) = Len(filled)
          /\ right = -1
      BY DEF Filling
    <2> HIDE DEF v
    <2>3. \A c \in Grid(v) : c[1] > right
      <3>1. \A c \in Grid(v) : c[1] \in Nat
        BY <2>1, GridIs
      <3>2. QED
        BY <2>2, <3>1
    <2>4. Range(filled) = DataArea(v)
      BY <2>2, <2>3 DEF DataArea
    <2>5. Shown("free") = DataArea(v)
      BY <2>1, FreeShown DEF Shown
    <2>6. Len(filled) = RawDataModules(v)
      BY <2>1, <2>2, <2>4, DataAreaCount DEF Counts
    <2>7. Len(finalCw) = TotalCodewords(v)
      BY <2>1, ReadBack
    <2>8. RawDataModules(v) - 8 * TotalCodewords(v) \in 0 .. 7
      <3>1. RawDataModules(v) \in Int
        BY <2>1 DEF RawDataModules, Alignments
      <3>2. QED
        BY <3>1 DEF TotalCodewords
    <2>9. QED
      BY <2>2, <2>4, <2>5, <2>6, <2>7, <2>8 DEF EveryBitOnce, v
  <1>2. QED
    BY Invariance, FilledOnce, <1>1, PTL
=============================================================================
