------------------------- MODULE LogRotationProofs -------------------------
(***************************************************************************)
(* Theorems about the host service's log file, for every size, number and  *)
(* age limit, every number of lines, failures and stops.                   *)
(***************************************************************************)
EXTENDS LogRotation, Integers, FiniteSetTheorems, TLAPS

\* The steps that have the size of a line for a parameter.
Writes == FinishWrite \/ \E n \in LineSizes : Write(n)
Begins == \E n \in LineSizes : BeginRotation(n)

\* The units of the next line.
Line(n) == (written + 1)..(written + n)

LEMMA NextSteps ==
  Next <=> \/ Start \/ Writes \/ Begins \/ Copy \/ Truncate \/ RemovePlaceholder \/ Prune
           \/ Crash \/ Tick
BY DEF Next, Writes, Begins

-----------------------------------------------------------------------------
\* Type correctness, in parts.

ProgressOK ==
  /\ pc \in {"down", "idle", "copy", "truncate", "remove", "prune", "append"}
  /\ handle \in {"current", "placeholder"}
  /\ incoming \in 1..MaxLine
  /\ stamp \in Times /\ now \in Times /\ stamp <= now
  /\ written \in 0..MaxText
  /\ faults \in 0..MaxFaults /\ crashes \in 0..MaxCrashes

PlaceholderOK ==
  /\ placeholder \in [exists : BOOLEAN, text : SUBSET Text, modified : 0..MaxTime]
  /\ ~placeholder.exists => placeholder = NoFile

ArchivesOK ==
  /\ DOMAIN archives \subseteq Times
  /\ archives \in [DOMAIN archives -> SUBSET Text]

LEMMA TypeParts ==
  TypeOK <=> /\ ProgressOK /\ PlaceholderOK /\ ArchivesOK
             /\ current \subseteq Text /\ pruned \subseteq Text /\ long \subseteq SUBSET Text
BY DEF TypeOK, ProgressOK, PlaceholderOK, ArchivesOK

LEMMA TypeInit == Init => TypeOK
<1> SUFFICES ASSUME Init PROVE TypeOK
  OBVIOUS
<1>1. ProgressOK
  BY BoundsAssumption, LineAssumption DEF Init, ProgressOK, Times
<1>2. PlaceholderOK
  BY BoundsAssumption DEF Init, PlaceholderOK, NoFile
<1>3. ArchivesOK
  BY DEF Init, ArchivesOK
<1> QED
  BY <1>1, <1>2, <1>3, TypeParts DEF Init

\* What a step that writes a line does.
LEMMA AppendEffect ==
  ASSUME ProgressOK, Writes
  PROVE  \E n \in 1..MaxLine :
           /\ written + n <= MaxText /\ written' = written + n
           /\ long' = long \union {l \in {Line(n)} : n >= MaxSize}
           /\ pc' = "idle"
           /\ UNCHANGED <<handle, archives, incoming, stamp, now, pruned, faults, crashes>>
           /\ \/ /\ handle = "current" /\ UNCHANGED placeholder
                 /\ current' = current \union Line(n)
              \/ /\ handle = "placeholder" /\ UNCHANGED current
                 /\ placeholder' = [exists |-> TRUE, modified |-> now,
                                    text |-> placeholder.text \union Line(n)]
           /\ (pc = "idle" /\ ~Full(n)) \/ (pc = "append" /\ n = incoming)
<1>1. CASE FinishWrite
  BY <1>1 DEF FinishWrite, Append, Line, ProgressOK, rotation, history
<1>2. ASSUME NEW n \in LineSizes, Write(n) PROVE n \in 1..MaxLine
  BY LineAssumption
<1>3. ASSUME NEW n \in LineSizes, Write(n)
      PROVE  /\ written + n <= MaxText /\ written' = written + n
             /\ long' = long \union {l \in {Line(n)} : n >= MaxSize}
             /\ pc = "idle" /\ pc' = "idle" /\ ~Full(n)
             /\ UNCHANGED <<handle, archives, incoming, stamp, now, pruned, faults, crashes>>
             /\ \/ /\ handle = "current" /\ UNCHANGED placeholder
                   /\ current' = current \union Line(n)
                \/ /\ handle = "placeholder" /\ UNCHANGED current
                   /\ placeholder' = [exists |-> TRUE, modified |-> now,
                                      text |-> placeholder.text \union Line(n)]
  BY <1>3 DEF Write, Append, Line, ProgressOK, rotation, history
<1> QED
  BY <1>1, <1>2, <1>3 DEF Writes

\* A line is new text, and there is room for it in the numbers.
LEMMA LineIsNew ==
  ASSUME ProgressOK, NEW n \in 1..MaxLine, written + n <= MaxText
  PROVE  /\ Line(n) \subseteq Text /\ Line(n) # {}
         /\ IsFiniteSet(Line(n)) /\ Cardinality(Line(n)) = n
         /\ \A u \in Line(n) : u > written
         /\ 1..(written + n) = (1..written) \union Line(n)
<1>1. written \in Nat /\ n \in Nat /\ n >= 1 /\ MaxText \in Nat
  BY BoundsAssumption, LineAssumption DEF ProgressOK
<1>2. IsFiniteSet(Line(n)) /\ Cardinality(Line(n)) = n
  BY <1>1, FS_Interval DEF Line
<1>3. written + 1 \in Line(n)
  BY <1>1 DEF Line
<1> QED
  BY <1>1, <1>2, <1>3 DEF Line, Text

LEMMA ProgressStep == ProgressOK /\ [Next]_vars => ProgressOK'
<1> SUFFICES ASSUME ProgressOK, [Next]_vars PROVE ProgressOK'
  OBVIOUS
<1> USE BoundsAssumption, LineAssumption DEF ProgressOK, Times
<1>1. CASE Start \/ Crash \/ Tick
  BY <1>1 DEF Start, Crash, Tick, rotation, logged, history
<1>7. CASE Begins
  BY <1>7 DEF Begins, BeginRotation, logged, history
<1>2. CASE Writes
  BY <1>2, AppendEffect
<1>3. CASE Copy
  BY <1>3 DEF Copy, Faults, Fault, Collision, rotation, logged
<1>4. CASE Truncate \/ RemovePlaceholder
  BY <1>4 DEF Truncate, RemovePlaceholder, Faults, Fault, rotation, logged
<1>5. CASE Prune
  <2>1. /\ UNCHANGED <<handle, incoming, stamp, now, written, crashes>>
        /\ pc' \in {"append", "idle"}
    BY <1>5 DEF Prune, rotation, logged
  <2>2. UNCHANGED faults \/ Fault
    BY <1>5 DEF Prune
  <2> QED
    BY <2>1, <2>2 DEF Fault, Faults
<1>6. CASE UNCHANGED vars
  BY <1>6 DEF vars, rotation, logged, history
<1> QED
  BY <1>1, <1>2, <1>3, <1>4, <1>5, <1>6, <1>7, NextSteps

\* Which steps touch the files, what is pruned and what is written.
LEMMA FilesChanged ==
  ASSUME [Next]_vars
  PROVE  /\ UNCHANGED placeholder \/ Writes \/ Begins \/ RemovePlaceholder \/ Prune
         /\ UNCHANGED archives \/ Copy \/ Prune
         /\ UNCHANGED current \/ Writes \/ Truncate
         /\ UNCHANGED pruned \/ Prune
         /\ UNCHANGED <<written, long>> \/ Writes
<1>1. CASE Start \/ Crash \/ Tick
  BY <1>1 DEF Start, Crash, Tick, history, files, logged
<1>2. CASE Writes
  BY <1>2 DEF Writes, Write, FinishWrite, history
<1>6. CASE Begins
  BY <1>6 DEF Begins, BeginRotation, history, logged
<1>3. CASE Copy \/ Truncate
  BY <1>3 DEF Copy, Truncate, logged
<1>4. CASE RemovePlaceholder \/ Prune
  BY <1>4 DEF RemovePlaceholder, Prune, logged
<1>5. CASE UNCHANGED vars
  BY <1>5 DEF vars, history, files, logged
<1> QED
  BY <1>1, <1>2, <1>3, <1>4, <1>5, <1>6, NextSteps

LEMMA PlaceholderStep == ProgressOK /\ PlaceholderOK /\ [Next]_vars => PlaceholderOK'
<1> SUFFICES ASSUME ProgressOK, PlaceholderOK, [Next]_vars PROVE PlaceholderOK'
  OBVIOUS
<1> USE DEF PlaceholderOK
<1>0. PlaceholderOK /\ NoFile \in [exists : BOOLEAN, text : SUBSET Text, modified : 0..MaxTime]
  BY BoundsAssumption DEF NoFile
<1>1. CASE UNCHANGED placeholder
  BY <1>1
<1>2. CASE placeholder' = NoFile
  BY <1>0, <1>2
<1>7. ASSUME NEW text \in SUBSET Text, NEW modified \in 0..MaxTime,
             placeholder' = [exists |-> TRUE, modified |-> modified, text |-> text]
      PROVE  PlaceholderOK'
  BY <1>7
<1>3. CASE Writes
  <2>1. PICK n \in 1..MaxLine :
          /\ written + n <= MaxText
          /\ \/ UNCHANGED placeholder
             \/ placeholder' = [exists |-> TRUE, modified |-> now,
                                text |-> placeholder.text \union Line(n)]
    BY <1>3, AppendEffect
  <2>2. now \in 0..MaxTime
    BY BoundsAssumption DEF ProgressOK, Times
  <2>3. Line(n) \subseteq Text
    BY <2>1, LineIsNew
  <2>4. placeholder.text \in SUBSET Text
    BY <1>0
  <2> QED
    BY <1>1, <1>7, <2>1, <2>2, <2>3, <2>4
<1>4. CASE Begins
  <2>1. \/ UNCHANGED placeholder
        \/ placeholder' = [exists |-> TRUE, text |-> {}, modified |-> now]
    BY <1>4 DEF Begins, BeginRotation
  <2>2. now \in 0..MaxTime
    BY BoundsAssumption DEF ProgressOK, Times
  <2> QED
    BY <1>1, <1>7, <2>1, <2>2
<1>5. CASE RemovePlaceholder \/ Prune
  <2>1. UNCHANGED placeholder \/ placeholder' = NoFile
    BY <1>5 DEF RemovePlaceholder, Prune, RemoveFiles
  <2> QED
    BY <1>1, <1>2, <2>1
<1> QED
  BY FilesChanged, <1>1, <1>3, <1>4, <1>5

LEMMA ArchivesStep ==
  ProgressOK /\ ArchivesOK /\ current \subseteq Text /\ [Next]_vars => ArchivesOK'
<1> SUFFICES ASSUME ProgressOK, ArchivesOK, current \subseteq Text, [Next]_vars PROVE ArchivesOK'
  OBVIOUS
<1>1. CASE UNCHANGED archives
  BY <1>1 DEF ArchivesOK
<1>2. CASE Copy
  <2>1. ASSUME NEW text \in SUBSET Text, archives' = Archive(stamp, text) PROVE ArchivesOK'
    BY <2>1 DEF Archive, ArchivesOK, ProgressOK
  <2> QED
    BY <1>1, <1>2, <2>1 DEF Copy
<1>3. CASE Prune
  <2>1. PICK gone : archives' = [t \in DOMAIN archives \ gone |-> archives[t]]
    BY <1>3 DEF Prune, RemoveFiles
  <2> QED
    BY <2>1 DEF ArchivesOK
<1> QED
  BY FilesChanged, <1>1, <1>2, <1>3

LEMMA CurrentStep == ProgressOK /\ current \subseteq Text /\ [Next]_vars => current' \subseteq Text
<1> SUFFICES ASSUME ProgressOK, current \subseteq Text, [Next]_vars PROVE current' \subseteq Text
  OBVIOUS
<1>1. CASE Writes
  <2>1. PICK n \in 1..MaxLine :
          /\ written + n <= MaxText
          /\ current' = current \union Line(n) \/ UNCHANGED current
    BY <1>1, AppendEffect
  <2> QED
    BY <2>1, LineIsNew
<1>2. CASE Truncate
  BY <1>2 DEF Truncate
<1> QED
  BY FilesChanged, <1>1, <1>2

LEMMA PrunedStep ==
  PlaceholderOK /\ ArchivesOK /\ pruned \subseteq Text /\ [Next]_vars => pruned' \subseteq Text
<1> SUFFICES ASSUME PlaceholderOK, ArchivesOK, pruned \subseteq Text, [Next]_vars
             PROVE  pruned' \subseteq Text
  OBVIOUS
<1>1. CASE Prune
  <2>1. PICK gone \in SUBSET Names : pruned' = pruned \union UNION {TextOf(n) : n \in gone}
    BY <1>1 DEF Prune, RemoveFiles, Surplus, Aged
  <2>2. ASSUME NEW n \in gone PROVE TextOf(n) \subseteq Text
    BY <2>2 DEF TextOf, Names, PlaceholderOK, ArchivesOK
  <2> QED
    BY <2>1, <2>2
<1> QED
  BY FilesChanged, <1>1

LEMMA LongStep ==
  ProgressOK /\ long \subseteq SUBSET Text /\ [Next]_vars => long' \subseteq SUBSET Text
<1> SUFFICES ASSUME ProgressOK, long \subseteq SUBSET Text, [Next]_vars
             PROVE  long' \subseteq SUBSET Text
  OBVIOUS
<1>1. CASE Writes
  <2>1. PICK n \in 1..MaxLine :
          written + n <= MaxText /\ long' = long \union {l \in {Line(n)} : n >= MaxSize}
    BY <1>1, AppendEffect
  <2> QED
    BY <2>1, LineIsNew
<1> QED
  BY FilesChanged, <1>1

(* The log's state keeps its types, whatever fails and wherever the service  *)
(* stops: in particular a placeholder that does not exist has no text.       *)
THEOREM TypeCorrect == Spec => []TypeOK
<1>1. Init => TypeOK
  BY TypeInit
<1>2. TypeOK /\ [Next]_vars => TypeOK'
  <2> SUFFICES ASSUME TypeOK, [Next]_vars PROVE TypeOK'
    OBVIOUS
  <2>1. /\ ProgressOK' /\ PlaceholderOK' /\ ArchivesOK'
        /\ current' \subseteq Text /\ pruned' \subseteq Text /\ long' \subseteq SUBSET Text
    BY TypeParts, ProgressStep, PlaceholderStep, ArchivesStep, CurrentStep, PrunedStep, LongStep
  <2> QED
    BY <2>1 DEF TypeOK, ProgressOK, PlaceholderOK, ArchivesOK
<1> QED
  BY <1>1, <1>2, PTL DEF Spec

-----------------------------------------------------------------------------
\* Sizes.

(* A file within the limit; a file that is within it or is one of the long   *)
(* lines.                                                                    *)
Small(text) == text \subseteq Text /\ Cardinality(text) < MaxSize
Fits(text, lines) ==
  /\ text \subseteq Text /\ Cardinality(text) <= FileLimit
  /\ Cardinality(text) < MaxSize \/ text \in lines

(* SizeBound holds because a rotation under way has emptied the file that the *)
(* line goes to in the end, and has copied it before.                        *)
RotationInv ==
  /\ pc = "truncate" => stamp \in DOMAIN archives /\ archives[stamp] = current
  /\ pc \in {"remove", "prune", "append"} => handle = "current" /\ current = {}

LEMMA FileLimitType == FileLimit \in Nat /\ FileLimit >= MaxSize - 1 /\ FileLimit >= MaxLine
BY SizeAssumption, LineAssumption DEF FileLimit

LEMMA TextFinite ==
  ASSUME NEW text \in SUBSET Text
  PROVE  IsFiniteSet(text) /\ Cardinality(text) \in Nat
<1>1. IsFiniteSet(Text)
  BY BoundsAssumption, FS_Interval DEF Text
<1>2. IsFiniteSet(text)
  BY <1>1, FS_Subset
<1> QED
  BY <1>2, FS_CardinalityType

LEMMA CardinalityOfCovered ==
  ASSUME NEW S, IsFiniteSet(S), NEW T, IsFiniteSet(T), NEW U, U \subseteq S \union T
  PROVE  Cardinality(U) <= Cardinality(S) + Cardinality(T)
<1>1. /\ IsFiniteSet(S \union T)
      /\ Cardinality(S \union T) = Cardinality(S) + Cardinality(T) - Cardinality(S \intersect T)
  BY FS_Union
<1>2. IsFiniteSet(U) /\ Cardinality(U) <= Cardinality(S \union T)
  BY <1>1, FS_Subset
<1>3. IsFiniteSet(S \intersect T)
  BY FS_Intersection
<1>4. /\ Cardinality(S) \in Nat /\ Cardinality(T) \in Nat /\ Cardinality(U) \in Nat
      /\ Cardinality(S \intersect T) \in Nat
  BY <1>2, <1>3, FS_CardinalityType
<1> QED
  BY <1>1, <1>2, <1>4

LEMMA SmallEmpty == Small({})
BY SizeAssumption, FS_EmptySet DEF Small

LEMMA SmallFits ==
  ASSUME NEW text, NEW lines, Small(text)
  PROVE  Fits(text, lines)
BY SizeAssumption, FileLimitType, TextFinite DEF Small, Fits

\* A line that fits the open file leaves it small.
LEMMA SmallAdd ==
  ASSUME ProgressOK, NEW n \in 1..MaxLine, written + n <= MaxText,
         NEW text \in SUBSET Text, ~(Cardinality(text) + n >= MaxSize)
  PROVE  Small(text \union Line(n))
<1>1. /\ Line(n) \subseteq Text /\ IsFiniteSet(Line(n)) /\ Cardinality(Line(n)) = n
  BY LineIsNew
<1>2. IsFiniteSet(text) /\ Cardinality(text) \in Nat
  BY TextFinite
<1>3. text \union Line(n) \subseteq Text
  BY <1>1
<1>4. Cardinality(text \union Line(n)) <= Cardinality(text) + n
  BY <1>1, <1>2, CardinalityOfCovered
<1>5. Cardinality(text \union Line(n)) \in Nat
  BY <1>3, TextFinite
<1> QED
  BY <1>2, <1>3, <1>4, <1>5, SizeAssumption, LineAssumption DEF Small

LEMMA RotationStep == TypeOK /\ RotationInv /\ [Next]_vars => RotationInv'
<1> SUFFICES ASSUME TypeOK, RotationInv, [Next]_vars PROVE RotationInv'
  OBVIOUS
<1> USE DEF RotationInv
<1>1. CASE Start \/ Begins \/ Crash
  BY <1>1 DEF Start, Begins, BeginRotation, Crash
<1>2. CASE Writes
  BY <1>2 DEF Writes, Write, FinishWrite
<1>3. CASE Copy
  <2>1. \/ pc' = "truncate" /\ archives' = Archive(stamp, current)
        \/ pc' = "idle"
    BY <1>3 DEF Copy
  <2>2. UNCHANGED stamp /\ UNCHANGED current
    BY <1>3 DEF Copy, rotation
  <2> QED
    BY <2>1, <2>2 DEF Archive
<1>4. CASE Truncate
  BY <1>4 DEF Truncate
<1>5. CASE RemovePlaceholder \/ Prune
  BY <1>5 DEF RemovePlaceholder, Prune
<1>6. CASE Tick \/ UNCHANGED vars
  BY <1>6 DEF Tick, vars, files, rotation
<1> QED
  BY <1>1, <1>2, <1>3, <1>4, <1>5, <1>6, NextSteps

SizesInv ==
  /\ Fits(current, long) /\ Small(placeholder.text)
  /\ \A t \in DOMAIN archives : Fits(archives[t], long)

\* A line goes into a file that has room for it, or into an empty one.
LEMMA AppendKeepsSize ==
  ASSUME TypeOK, RotationInv, SizesInv, Writes
  PROVE  Fits(current', long') /\ Small(placeholder'.text) /\ long \subseteq long'
<1>1. ProgressOK /\ PlaceholderOK /\ current \subseteq Text
  BY TypeParts
<1>2. PICK n \in 1..MaxLine :
        /\ written + n <= MaxText
        /\ long' = long \union {l \in {Line(n)} : n >= MaxSize}
        /\ \/ handle = "current" /\ UNCHANGED placeholder /\ current' = current \union Line(n)
           \/ /\ handle = "placeholder" /\ UNCHANGED current
              /\ placeholder' = [exists |-> TRUE, modified |-> now,
                                 text |-> placeholder.text \union Line(n)]
        /\ (pc = "idle" /\ ~Full(n)) \/ pc = "append"
  BY <1>1, AppendEffect
<1>3. placeholder.text \in SUBSET Text
  BY <1>1 DEF PlaceholderOK
<1>4. CASE handle = "current" /\ pc = "idle" /\ ~Full(n)
  <2>1. ~(Cardinality(current) + n >= MaxSize)
    BY <1>4 DEF Full, OpenText
  <2>2. current' = current \union Line(n) /\ UNCHANGED placeholder
    BY <1>2, <1>4
  <2> QED
    BY <1>1, <1>2, <2>1, <2>2, SmallAdd, SmallFits DEF SizesInv
<1>5. CASE handle = "current" /\ pc = "append"
  <2>1. current' = Line(n) /\ UNCHANGED placeholder
    BY <1>2, <1>5 DEF RotationInv
  <2>2. Line(n) \subseteq Text /\ Cardinality(Line(n)) = n
    BY <1>1, <1>2, LineIsNew
  <2>3. n < MaxSize \/ Line(n) \in long'
    BY <1>2, SizeAssumption, LineAssumption
  <2>4. Cardinality(Line(n)) <= FileLimit
    BY <2>2, FileLimitType, LineAssumption
  <2> QED
    BY <1>2, <2>1, <2>2, <2>3, <2>4 DEF SizesInv, Fits
<1>6. CASE handle = "placeholder"
  <2>1. ~(Cardinality(placeholder.text) + n >= MaxSize)
    BY <1>2, <1>6 DEF RotationInv, Full, OpenText
  <2>2. placeholder'.text = placeholder.text \union Line(n) /\ UNCHANGED current
    BY <1>2, <1>6
  <2> QED
    BY <1>1, <1>2, <1>3, <2>1, <2>2, SmallAdd DEF SizesInv, Fits
<1> QED
  BY <1>1, <1>2, <1>4, <1>5, <1>6 DEF ProgressOK

LEMMA SizesStep == TypeOK /\ RotationInv /\ SizesInv /\ [Next]_vars => SizesInv'
<1> SUFFICES ASSUME TypeOK, RotationInv, SizesInv, [Next]_vars PROVE SizesInv'
  OBVIOUS
<1>0. long \subseteq long'
  BY FilesChanged, AppendKeepsSize
<1>1. Fits(current', long')
  <2>1. CASE Truncate
    <3>1. current' = {} \/ UNCHANGED current
      BY <2>1 DEF Truncate
    <3> QED
      BY <1>0, <3>1, SmallEmpty, SmallFits DEF SizesInv, Fits
  <2>2. CASE UNCHANGED current
    BY <1>0, <2>2 DEF SizesInv, Fits
  <2> QED
    BY <2>1, <2>2, FilesChanged, AppendKeepsSize
<1>2. Small(placeholder'.text)
  <2>1. CASE Begins
    <3>1. UNCHANGED placeholder \/ placeholder'.text = {}
      BY <2>1 DEF Begins, BeginRotation
    <3> QED
      BY <3>1, SmallEmpty DEF SizesInv
  <2>2. CASE RemovePlaceholder \/ Prune
    <3>1. UNCHANGED placeholder \/ placeholder' = NoFile
      BY <2>2 DEF RemovePlaceholder, Prune, RemoveFiles
    <3>2. NoFile.text = {}
      BY DEF NoFile
    <3> QED
      BY <3>1, <3>2, SmallEmpty DEF SizesInv
  <2> QED
    BY <2>1, <2>2, FilesChanged, AppendKeepsSize DEF SizesInv
<1>3. ASSUME NEW t \in DOMAIN archives' PROVE Fits(archives'[t], long')
  <2>1. CASE UNCHANGED archives
    BY <1>0, <1>3, <2>1 DEF SizesInv, Fits
  <2>2. CASE Copy
    <3>1. \/ UNCHANGED archives \/ archives' = Archive(stamp, current) \/ archives' = Archive(stamp, {})
      BY <2>2 DEF Copy
    <3>2. archives'[t] \in {current, {}} \/ (t \in DOMAIN archives /\ archives'[t] = archives[t])
      BY <1>3, <3>1 DEF Archive
    <3> QED
      BY <1>0, <3>2, SmallEmpty, SmallFits DEF SizesInv, Fits
  <2>3. CASE Prune
    <3>1. PICK gone : archives' = [u \in DOMAIN archives \ gone |-> archives[u]]
      BY <2>3 DEF Prune, RemoveFiles
    <3> QED
      BY <1>0, <1>3, <3>1 DEF SizesInv, Fits
  <2> QED
    BY <2>1, <2>2, <2>3, FilesChanged
<1>4. SizesInv' <=> /\ Fits(current', long') /\ Small(placeholder'.text)
                    /\ \A t \in DOMAIN archives' : Fits(archives'[t], long')
  BY DEF SizesInv, Small, Fits
<1> QED
  BY <1>1, <1>2, <1>3, <1>4

LEMMA SizesHold == Spec => [](TypeOK /\ RotationInv /\ SizesInv)
<1>1. Init => RotationInv /\ SizesInv
  BY SmallEmpty, SmallFits DEF Init, RotationInv, SizesInv, NoFile
<1>2. TypeOK /\ RotationInv /\ SizesInv /\ [Next]_vars => RotationInv' /\ SizesInv'
  BY RotationStep, SizesStep
<1> QED
  BY <1>1, <1>2, TypeCorrect, PTL DEF Spec

(* No file outgrows the limit, for any limit and lines of any length, but    *)
(* for one that holds a single line of at least that length: neither after   *)
(* stops and failures, nor the placeholder, nor an archive.                  *)
THEOREM Sizes == Spec => []SizeBound
<1>1. SizesInv => SizeBound
  BY DEF SizesInv, Small, Fits, SizeBound
<1> QED
  BY <1>1, SizesHold, PTL

-----------------------------------------------------------------------------
\* Losses.

Lost == (1..written) \ (Retained \union pruned)

\* What n failures may cost.
Budget(n) == n * FileLimit

(* A failure is paid for when it happens but its text is lost later: what    *)
(* goes to the placeholder it leaves open, which a later rotation removes.*)
Owed == placeholder.text # {} \/ (handle = "placeholder" /\ pc = "idle")

Debt == IF Owed THEN FileLimit ELSE 0

LossInv == Cardinality(Lost) + Debt <= Budget(faults)

LEMMA BudgetGrows ==
  ASSUME NEW n \in Nat
  PROVE  /\ Budget(n) \in Nat
         /\ Budget(n + 1) = Budget(n) + FileLimit
         /\ Budget(n + 2) = Budget(n) + FileLimit + FileLimit
BY FileLimitType DEF Budget

LEMMA LostFinite ==
  ASSUME ProgressOK
  PROVE  IsFiniteSet(Lost) /\ Cardinality(Lost) \in Nat
<1>1. IsFiniteSet(1..written)
  BY BoundsAssumption, FS_Interval DEF ProgressOK
<1>2. Lost \in SUBSET (1..written)
  BY DEF Lost
<1>3. IsFiniteSet(Lost)
  BY <1>1, <1>2, FS_Subset
<1> QED
  BY <1>3, FS_CardinalityType

\* A step that loses nothing.
LEMMA NothingLost ==
  ASSUME ProgressOK, Lost' \subseteq Lost
  PROVE  Cardinality(Lost') <= Cardinality(Lost)
BY LostFinite, FS_Subset

\* A step that loses no more than one file.
LEMMA FileLost ==
  ASSUME ProgressOK, NEW text \in SUBSET Text, Cardinality(text) <= FileLimit,
         Lost' \subseteq Lost \union text
  PROVE  Cardinality(Lost') <= Cardinality(Lost) + FileLimit
<1>1. IsFiniteSet(text) /\ Cardinality(text) \in Nat
  BY TextFinite
<1>2. Cardinality(Lost') <= Cardinality(Lost) + Cardinality(text)
  BY <1>1, LostFinite, CardinalityOfCovered
<1>3. IsFiniteSet(Lost \union text)
  BY <1>1, LostFinite, FS_Union
<1>4. IsFiniteSet(Lost')
  BY <1>3, FS_Subset
<1>5. Cardinality(Lost') \in Nat
  BY <1>4, FS_CardinalityType
<1> QED
  BY <1>1, <1>2, <1>5, LostFinite, FileLimitType

\* What each step that moves text may lose.
LEMMA AppendLoses ==
  ASSUME ProgressOK, Writes PROVE Lost' \subseteq Lost
<1>1. PICK n \in 1..MaxLine :
        /\ written + n <= MaxText /\ written' = written + n
        /\ UNCHANGED archives /\ UNCHANGED pruned
        /\ current \subseteq current' /\ placeholder.text \subseteq placeholder'.text
        /\ Line(n) \subseteq current' \union placeholder'.text
  BY AppendEffect
<1>2. 1..written' = (1..written) \union Line(n)
  BY <1>1, LineIsNew
<1> QED
  BY <1>1, <1>2 DEF Lost, Retained, Archived

LEMMA CopyLoses ==
  ASSUME ArchivesOK, Copy
  PROVE  /\ stamp \notin DOMAIN archives => Lost' \subseteq Lost
         /\ stamp \in DOMAIN archives => Lost' \subseteq Lost \union archives[stamp]
<1>1. UNCHANGED <<current, placeholder, written, pruned>>
  BY DEF Copy, logged
<1>2. UNCHANGED archives \/ \E text : archives' = Archive(stamp, text)
  BY DEF Copy
<1>3. ASSUME NEW t \in DOMAIN archives, t # stamp
      PROVE  t \in DOMAIN archives' /\ archives'[t] = archives[t]
  BY <1>2, <1>3 DEF Archive
<1>4. ASSUME NEW n \in Archived, n \notin Archived'
      PROVE  stamp \in DOMAIN archives /\ n \in archives[stamp]
  <2>1. PICK t \in DOMAIN archives : n \in archives[t]
    BY <1>4 DEF Archived
  <2>2. t # stamp => n \in Archived'
    BY <1>3, <2>1 DEF Archived
  <2> QED
    BY <1>4, <2>1, <2>2
<1> QED
  BY <1>1, <1>4 DEF Lost, Retained

LEMMA TruncateLoses ==
  ASSUME RotationInv, Truncate PROVE Lost' \subseteq Lost
<1>1. UNCHANGED <<placeholder, archives, written, pruned>>
  BY DEF Truncate, logged
<1>2. current \subseteq Archived
  BY DEF Truncate, RotationInv, Archived
<1>3. Archived' = Archived
  BY <1>1 DEF Archived
<1> QED
  BY <1>1, <1>2, <1>3 DEF Lost, Retained

LEMMA RemoveLoses ==
  ASSUME RemovePlaceholder
  PROVE  \/ UNCHANGED placeholder /\ Lost' \subseteq Lost
         \/ placeholder'.text = {} /\ Lost' \subseteq Lost \union placeholder.text
<1>1. UNCHANGED <<current, archives, written, pruned>> /\ (UNCHANGED placeholder \/ placeholder' = NoFile)
  BY DEF RemovePlaceholder, logged
<1>2. NoFile.text = {}
  BY DEF NoFile
<1>3. Archived' = Archived
  BY <1>1 DEF Archived
<1> QED
  BY <1>1, <1>2, <1>3 DEF Lost, Retained

LEMMA PruneLoses ==
  ASSUME ArchivesOK, Prune PROVE Lost' \subseteq Lost /\ placeholder'.text \subseteq placeholder.text
<1>1. UNCHANGED <<current, written>>
  BY DEF Prune, logged
<1>2. PICK gone \in SUBSET Names : RemoveFiles(gone)
  BY DEF Prune, Surplus, Aged
<1>3. ASSUME NEW n \in Archived, n \notin Archived' PROVE n \in pruned'
  <2>1. PICK t \in DOMAIN archives : n \in archives[t]
    BY <1>3 DEF Archived
  <2>2. t \notin gone => n \in Archived'
    BY <1>2, <2>1 DEF RemoveFiles, Archived
  <2>3. t \in gone
    BY <1>3, <2>2
  <2>4. TextOf(t) = archives[t]
    BY <2>1 DEF TextOf, ArchivesOK, Times
  <2>5. pruned' = pruned \union UNION {TextOf(u) : u \in gone}
    BY <1>2 DEF RemoveFiles
  <2> QED
    BY <2>1, <2>3, <2>4, <2>5
<1>4. \/ UNCHANGED placeholder
      \/ placeholder'.text = {} /\ placeholder.text \subseteq pruned'
  <2>1. CASE 0 \in gone
    <3>1. placeholder' = NoFile /\ TextOf(0) = placeholder.text
      BY <1>2, <2>1 DEF RemoveFiles, TextOf
    <3>2. pruned' = pruned \union UNION {TextOf(u) : u \in gone}
      BY <1>2 DEF RemoveFiles
    <3> QED
      BY <2>1, <3>1, <3>2 DEF NoFile
  <2>2. CASE 0 \notin gone
    BY <1>2, <2>2 DEF RemoveFiles
  <2> QED
    BY <2>1, <2>2
<1>5. pruned \subseteq pruned'
  BY <1>2 DEF RemoveFiles
<1>6. Lost' \subseteq Lost
  BY <1>1, <1>3, <1>4, <1>5 DEF Lost, Retained
<1> QED
  BY <1>4, <1>6

\* A step after which no more is owed than before and nothing more is lost.
LEMMA LossKept ==
  ASSUME ProgressOK, LossInv, Lost' \subseteq Lost, Owed' => Owed, faults' \in {faults, faults + 1}
  PROVE  LossInv'
<1>1. Cardinality(Lost') <= Cardinality(Lost) /\ Cardinality(Lost) \in Nat
  BY NothingLost, LostFinite
<1>2. Cardinality(Lost') \in Nat
  BY LostFinite, FS_Subset, FS_CardinalityType
<1>3. Debt \in Nat /\ Debt' \in Nat /\ Debt' <= Debt
  BY FileLimitType DEF Debt
<1>4. Budget(faults)' >= Budget(faults) /\ Budget(faults) \in Nat /\ Budget(faults)' \in Nat
  <2>1. faults \in Nat
    BY BoundsAssumption DEF ProgressOK
  <2>2. Budget(faults)' = Budget(faults')
    BY DEF Budget
  <2> QED
    BY <2>1, <2>2, BudgetGrows, FileLimitType
<1> QED
  BY <1>1, <1>2, <1>3, <1>4 DEF LossInv

(* A failure pays for the text that is lost with it and for what it sends    *)
(* to the placeholder; a collision of archives is one of its own.      *)
LEMMA LossCopy == TypeOK /\ RotationInv /\ SizesInv /\ LossInv /\ Copy => LossInv'
<1> SUFFICES ASSUME TypeOK, SizesInv, LossInv, Copy PROVE LossInv'
  OBVIOUS
<1>1. ProgressOK /\ ArchivesOK
  BY TypeParts
<1>2. UNCHANGED placeholder
  BY DEF Copy
<1>3. /\ Cardinality(Lost) \in Nat /\ Cardinality(Lost) + Debt <= Budget(faults)
      /\ Debt \in {0, FileLimit} /\ Debt' \in {0, FileLimit} /\ FileLimit \in Nat
  BY <1>1, LostFinite, FileLimitType DEF LossInv, Debt
<1>4. faults \in Nat /\ faults' \in Nat
  BY <1>1, TypeParts, ProgressStep, BoundsAssumption DEF ProgressOK, Next, Copy, Faults, Fault, Collision
<1>5. Cardinality(Lost') \in Nat
  <2>1. ProgressOK'
    BY <1>1, ProgressStep DEF Next
  <2>2. IsFiniteSet(1..written')
    BY <2>1, BoundsAssumption, FS_Interval DEF ProgressOK
  <2>3. Lost' \in SUBSET (1..written')
    BY DEF Lost
  <2>4. IsFiniteSet(Lost')
    BY <2>2, <2>3, FS_Subset
  <2> QED
    BY <2>4, FS_CardinalityType
<1>6. /\ Budget(faults)' = Budget(faults') /\ Budget(faults) \in Nat
      /\ Budget(faults + 1) = Budget(faults) + FileLimit
      /\ Budget(faults + 2) = Budget(faults) + FileLimit + FileLimit
  BY <1>4, BudgetGrows DEF Budget
<1>7. CASE stamp \in DOMAIN archives
  <2>1. archives[stamp] \in SUBSET Text /\ Cardinality(archives[stamp]) <= FileLimit
    BY <1>7 DEF SizesInv, Fits
  <2>2. Cardinality(Lost') <= Cardinality(Lost) + FileLimit
    BY <1>1, <1>7, <2>1, CopyLoses, FileLost
  <2>3. \/ faults' = faults + 1 /\ pc' = "truncate"
        \/ faults' = faults + 2 /\ archives' = Archive(stamp, {})
        \/ faults' = faults + 1 /\ UNCHANGED archives
    BY <1>4, <1>7 DEF Copy, Faults, Fault, Collision
  <2>4. CASE faults' = faults + 1 /\ pc' = "truncate"
    <3>1. Debt' <= Debt
      BY <1>2, <1>3, <2>4, FileLimitType DEF Debt, Owed
    <3> QED
      BY <1>3, <1>5, <1>6, <2>2, <2>4, <3>1 DEF LossInv
  <2>5. CASE faults' = faults + 2
    BY <1>3, <1>5, <1>6, <2>2, <2>5 DEF LossInv
  <2>6. CASE faults' = faults + 1 /\ UNCHANGED archives
    <3>1. Lost' = Lost
      BY <2>6 DEF Copy, Lost, Retained, Archived, logged
    <3> QED
      BY <1>3, <1>5, <1>6, <2>6, <3>1 DEF LossInv
  <2> QED
    BY <2>3, <2>4, <2>5, <2>6
<1>8. CASE stamp \notin DOMAIN archives
  <2>1. Cardinality(Lost') <= Cardinality(Lost)
    BY <1>1, <1>8, CopyLoses, NothingLost
  <2>2. \/ faults' = faults /\ pc' = "truncate"
        \/ faults' = faults + 1
    BY <1>4, <1>8 DEF Copy, Faults, Fault, Collision
  <2>3. CASE faults' = faults /\ pc' = "truncate"
    <3>1. Debt' <= Debt
      BY <1>2, <1>3, <2>3, FileLimitType DEF Debt, Owed
    <3> QED
      BY <1>3, <1>5, <1>6, <2>1, <2>3, <3>1 DEF LossInv
  <2>4. CASE faults' = faults + 1
    BY <1>3, <1>5, <1>6, <2>1, <2>4 DEF LossInv
  <2> QED
    BY <2>2, <2>3, <2>4
<1> QED
  BY <1>7, <1>8

\* A failure after which more may be owed, but that loses nothing itself.
LEMMA LossOnCredit ==
  ASSUME ProgressOK, LossInv, Lost' \subseteq Lost, faults' = faults + 1
  PROVE  LossInv'
<1>1. Cardinality(Lost') <= Cardinality(Lost) /\ Cardinality(Lost) \in Nat
  BY NothingLost, LostFinite
<1>2. Cardinality(Lost') \in Nat
  BY LostFinite, FS_Subset, FS_CardinalityType
<1>3. Debt \in {0, FileLimit} /\ Debt' \in {0, FileLimit} /\ FileLimit \in Nat
  BY FileLimitType DEF Debt
<1>4. faults \in Nat /\ Budget(faults)' = Budget(faults + 1)
  BY BoundsAssumption DEF ProgressOK, Budget
<1>5. Budget(faults) \in Nat /\ Budget(faults + 1) = Budget(faults) + FileLimit
  BY <1>4, BudgetGrows
<1> QED
  BY <1>1, <1>2, <1>3, <1>4, <1>5 DEF LossInv

\* The text of a placeholder that is removed has been paid for.
LEMMA LossRemove == TypeOK /\ RotationInv /\ SizesInv /\ LossInv /\ RemovePlaceholder => LossInv'
<1> SUFFICES ASSUME TypeOK, SizesInv, RotationInv, LossInv, RemovePlaceholder PROVE LossInv'
  OBVIOUS
<1>1. ProgressOK
  BY TypeParts
<1>2. pc' = "prune" /\ faults' \in {faults, faults + 1}
  BY DEF RemovePlaceholder, Fault, Faults
<1>3. CASE UNCHANGED placeholder /\ Lost' \subseteq Lost
  BY <1>1, <1>2, <1>3, LossKept DEF Owed
<1>4. CASE placeholder.text = {} /\ placeholder'.text = {} /\ Lost' \subseteq Lost \union placeholder.text
  BY <1>1, <1>2, <1>4, LossKept DEF Owed
<1>5. CASE /\ placeholder.text # {} /\ placeholder'.text = {}
           /\ Lost' \subseteq Lost \union placeholder.text
  <2>0. placeholder.text \in SUBSET Text /\ Cardinality(placeholder.text) <= FileLimit
    BY SizeAssumption, FileLimitType, TextFinite DEF SizesInv, Small
  <2>1. Cardinality(Lost') <= Cardinality(Lost) + FileLimit /\ Cardinality(Lost) \in Nat
    BY <1>1, <1>5, <2>0, FileLost, LostFinite
  <2>2. Debt = FileLimit /\ Debt' = 0 /\ FileLimit \in Nat
    BY <1>2, <1>5, FileLimitType DEF Debt, Owed
  <2>3. Budget(faults)' >= Budget(faults) /\ Budget(faults) \in Nat /\ Budget(faults)' \in Nat
    <3>1. faults \in Nat
      BY <1>1, BoundsAssumption DEF ProgressOK
    <3>2. Budget(faults)' = Budget(faults')
      BY DEF Budget
    <3> QED
      BY <1>2, <3>1, <3>2, BudgetGrows, FileLimitType
  <2>4. Cardinality(Lost') \in Nat
    <3>1. IsFiniteSet(Lost \union placeholder.text)
      BY <1>1, LostFinite, TextFinite, FS_Union DEF SizesInv, Small
    <3>2. IsFiniteSet(Lost')
      BY <1>5, <3>1, FS_Subset
    <3> QED
      BY <3>2, FS_CardinalityType
  <2> QED
    BY <2>1, <2>2, <2>3, <2>4 DEF LossInv
<1> QED
  BY <1>3, <1>4, <1>5, RemoveLoses

LEMMA LossStep == TypeOK /\ RotationInv /\ SizesInv /\ LossInv /\ [Next]_vars => LossInv'
<1> SUFFICES ASSUME TypeOK, RotationInv, SizesInv, LossInv, [Next]_vars PROVE LossInv'
  OBVIOUS
<1>1. ProgressOK /\ ArchivesOK
  BY TypeParts
<1>2. faults \in Nat
  BY <1>1, BoundsAssumption DEF ProgressOK
<1>3. CASE Start \/ Crash \/ Tick \/ UNCHANGED vars
  <2>1. UNCHANGED <<current, placeholder, archives, written, pruned, faults>>
    BY <1>3 DEF Start, Crash, Tick, vars, files, logged, history
  <2>2. Lost' = Lost
    BY <2>1 DEF Lost, Retained, Archived
  <2>3. Owed' => Owed
    <3>1. (handle' = "placeholder" /\ pc' = "idle") => (handle = "placeholder" /\ pc = "idle")
      BY <1>3 DEF Start, Crash, Tick, vars
    <3> QED
      BY <2>1, <3>1 DEF Owed
  <2> QED
    BY <1>1, <2>1, <2>2, <2>3, LossKept
<1>4. CASE Begins
  <2>1. UNCHANGED <<current, archives, written, pruned, faults>> /\ pc' = "copy"
    BY <1>4 DEF Begins, BeginRotation, logged, history
  <2>2. placeholder'.text = placeholder.text
    BY <1>4, TypeParts DEF Begins, BeginRotation, PlaceholderOK, NoFile
  <2>3. Lost' = Lost
    BY <2>1, <2>2 DEF Lost, Retained, Archived
  <2> QED
    BY <1>1, <2>1, <2>2, <2>3, LossKept DEF Owed
<1>5. CASE Writes
  <2>1. PICK n \in 1..MaxLine :
          /\ UNCHANGED handle /\ UNCHANGED faults /\ pc' = "idle"
          /\ handle = "current" => UNCHANGED placeholder
          /\ pc \in {"idle", "append"}
    BY <1>1, <1>5, AppendEffect
  <2>2. Owed' => Owed
    <3>1. CASE handle = "current"
      BY <2>1, <3>1 DEF Owed
    <3>2. CASE handle # "current"
      BY <1>1, <2>1, <3>2 DEF RotationInv, ProgressOK, Owed
    <3> QED
      BY <3>1, <3>2
  <2> QED
    BY <1>1, <1>5, <2>1, <2>2, AppendLoses, LossKept
<1>6. CASE Copy
  BY <1>6, LossCopy
<1>7. CASE Truncate
  <2>1. Lost' \subseteq Lost
    BY <1>7, TruncateLoses
  <2>2. \/ faults' = faults + 1
        \/ UNCHANGED faults /\ UNCHANGED placeholder /\ handle' = "current"
    BY <1>7 DEF Truncate, Fault, Faults
  <2>3. CASE faults' = faults + 1
    BY <1>1, <2>1, <2>3, LossOnCredit
  <2>4. CASE UNCHANGED faults /\ UNCHANGED placeholder /\ handle' = "current"
    BY <1>1, <2>1, <2>4, LossKept DEF Owed
  <2> QED
    BY <2>2, <2>3, <2>4
<1>8. CASE RemovePlaceholder
  BY <1>8, LossRemove
<1>9. CASE Prune
  <2>1. faults' \in {faults, faults + 1}
    <3>1. UNCHANGED faults \/ Fault
      BY <1>9 DEF Prune
    <3> QED
      BY <3>1 DEF Fault, Faults
  <2>2. handle' = "current"
    BY <1>9 DEF Prune, RotationInv
  <2>3. Lost' \subseteq Lost /\ placeholder'.text \subseteq placeholder.text
    BY <1>1, <1>9, PruneLoses
  <2>4. Owed' => Owed
    BY <2>2, <2>3 DEF Owed
  <2> QED
    BY <1>1, <2>1, <2>3, <2>4, LossKept
<1> QED
  BY <1>3, <1>4, <1>5, <1>6, <1>7, <1>8, <1>9, NextSteps

(* Stops lose no text, and every failed step or collision of archives at     *)
(* most one file of it, for any number of each in any order.                 *)
THEOREM Losses == Spec => []LossBounded
<1>1. Init => LossInv
  <2> SUFFICES ASSUME Init PROVE LossInv
    OBVIOUS
  <2>1. Lost = {}
    BY DEF Init, Lost
  <2>2. ~Owed
    BY DEF Init, Owed, NoFile
  <2>3. Budget(faults) = 0
    BY FileLimitType DEF Init, Budget
  <2> QED
    BY <2>1, <2>2, <2>3, FS_EmptySet DEF LossInv, Debt
<1>2. TypeOK /\ RotationInv /\ SizesInv /\ LossInv /\ [Next]_vars => LossInv'
  BY LossStep
<1>3. TypeOK /\ LossInv => LossBounded
  <2> SUFFICES ASSUME TypeOK, LossInv PROVE LossBounded
    OBVIOUS
  <2>1. ProgressOK /\ Debt >= 0 /\ Debt \in Nat
    BY TypeParts, FileLimitType DEF Debt
  <2>2. faults \in Nat
    BY <2>1, BoundsAssumption DEF ProgressOK
  <2>3. Cardinality(Lost) <= Budget(faults)
    BY <2>1, <2>2, LostFinite, BudgetGrows DEF LossInv
  <2> QED
    BY <2>3 DEF LossBounded, Lost, Budget
<1> QED
  BY <1>1, <1>2, <1>3, SizesHold, PTL DEF Spec

-----------------------------------------------------------------------------
\* Retention.

\* A rotation has added its archive, and cleanup_archives has yet to run.
Pending == IF pc \in {"truncate", "remove", "prune"} THEN 1 ELSE 0

(* An archive beyond the limit belongs to the rotation under way, or to one   *)
(* that a failure or a stop kept from cleaning up.                           *)
CountInv == Cardinality(DOMAIN archives) <= MaxFiles + Pending + faults + crashes

LEMMA ArchivesFinite ==
  ASSUME NEW S \in SUBSET Times
  PROVE  IsFiniteSet(S) /\ Cardinality(S) \in Nat
<1>1. IsFiniteSet(Times)
  BY BoundsAssumption, FS_Interval DEF Times
<1>2. IsFiniteSet(S)
  BY <1>1, FS_Subset
<1> QED
  BY <1>2, FS_CardinalityType

\* A removal of files removes archives only, and all of those it names.
LEMMA RemovalShrinks ==
  ASSUME ArchivesOK, NEW gone, RemoveFiles(gone)
  PROVE  /\ DOMAIN archives' = DOMAIN archives \ gone
         /\ Cardinality(DOMAIN archives') <= Cardinality(DOMAIN archives)
         /\ Cardinality(DOMAIN archives') \in Nat
<1>1. DOMAIN archives' = DOMAIN archives \ gone
  BY DEF RemoveFiles
<1>2. DOMAIN archives' \in SUBSET DOMAIN archives /\ DOMAIN archives' \in SUBSET Times
  BY <1>1 DEF ArchivesOK
<1> QED
  BY <1>1, <1>2, ArchivesFinite, FS_Subset DEF ArchivesOK

\* What cleanup_archives leaves when every removal succeeds.
LEMMA CleanupLimits ==
  ASSUME ArchivesOK, NEW out \in SUBSET Names, Surplus(out), RemoveFiles(Aged \union out)
  PROVE  Cardinality(DOMAIN archives') <= MaxFiles
<1> DEFINE kept == (Names \ Aged) \ out
<1>1. IsFiniteSet(Names)
  <2>1. IsFiniteSet({n \in {0} : placeholder.exists})
    BY FS_Singleton, FS_Subset
  <2> QED
    BY <2>1, ArchivesFinite, FS_Union DEF Names, ArchivesOK
<1>2. IsFiniteSet(Names \ Aged) /\ IsFiniteSet(kept)
  BY <1>1, FS_Subset
<1>3. Cardinality(kept) <= MaxFiles /\ Cardinality(kept) \in Nat
  <2>1. CASE Cardinality(Names \ Aged) <= MaxFiles
    <3>1. kept = Names \ Aged
      BY <2>1 DEF Surplus
    <3> QED
      BY <1>2, <2>1, <3>1, FS_CardinalityType
  <2>2. CASE Cardinality(Names \ Aged) > MaxFiles
    BY <1>2, <2>2, FS_CardinalityType, RetentionAssumption DEF Surplus
  <2> QED
    BY <1>2, <2>1, <2>2, FS_CardinalityType, RetentionAssumption
<1>4. DOMAIN archives' \in SUBSET kept
  BY DEF RemoveFiles, Names
<1>5. Cardinality(DOMAIN archives') <= Cardinality(kept) /\ Cardinality(DOMAIN archives') \in Nat
  BY <1>2, <1>4, FS_Subset, FS_CardinalityType
<1> QED
  BY <1>3, <1>5, RetentionAssumption

\* One archive more is accounted for by its rotation or by a failure.
LEMMA OneMore ==
  ASSUME NEW n \in Nat, NEW c \in Nat, NEW k \in Nat,
         NEW p \in Nat, NEW f \in Nat, NEW g \in Nat,
         n <= MaxFiles + f + k, c <= n + 1, p + g >= f + 1
  PROVE  c <= MaxFiles + p + g + k
BY RetentionAssumption

LEMMA CountStep == TypeOK /\ CountInv /\ [Next]_vars => CountInv'
<1> SUFFICES ASSUME TypeOK, CountInv, [Next]_vars PROVE CountInv'
  OBVIOUS
<1>1. ProgressOK /\ ArchivesOK /\ faults \in Nat /\ crashes \in Nat
  BY TypeParts, BoundsAssumption DEF ProgressOK
<1>2. Cardinality(DOMAIN archives) \in Nat /\ Pending \in {0, 1} /\ Pending' \in {0, 1}
  BY <1>1, ArchivesFinite DEF ArchivesOK, Pending
<1>3. CASE Start \/ Writes \/ Begins \/ Tick \/ UNCHANGED vars
  <2>1. UNCHANGED <<archives, faults, crashes>>
    BY <1>3 DEF Start, Writes, Write, Begins, BeginRotation, FinishWrite, Tick, vars, files, history
  <2>2. Pending' = Pending
    BY <1>3 DEF Start, Writes, Write, Begins, BeginRotation, FinishWrite, Tick, vars, Pending
  <2> QED
    BY <2>1, <2>2 DEF CountInv
<1>4. CASE Crash
  <2>1. UNCHANGED <<archives, faults>> /\ crashes' = crashes + 1
    BY <1>4 DEF Crash, files
  <2> QED
    BY <1>1, <1>2, <2>1, RetentionAssumption DEF CountInv
<1>5. CASE Copy
  <2>1. UNCHANGED crashes /\ Pending = 0
    BY <1>5 DEF Copy, Pending
  <2>2. ASSUME NEW text, archives' = Archive(stamp, text)
        PROVE  /\ Cardinality(DOMAIN archives') <= Cardinality(DOMAIN archives) + 1
               /\ Cardinality(DOMAIN archives') \in Nat
    <3>1. DOMAIN archives' = DOMAIN archives \union {stamp}
      BY <2>2 DEF Archive
    <3> QED
      BY <1>1, <1>2, <3>1, ArchivesFinite, FS_AddElement, FS_CardinalityType DEF ArchivesOK
  <2>3. \/ (\E text : archives' = Archive(stamp, text)) /\ Pending' = 1 /\ faults' \in {faults, faults + 1}
        \/ (\E text : archives' = Archive(stamp, text)) /\ faults' \in {faults + 1, faults + 2}
        \/ UNCHANGED archives /\ faults' = faults + 1
    BY <1>1, <1>5 DEF Copy, Pending, Fault, Faults, Collision
  <2>4. CASE UNCHANGED archives
    BY <1>1, <1>2, <2>1, <2>3, <2>4, RetentionAssumption DEF CountInv
  <2>5. CASE \E text : archives' = Archive(stamp, text)
    <3>1. /\ Cardinality(DOMAIN archives') <= Cardinality(DOMAIN archives) + 1
          /\ Cardinality(DOMAIN archives') \in Nat
      BY <2>2, <2>5
    <3>2. Pending' + faults' >= faults + 1 /\ faults' \in Nat /\ Pending' \in Nat
      BY <1>1, <1>2, <2>3
    <3>3. Cardinality(DOMAIN archives) <= MaxFiles + faults + crashes
      BY <1>1, <1>2, <2>1, RetentionAssumption DEF CountInv
    <3>4. Cardinality(DOMAIN archives') <= MaxFiles + Pending' + faults' + crashes
      BY <1>1, <1>2, <3>1, <3>2, <3>3, OneMore
    <3> QED
      BY <2>1, <3>4 DEF CountInv
  <2> QED
    BY <2>3, <2>4, <2>5
<1>6. CASE Truncate \/ RemovePlaceholder
  <2>1. UNCHANGED <<archives, crashes>> /\ Pending = 1
    BY <1>6 DEF Truncate, RemovePlaceholder, Pending
  <2>2. \/ Pending' = 1 /\ UNCHANGED faults
        \/ faults' = faults + 1
    BY <1>6 DEF Truncate, RemovePlaceholder, Pending, Fault, Faults
  <2> QED
    BY <1>1, <1>2, <2>1, <2>2, RetentionAssumption DEF CountInv
<1>7. CASE Prune
  <2>1. UNCHANGED crashes /\ Pending = 1 /\ Pending' = 0
    BY <1>7 DEF Prune, Pending
  <2>2. CASE \E out \in SUBSET Names : Surplus(out) /\ RemoveFiles(Aged \union out) /\ UNCHANGED faults
    <3>1. PICK out \in SUBSET Names : Surplus(out) /\ RemoveFiles(Aged \union out)
      BY <2>2
    <3>2. Cardinality(DOMAIN archives') <= MaxFiles /\ Cardinality(DOMAIN archives') \in Nat
      BY <1>1, <3>1, CleanupLimits, RemovalShrinks
    <3> QED
      BY <1>1, <2>1, <2>2, <3>2, RetentionAssumption DEF CountInv
  <2>3. CASE Fault /\ \E gone : RemoveFiles(gone)
    <3>1. PICK gone : RemoveFiles(gone)
      BY <2>3
    <3>2. faults' = faults + 1
      BY <2>3 DEF Fault, Faults
    <3>3. /\ Cardinality(DOMAIN archives') <= Cardinality(DOMAIN archives)
          /\ Cardinality(DOMAIN archives') \in Nat
      BY <1>1, <3>1, RemovalShrinks
    <3>4. Cardinality(DOMAIN archives) <= MaxFiles + 1 + faults + crashes
      BY <2>1 DEF CountInv
    <3>5. Cardinality(DOMAIN archives') <= MaxFiles + 0 + (faults + 1) + crashes
      BY <1>1, <1>2, <3>3, <3>4, RetentionAssumption
    <3> QED
      BY <2>1, <3>2, <3>5 DEF CountInv
  <2> QED
    BY <1>7, <2>2, <2>3 DEF Prune
<1> QED
  BY <1>3, <1>4, <1>5, <1>6, <1>7, NextSteps

(* However often rotations fail or the service stops in them, each leaves at *)
(* most one archive too many, and a rotation that runs to its end removes    *)
(* them all.                                                                 *)
THEOREM ArchivesStayBounded == Spec => []ArchivesBounded
<1>1. Init => CountInv
  BY FS_EmptySet, RetentionAssumption DEF Init, CountInv, Pending
<1>2. TypeOK /\ CountInv /\ [Next]_vars => CountInv'
  BY CountStep
<1>3. TypeOK /\ CountInv => ArchivesBounded
  <2> SUFFICES ASSUME TypeOK, CountInv PROVE ArchivesBounded
    OBVIOUS
  <2>1. Cardinality(DOMAIN archives) \in Nat /\ faults \in Nat /\ crashes \in Nat /\ Pending \in {0, 1}
    BY TypeParts, ArchivesFinite, BoundsAssumption DEF ArchivesOK, ProgressOK, Pending
  <2> QED
    BY <2>1, RetentionAssumption DEF CountInv, ArchivesBounded
<1> QED
  BY <1>1, <1>2, <1>3, TypeCorrect, PTL DEF Spec

-----------------------------------------------------------------------------
\* The order in which files are pruned.

\* What a file holds was written.
Numbered(text) == text \subseteq 1..written

NumberedInv ==
  /\ Numbered(current) /\ Numbered(placeholder.text) /\ Numbered(pruned)
  /\ \A t \in DOMAIN archives : Numbered(archives[t])

LEMMA NumberedStep == TypeOK /\ NumberedInv /\ [Next]_vars => NumberedInv'
<1> SUFFICES ASSUME TypeOK, NumberedInv, [Next]_vars PROVE NumberedInv'
  OBVIOUS
<1>1. ProgressOK /\ PlaceholderOK /\ ArchivesOK
  BY TypeParts
<1>2. 1..written \subseteq 1..written'
  <2>1. CASE Writes
    BY <1>1, <2>1, AppendEffect, LineIsNew
  <2> QED
    BY <2>1, FilesChanged
<1>3. CASE Writes
  <2>1. PICK n \in 1..MaxLine :
          /\ written + n <= MaxText /\ written' = written + n /\ UNCHANGED <<archives, pruned>>
          /\ current' \subseteq current \union Line(n)
          /\ placeholder'.text \subseteq placeholder.text \union Line(n)
    BY <1>1, <1>3, AppendEffect
  <2>2. Line(n) \subseteq 1..written'
    BY <1>1, <2>1, LineIsNew
  <2> QED
    BY <1>2, <2>1, <2>2 DEF NumberedInv, Numbered
<1>4. CASE Copy
  <2>1. UNCHANGED <<current, placeholder, written, pruned>>
    BY <1>4 DEF Copy, logged
  <2>2. UNCHANGED archives \/ \E text \in {current, {}} : archives' = Archive(stamp, text)
    BY <1>4 DEF Copy
  <2>3. ASSUME NEW t \in DOMAIN archives' PROVE Numbered(archives'[t])
    BY <2>2, <2>3 DEF Archive, NumberedInv, Numbered
  <2> QED
    BY <2>1, <2>3 DEF NumberedInv, Numbered
<1>5. CASE Prune
  <2>1. PICK gone \in SUBSET Names : RemoveFiles(gone)
    BY <1>5 DEF Prune, Surplus, Aged
  <2>2. UNCHANGED <<current, written>>
    BY <1>5 DEF Prune, logged
  <2>3. \A n \in gone : Numbered(TextOf(n))
    BY DEF Names, TextOf, NumberedInv
  <2>4. Numbered(pruned')
    BY <2>1, <2>3 DEF RemoveFiles, NumberedInv, Numbered
  <2>5. \A t \in DOMAIN archives' : Numbered(archives'[t])
    BY <2>1 DEF RemoveFiles, NumberedInv
  <2>6. Numbered(placeholder'.text)
    BY <2>1 DEF RemoveFiles, NumberedInv, Numbered, NoFile
  <2> QED
    BY <2>2, <2>4, <2>5, <2>6 DEF NumberedInv, Numbered
<1>6. CASE Begins \/ RemovePlaceholder
  <2>1. UNCHANGED <<current, archives, written, pruned>>
    BY <1>6 DEF Begins, BeginRotation, RemovePlaceholder, history, logged
  <2>2. UNCHANGED placeholder \/ placeholder'.text = {}
    BY <1>6 DEF Begins, BeginRotation, RemovePlaceholder, NoFile
  <2> QED
    BY <2>1, <2>2 DEF NumberedInv, Numbered
<1>7. CASE Truncate
  <2>1. UNCHANGED <<placeholder, archives, written, pruned>> /\ current' \in {current, {}}
    BY <1>7 DEF Truncate, logged
  <2> QED
    BY <2>1 DEF NumberedInv, Numbered
<1>8. CASE Start \/ Crash \/ Tick \/ UNCHANGED vars
  <2>1. UNCHANGED <<current, placeholder, archives, written, pruned>>
    BY <1>8 DEF Start, Crash, Tick, vars, files, history, logged
  <2> QED
    BY <2>1 DEF NumberedInv, Numbered
<1> QED
  BY <1>3, <1>4, <1>5, <1>6, <1>7, <1>8, NextSteps

\* All of one file was written before all of the other.
Before(older, newer) == \A p \in older, r \in newer : p < r

\* A rotation that has not failed leaves nothing in the placeholder.
CleanInv ==
  /\ placeholder.text = {}
  /\ pc = "idle" => handle = "current"

(* The archives, in the order of their times, hold the text in order.  Only   *)
(* a stop between the copy and the truncation gives two files the same text: *)
(* the current file then begins with what was copied, shorter lines may      *)
(* follow, and the next rotation copies all of it.                           *)
SortedInv ==
  /\ \A t \in DOMAIN archives : t <= stamp
  /\ \A t, u \in DOMAIN archives :
       t < u => archives[t] \subseteq archives[u] \/ Before(archives[t], archives[u])
  /\ \A t \in DOMAIN archives :
       archives[t] \subseteq current \/ Before(archives[t], current)

OrderInv == faults = 0 => CleanInv /\ SortedInv /\ PrunesOldest

\* Failures are counted for good.
LEMMA FaultsGrow ==
  ASSUME ProgressOK, [Next]_vars, faults' = 0
  PROVE  faults = 0 /\ ~Fault
<1>1. faults \in Nat
  BY BoundsAssumption DEF ProgressOK
<1>2. ~Fault
  BY <1>1 DEF Fault, Faults
<1>3. CASE Copy
  BY <1>1, <1>2, <1>3 DEF Copy, Faults, Collision
<1>4. CASE Truncate \/ RemovePlaceholder \/ Prune
  BY <1>2, <1>4 DEF Truncate, RemovePlaceholder, Prune
<1>5. CASE Start \/ Writes \/ Begins \/ Crash \/ Tick \/ UNCHANGED vars
  BY <1>2, <1>5 DEF Start, Writes, Write, Begins, BeginRotation, FinishWrite, Crash, Tick, vars, history
<1> QED
  BY <1>2, <1>3, <1>4, <1>5, NextSteps

\* A copy that succeeds under a name of its own.
LEMMA CopySucceeds ==
  ASSUME ProgressOK, Copy, faults' = 0
  PROVE  /\ stamp \notin DOMAIN archives /\ archives' = Archive(stamp, current)
         /\ UNCHANGED <<handle, current, placeholder, stamp, pruned>>
         /\ pc = "copy" /\ pc' = "truncate"
<1>1. faults \in Nat
  BY BoundsAssumption DEF ProgressOK
<1> QED
  BY <1>1 DEF Copy, Fault, Faults, Collision, rotation

\* A cleanup in which every removal succeeds.
LEMMA PruneSucceeds ==
  ASSUME ~Fault, Prune
  PROVE  /\ pc' = "append" /\ UNCHANGED <<handle, current, stamp>>
         /\ \E out \in SUBSET Names : Surplus(out) /\ RemoveFiles(Aged \union out)
BY DEF Prune, rotation

LEMMA CleanStep ==
  ASSUME TypeOK, RotationInv, CleanInv, [Next]_vars, faults' = 0
  PROVE  CleanInv'
<1>1. ProgressOK /\ PlaceholderOK /\ ~Fault
  BY TypeParts, FaultsGrow
<1> USE DEF CleanInv
<1>2. CASE Start \/ Crash \/ Tick \/ UNCHANGED vars
  BY <1>2 DEF Start, Crash, Tick, vars, files
<1>3. CASE Begins
  <2>1. pc' = "copy" /\ placeholder'.text = {}
    BY <1>3 DEF Begins, BeginRotation
  <2> QED
    BY <2>1
<1>4. CASE Writes
  <2>1. PICK n \in 1..MaxLine :
          /\ UNCHANGED handle /\ pc' = "idle" /\ pc \in {"idle", "append"}
          /\ handle = "current" => UNCHANGED placeholder
    BY <1>1, <1>4, AppendEffect
  <2> QED
    BY <2>1 DEF RotationInv
<1>5. CASE Copy
  BY <1>1, <1>5, CopySucceeds
<1>6. CASE Truncate \/ RemovePlaceholder
  <2>1. pc' \in {"remove", "prune"} /\ (UNCHANGED placeholder \/ placeholder' = NoFile)
    BY <1>1, <1>6 DEF Truncate, RemovePlaceholder
  <2> QED
    BY <2>1 DEF NoFile
<1>7. CASE Prune
  <2>1. pc' = "append" /\ (UNCHANGED placeholder \/ placeholder' = NoFile)
    BY <1>1, <1>7 DEF Prune, RemoveFiles
  <2> QED
    BY <2>1 DEF NoFile
<1> QED
  BY <1>2, <1>3, <1>4, <1>5, <1>6, <1>7, NextSteps

LEMMA SortedStep ==
  ASSUME TypeOK, RotationInv, NumberedInv, CleanInv, SortedInv, [Next]_vars, faults' = 0
  PROVE  SortedInv'
<1>1. ProgressOK /\ ArchivesOK /\ ~Fault
  BY TypeParts, FaultsGrow
<1>2. \A t \in DOMAIN archives : t \in Nat /\ t <= stamp /\ stamp \in Nat /\ now \in Nat /\ stamp <= now
  BY <1>1, BoundsAssumption DEF ArchivesOK, ProgressOK, SortedInv, Times
<1>3. CASE Start \/ Crash \/ Tick \/ RemovePlaceholder \/ UNCHANGED vars
  <2>1. UNCHANGED <<current, archives, stamp>>
    BY <1>3 DEF Start, Crash, Tick, RemovePlaceholder, vars, files, rotation
  <2> QED
    BY <2>1 DEF SortedInv, Before
<1>4. CASE Begins
  <2>1. UNCHANGED <<current, archives>> /\ stamp' = now
    BY <1>4 DEF Begins, BeginRotation
  <2>2. \A t \in DOMAIN archives' : t <= stamp'
    BY <1>2, <2>1
  <2> QED
    BY <2>1, <2>2 DEF SortedInv, Before
<1>5. CASE Writes
  <2>1. PICK n \in 1..MaxLine :
          /\ written + n <= MaxText /\ UNCHANGED <<archives, stamp, handle>>
          /\ pc \in {"idle", "append"}
          /\ handle = "current" => current' = current \union Line(n)
    BY <1>1, <1>5, AppendEffect
  <2>2. current' = current \union Line(n)
    BY <2>1 DEF RotationInv, CleanInv
  <2>3. \A u \in Line(n) : u > written /\ u \in Nat
    BY <1>1, <2>1, LineIsNew DEF Text
  <2>4. ASSUME NEW t \in DOMAIN archives
        PROVE  archives[t] \subseteq current' \/ Before(archives[t], current')
    <3>1. archives[t] \subseteq current \/ Before(archives[t], current)
      BY DEF SortedInv
    <3>2. \A p \in archives[t] : p \in 1..written
      BY DEF NumberedInv, Numbered
    <3>3. \A p \in archives[t], u \in Line(n) : p < u
      BY <1>1, <2>3, <3>2 DEF ProgressOK
    <3> QED
      BY <2>2, <3>1, <3>3 DEF Before
  <2> QED
    BY <2>1, <2>4 DEF SortedInv, Before
<1>6. CASE Copy
  <2>1. /\ stamp \notin DOMAIN archives /\ archives' = Archive(stamp, current)
        /\ UNCHANGED <<current, stamp>>
    BY <1>1, <1>6, CopySucceeds
  <2>2. /\ DOMAIN archives' = DOMAIN archives \union {stamp}
        /\ archives'[stamp] = current
        /\ \A t \in DOMAIN archives : archives'[t] = archives[t]
    BY <2>1 DEF Archive
  <2>3. stamp \in Nat
    BY <1>1 DEF ProgressOK, Times
  <2>4. \A t \in DOMAIN archives' : t <= stamp
    BY <1>2, <2>2, <2>3
  <2>5. ASSUME NEW t \in DOMAIN archives', NEW u \in DOMAIN archives', t < u
        PROVE  archives'[t] \subseteq archives'[u] \/ Before(archives'[t], archives'[u])
    <3>1. t \in DOMAIN archives
      BY <1>2, <2>2, <2>3, <2>5
    <3>2. CASE u = stamp
      BY <2>2, <3>1, <3>2 DEF SortedInv
    <3>3. CASE u \in DOMAIN archives
      BY <2>2, <2>5, <3>1, <3>3 DEF SortedInv
    <3> QED
      BY <2>2, <3>2, <3>3
  <2>6. \A t \in DOMAIN archives' : archives'[t] \subseteq current \/ Before(archives'[t], current)
    BY <2>2 DEF SortedInv
  <2> QED
    BY <2>1, <2>4, <2>5, <2>6 DEF SortedInv, Before
<1>7. CASE Truncate
  <2>1. UNCHANGED <<archives, stamp>> /\ current' = {}
    BY <1>1, <1>7 DEF Truncate, rotation
  <2> QED
    BY <2>1 DEF SortedInv, Before
<1>8. CASE Prune
  <2>1. UNCHANGED <<current, stamp>> /\ \E gone : archives' = [t \in DOMAIN archives \ gone |-> archives[t]]
    BY <1>8 DEF Prune, RemoveFiles, rotation
  <2>2. \A t \in DOMAIN archives' : t \in DOMAIN archives /\ archives'[t] = archives[t]
    BY <2>1
  <2> QED
    BY <2>1, <2>2 DEF SortedInv, Before
<1> QED
  BY <1>3, <1>4, <1>5, <1>6, <1>7, <1>8, NextSteps

\* What is retained changes with a new line and with a cleanup only.
LEMMA RetainedSteps ==
  ASSUME TypeOK, RotationInv, CleanInv, [Next]_vars, ~Prune, faults' = 0
  PROVE  /\ UNCHANGED pruned
         /\ \/ Retained' = Retained
            \/ \E n \in 1..MaxLine :
                 written + n <= MaxText /\ Retained' = Retained \union Line(n)
<1>1. ProgressOK /\ PlaceholderOK /\ ArchivesOK /\ ~Fault
  BY TypeParts, FaultsGrow
<1>2. UNCHANGED pruned
  BY FilesChanged
<1>3. CASE Start \/ Crash \/ Tick \/ UNCHANGED vars
  <2>1. UNCHANGED <<current, placeholder, archives>>
    BY <1>3 DEF Start, Crash, Tick, vars, files
  <2> QED
    BY <1>2, <2>1 DEF Retained, Archived
<1>4. CASE Begins \/ RemovePlaceholder
  <2>1. UNCHANGED <<current, archives>>
    BY <1>4 DEF Begins, BeginRotation, RemovePlaceholder
  <2>2. placeholder.text = {} /\ placeholder'.text = {}
    BY <1>4 DEF Begins, BeginRotation, RemovePlaceholder, NoFile, CleanInv
  <2> QED
    BY <1>2, <2>1, <2>2 DEF Retained, Archived
<1>5. CASE Writes
  <2>1. PICK n \in 1..MaxLine :
          /\ written + n <= MaxText /\ UNCHANGED archives /\ pc \in {"idle", "append"}
          /\ handle = "current" => current' = current \union Line(n) /\ UNCHANGED placeholder
    BY <1>1, <1>5, AppendEffect
  <2>2. current' = current \union Line(n) /\ UNCHANGED placeholder
    BY <2>1 DEF RotationInv, CleanInv
  <2> QED
    BY <1>2, <2>1, <2>2 DEF Retained, Archived
<1>6. CASE Copy
  <2>1. /\ stamp \notin DOMAIN archives /\ archives' = Archive(stamp, current)
        /\ UNCHANGED <<current, placeholder>>
    BY <1>1, <1>6, CopySucceeds
  <2>2. Archived' = Archived \union current
    <3>1. /\ DOMAIN archives' = DOMAIN archives \union {stamp}
          /\ archives'[stamp] = current
          /\ \A t \in DOMAIN archives : archives'[t] = archives[t]
      BY <2>1 DEF Archive
    <3> QED
      BY <3>1 DEF Archived
  <2> QED
    BY <1>2, <2>1, <2>2 DEF Retained
<1>7. CASE Truncate
  <2>1. UNCHANGED <<placeholder, archives>> /\ current' = {} /\ current \subseteq Archived
    BY <1>1, <1>7 DEF Truncate, RotationInv, Archived
  <2> QED
    BY <1>2, <2>1 DEF Retained, Archived
<1> QED
  BY <1>3, <1>4, <1>5, <1>6, <1>7, NextSteps

(* A cleanup removes the archives before some point in time, and an archive   *)
(* that is kept has all of those before it that it shares text with.         *)
LEMMA PruneInOrder ==
  ASSUME TypeOK, RotationInv, CleanInv, SortedInv, PrunesOldest, faults = 0, Prune, ~Fault
  PROVE  \A p \in pruned' \ Retained', r \in Retained' : p < r
<1>1. ArchivesOK /\ now \in Nat /\ MaxAge \in Nat /\ DOMAIN archives \subseteq Nat \ {0}
  BY TypeParts, BoundsAssumption, RetentionAssumption DEF ProgressOK, ArchivesOK, Times
<1>2. PICK out \in SUBSET Names : Surplus(out) /\ RemoveFiles(Aged \union out)
  BY PruneSucceeds
<1> DEFINE gone == Aged \union out
<1>3. current = {} /\ current' = {} /\ placeholder.text = {} /\ placeholder'.text = {}
  BY <1>2 DEF Prune, RotationInv, CleanInv, RemoveFiles, NoFile
<1>4. /\ DOMAIN archives' = DOMAIN archives \ gone
      /\ \A t \in DOMAIN archives' : archives'[t] = archives[t]
      /\ pruned' = pruned \union UNION {TextOf(n) : n \in gone}
  BY <1>2 DEF RemoveFiles
<1>5. Retained = Archived /\ Retained' = Archived'
  BY <1>3 DEF Retained
<1>6. ASSUME NEW t \in DOMAIN archives, t \in gone, NEW u \in DOMAIN archives, u \notin gone
      PROVE  t < u
  <2>1. Modified(t) = t /\ Modified(u) = u /\ t \in Names /\ u \in Names /\ t \in Nat /\ u \in Nat
    BY <1>1 DEF Modified, Names
  <2>2. CASE t \in Aged
    BY <1>1, <1>6, <2>1, <2>2 DEF Aged
  <2>3. CASE t \in out
    BY <1>2, <1>6, <2>1, <2>3 DEF Surplus
  <2> QED
    BY <1>6, <2>2, <2>3
<1>7. SUFFICES ASSUME NEW p \in pruned', p \notin Retained', NEW r \in Retained' PROVE p < r
  OBVIOUS
<1>8. PICK u \in DOMAIN archives' : r \in archives[u]
  BY <1>4, <1>5 DEF Archived
<1>9. u \in DOMAIN archives /\ u \notin gone
  BY <1>4
<1>10. CASE p \in Retained
  <2>1. PICK t \in DOMAIN archives : p \in archives[t]
    BY <1>5, <1>10 DEF Archived
  <2>2. t \in gone
    BY <1>4, <1>5, <1>7, <2>1 DEF Archived
  <2>3. t < u
    BY <1>6, <1>9, <2>2
  <2>4. ~(archives[t] \subseteq archives[u])
    BY <1>4, <1>5, <1>7, <2>1 DEF Archived
  <2> QED
    BY <1>8, <1>9, <2>1, <2>3, <2>4 DEF SortedInv, Before
<1>11. CASE p \notin Retained
  <2>1. r \in Retained
    BY <1>5, <1>8, <1>9 DEF Archived
  <2>2. p \in pruned
    <3>1. ASSUME NEW n \in gone, p \in TextOf(n) PROVE p \in Retained
      <4>1. n \in Names
        BY DEF Aged
      <4> QED
        BY <1>3, <3>1, <4>1 DEF Names, TextOf, Retained, Archived
    <3> QED
      BY <1>4, <1>11, <3>1
  <2> QED
    BY <1>11, <2>1, <2>2 DEF PrunesOldest
<1> QED
  BY <1>10, <1>11

LEMMA OrderStep ==
  TypeOK /\ RotationInv /\ NumberedInv /\ OrderInv /\ [Next]_vars => OrderInv'
<1> SUFFICES ASSUME TypeOK, RotationInv, NumberedInv, OrderInv, [Next]_vars, faults' = 0
             PROVE  CleanInv' /\ SortedInv' /\ PrunesOldest'
  BY DEF OrderInv
<1>1. faults = 0 /\ ~Fault /\ ProgressOK
  BY TypeParts, FaultsGrow
<1>2. CleanInv /\ SortedInv /\ PrunesOldest
  BY <1>1 DEF OrderInv
<1>3. CleanInv' /\ SortedInv'
  BY <1>2, CleanStep, SortedStep
<1>4. \A p \in pruned' \ Retained', r \in Retained' : p < r
  <2>1. CASE Prune
    BY <1>1, <1>2, <2>1, PruneInOrder
  <2>2. CASE ~Prune
    <3>1. ASSUME NEW n \in 1..MaxLine, written + n <= MaxText, NEW p \in pruned, NEW r \in Line(n)
          PROVE  p < r
      <4>1. r > written /\ r \in Nat
        BY <1>1, <3>1, LineIsNew DEF Text
      <4>2. p \in 1..written
        BY DEF NumberedInv, Numbered
      <4> QED
        BY <1>1, <4>1, <4>2 DEF ProgressOK
    <3>2. UNCHANGED pruned
      BY <1>1, <1>2, <2>2, RetainedSteps
    <3>3. CASE Retained' = Retained
      BY <1>1, <1>2, <3>2, <3>3 DEF PrunesOldest
    <3>4. ASSUME NEW n \in 1..MaxLine, written + n <= MaxText,
                 Retained' = Retained \union Line(n)
          PROVE  \A p \in pruned' \ Retained', r \in Retained' : p < r
      BY <1>1, <1>2, <3>1, <3>2, <3>4 DEF PrunesOldest
    <3> QED
      BY <1>1, <1>2, <2>2, <3>3, <3>4, RetainedSteps
  <2> QED
    BY <2>1, <2>2
<1> QED
  BY <1>3, <1>4 DEF PrunesOldest

(* As long as nothing fails the log has no gap: stops at any point, archives *)
(* with the same text and both limits of cleanup_archives included, what is *)
(* removed for good comes before everything that is kept.                    *)
THEOREM PrunesInOrder == Spec => []PrunesOldest
<1>1. Init => NumberedInv /\ OrderInv
  BY DEF Init, NumberedInv, Numbered, OrderInv, CleanInv, SortedInv, PrunesOldest, NoFile
<1>2. TypeOK /\ NumberedInv /\ [Next]_vars => NumberedInv'
  BY NumberedStep
<1>3. TypeOK /\ RotationInv /\ NumberedInv /\ OrderInv /\ [Next]_vars => OrderInv'
  BY OrderStep
<1>4. OrderInv => PrunesOldest
  BY DEF OrderInv, PrunesOldest
<1> QED
  BY <1>1, <1>2, <1>3, <1>4, SizesHold, PTL DEF Spec
=============================================================================
