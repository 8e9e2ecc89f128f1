---------------------------- MODULE LogRotation ----------------------------
(***************************************************************************)
(* The host service's log file (src/src/bin/host/logging.rs,               *)
(* RotatingFileWriter): a line that would fill the current file first      *)
(* rotates it, step by step, under the writer's mutex.  The process may    *)
(* stop between any two steps, and any of them may fail.                   *)
(*                                                                         *)
(* What is logged is numbered, a unit of text at a time: a line of size n  *)
(* is n units, a file is the set of the units it holds and its size is     *)
(* their number.  A line may be as long as the limit or longer.  A line    *)
(* that the writer refuses (write returns an error) gets no numbers.  An   *)
(* archive counts as modified when it was made.                            *)
(***************************************************************************)
EXTENDS Naturals, FiniteSets

CONSTANTS
  MaxSize,     \* max_bytes, in units
  LineSizes,   \* the sizes of lines
  MaxLine,     \* the longest line
  MaxFiles,    \* max_files
  MaxAge,      \* max_age_days, 0 for no limit
  MaxText, MaxTime, MaxFaults, MaxCrashes   \* bounds

ASSUME SizeAssumption == MaxSize \in Nat /\ MaxSize >= 2
ASSUME LineAssumption == MaxLine \in Nat \ {0} /\ LineSizes \subseteq 1..MaxLine
ASSUME RetentionAssumption == MaxFiles \in Nat /\ MaxAge \in Nat
ASSUME BoundsAssumption ==
  MaxText \in Nat /\ MaxTime \in Nat \ {0} /\ MaxFaults \in Nat /\ MaxCrashes \in Nat

VARIABLES
  pc,           \* where the writer stands
  handle,       \* the file it has open: "current" or "placeholder"
  current,      \* text of host.log
  placeholder,  \* host.log.active: whether it exists, its text, its last change
  archives,     \* host.log.<time>: text by time
  incoming,     \* incoming_len of the rotation under way
  stamp,        \* ts of the rotation under way
  now,          \* SystemTime::now(), in seconds
  written,      \* units accepted so far
  long,         \* history variable: the lines of MaxSize and more
  pruned,       \* history variable: text of files removed by cleanup_archives
  faults,       \* history variable: failed steps, and two rotations in one second
  crashes       \* history variable: stops of the process

history == <<pruned, faults, crashes>>
files == <<current, placeholder, archives>>
rotation == <<incoming, stamp>>
logged == <<written, long>>
vars == <<pc, handle, files, rotation, now, logged, history>>

Text == 1..MaxText
Times == 1..MaxTime
NoFile == [exists |-> FALSE, text |-> {}, modified |-> 0]

Archived == UNION {archives[t] : t \in DOMAIN archives}
Retained == current \union placeholder.text \union Archived

Faults(n) == faults + n <= MaxFaults /\ faults' = faults + n
Fault == Faults(1)

Init ==
  /\ pc = "down" /\ handle = "current"
  /\ current = {} /\ placeholder = NoFile
  /\ archives = [t \in {} |-> {}]
  /\ incoming = MaxLine /\ stamp = 1 /\ now = 1
  /\ written = 0 /\ long = {}
  /\ pruned = {} /\ faults = 0 /\ crashes = 0

-----------------------------------------------------------------------------
\* Mutant: the file is truncated when the service starts.
StartTruncates ==
  /\ pc = "down"
  /\ pc' = "idle" /\ handle' = "current"
  /\ current' = {}
  /\ UNCHANGED <<placeholder, archives, rotation, now, logged, history>>

\* The service starts: host.log is opened to append, whatever it holds.
Start ==
  /\ pc = "down"
  /\ pc' = "idle" /\ handle' = "current"
  /\ UNCHANGED <<files, rotation, now, logged, history>>

OpenText == IF handle = "current" THEN current ELSE placeholder.text

\* Mutant: the size of the incoming line is not counted.
FullWithoutIncoming(n) == Cardinality(OpenText) >= MaxSize

\* Whether a line of size n does not fit the file that is open.
Full(n) == Cardinality(OpenText) + n >= MaxSize

\* A line of size n is appended to the file that is open, be it the placeholder.
Append(n) ==
  LET line == (written + 1)..(written + n)
  IN  /\ written + n <= MaxText /\ written' = written + n
      /\ long' = long \union {l \in {line} : n >= MaxSize}
      /\ IF handle = "current"
           THEN current' = current \union line /\ UNCHANGED placeholder
           ELSE /\ placeholder' = [exists |-> TRUE, modified |-> now,
                                   text |-> placeholder.text \union line]
                /\ UNCHANGED current

Write(n) ==
  /\ pc = "idle" /\ ~Full(n)
  /\ Append(n)
  /\ UNCHANGED <<pc, handle, archives, rotation, now, history>>

\* The handle moves to the placeholder, which is created or kept as it is.
BeginRotation(n) ==
  /\ pc = "idle" /\ Full(n) /\ written + n <= MaxText
  /\ pc' = "copy" /\ handle' = "placeholder" /\ incoming' = n /\ stamp' = now
  /\ placeholder' = IF placeholder.exists THEN placeholder
                    ELSE [exists |-> TRUE, text |-> {}, modified |-> now]
  /\ UNCHANGED <<current, archives, now, logged, history>>

Archive(t, text) ==
  [u \in DOMAIN archives \union {t} |-> IF u = t THEN text ELSE archives[u]]

\* Two rotations in one second have one name: the later archive replaces the
\* earlier.  A failed copy may leave a part of itself, an empty one here.
Collision == IF stamp \in DOMAIN archives THEN 1 ELSE 0

Copy ==
  /\ pc = "copy"
  /\ \/ archives' = Archive(stamp, current) /\ pc' = "truncate" /\ Faults(Collision)
     \/ archives' = Archive(stamp, {}) /\ pc' = "idle" /\ Faults(Collision + 1)
     \/ UNCHANGED archives /\ pc' = "idle" /\ Fault
  /\ UNCHANGED <<handle, current, placeholder, rotation, now, logged, pruned, crashes>>

Truncate ==
  /\ pc = "truncate"
  /\ \/ current' = {} /\ handle' = "current" /\ pc' = "remove" /\ UNCHANGED faults
     \/ pc' = "idle" /\ Fault /\ UNCHANGED <<current, handle>>
  /\ UNCHANGED <<placeholder, archives, rotation, now, logged, pruned, crashes>>

\* Mutant: the placeholder's text outlives it.
RemoveNameOnly ==
  /\ pc = "remove"
  /\ pc' = "prune"
  /\ placeholder' = [placeholder EXCEPT !.exists = FALSE]
  /\ UNCHANGED <<handle, current, archives, rotation, now, logged, history>>

\* Whether the placeholder could be removed is not looked at.
RemovePlaceholder ==
  /\ pc = "remove"
  /\ pc' = "prune"
  /\ \/ placeholder' = NoFile /\ UNCHANGED faults
     \/ Fault /\ UNCHANGED placeholder
  /\ UNCHANGED <<handle, current, archives, rotation, now, logged, pruned, crashes>>

-----------------------------------------------------------------------------
(* cleanup_archives takes every file whose name starts with host.log. for an *)
(* archive, a placeholder included: the archives by their times, and 0.      *)
Names == DOMAIN archives \union {n \in {0} : placeholder.exists}
Modified(n) == IF n = 0 THEN placeholder.modified ELSE n
TextOf(n) == IF n = 0 THEN placeholder.text ELSE archives[n]

Aged == {n \in Names : MaxAge > 0 /\ Modified(n) + MaxAge < now}

\* Mutant: the newest files are removed.
SurplusNewest(out) ==
  /\ out \subseteq Names \ Aged
  /\ Cardinality(Names \ Aged) <= MaxFiles => out = {}
  /\ Cardinality(Names \ Aged) > MaxFiles => Cardinality((Names \ Aged) \ out) = MaxFiles
  /\ \A n \in out, m \in (Names \ Aged) \ out : Modified(n) >= Modified(m)

\* out is what is beyond MaxFiles of the files not too old, the oldest first.
Surplus(out) ==
  /\ out \subseteq Names \ Aged
  /\ Cardinality(Names \ Aged) <= MaxFiles => out = {}
  /\ Cardinality(Names \ Aged) > MaxFiles => Cardinality((Names \ Aged) \ out) = MaxFiles
  /\ \A n \in out, m \in (Names \ Aged) \ out : Modified(n) <= Modified(m)

RemoveFiles(gone) ==
  /\ archives' = [t \in DOMAIN archives \ gone |-> archives[t]]
  /\ placeholder' = IF 0 \in gone THEN NoFile ELSE placeholder
  /\ pruned' = pruned \union UNION {TextOf(n) : n \in gone}

\* Mutant: nothing is cleaned up.
PruneNothing ==
  /\ pc = "prune"
  /\ pc' = "append"
  /\ UNCHANGED <<handle, files, rotation, now, logged, history>>

\* Removals that fail are passed over; an error in listing the files, when some
\* old ones may be gone already, ends the write.
Prune ==
  /\ pc = "prune"
  /\ \/ /\ pc' = "append"
        /\ \E out \in SUBSET Names :
             /\ Surplus(out)
             /\ \/ RemoveFiles(Aged \union out) /\ UNCHANGED faults
                \/ \E gone \in SUBSET (Aged \union out) :
                     gone # Aged \union out /\ RemoveFiles(gone) /\ Fault
     \/ pc' = "idle" /\ Fault /\ \E gone \in SUBSET Aged : RemoveFiles(gone)
  /\ UNCHANGED <<handle, current, rotation, now, logged, crashes>>

\* The line is written whole, however long it is.
FinishWrite ==
  /\ pc = "append"
  /\ Append(incoming)
  /\ pc' = "idle"
  /\ UNCHANGED <<handle, archives, rotation, now, history>>

-----------------------------------------------------------------------------
Crash ==
  /\ pc # "down" /\ crashes < MaxCrashes
  /\ crashes' = crashes + 1
  /\ pc' = "down"
  /\ UNCHANGED <<handle, files, rotation, now, logged, pruned, faults>>

Tick ==
  /\ now < MaxTime
  /\ now' = now + 1
  /\ UNCHANGED <<pc, handle, files, rotation, logged, history>>

Next ==
  \/ \E n \in LineSizes : Write(n)
  \/ \E n \in LineSizes : BeginRotation(n)
  \/ Start \/ Copy \/ Truncate \/ RemovePlaceholder \/ Prune \/ FinishWrite \/ Crash \/ Tick

Spec == Init /\ [][Next]_vars

-----------------------------------------------------------------------------
TypeOK ==
  /\ pc \in {"down", "idle", "copy", "truncate", "remove", "prune", "append"}
  /\ handle \in {"current", "placeholder"}
  /\ current \subseteq Text
  /\ placeholder \in [exists : BOOLEAN, text : SUBSET Text, modified : 0..MaxTime]
  /\ ~placeholder.exists => placeholder = NoFile
  /\ DOMAIN archives \subseteq Times
  /\ archives \in [DOMAIN archives -> SUBSET Text]
  /\ incoming \in 1..MaxLine /\ stamp \in Times /\ now \in Times /\ stamp <= now
  /\ written \in 0..MaxText /\ long \subseteq SUBSET Text /\ pruned \subseteq Text
  /\ faults \in 0..MaxFaults /\ crashes \in 0..MaxCrashes

(* A file stays below the limit unless it is a single line that reaches the  *)
(* limit by itself, also after a failed rotation has sent lines to the       *)
(* placeholder, which stays below it in any case, and when a stopped         *)
(* rotation is taken up again (rotate_if_needed).                            *)
SizeBound ==
  /\ Cardinality(placeholder.text) < MaxSize
  /\ \A f \in {current} \union {archives[t] : t \in DOMAIN archives} :
       Cardinality(f) < MaxSize \/ f \in long

(* A stop at any point of a rotation loses no text; a failed step, or a      *)
(* second rotation in one second, loses no more than one file                *)
(* (rotate_if_needed).                                                       *)
FileLimit == IF MaxLine < MaxSize THEN MaxSize - 1 ELSE MaxLine

LossBounded ==
  LET lost == (1..written) \ (Retained \union pruned)
  IN  Cardinality(lost) <= faults * FileLimit

(* Archives do not pile up: over the limit there is the one of the rotation  *)
(* under way and one for each stop or failure before (cleanup_archives).     *)
ArchivesBounded ==
  Cardinality(DOMAIN archives) <= MaxFiles + 1 + faults + crashes

(* What is pruned is older than all that is kept, so that the log has no     *)
(* gap, unless a step failed (cleanup_archives).                             *)
PrunesOldest ==
  faults = 0 =>
    \A p \in pruned \ Retained : \A r \in Retained : p < r
=============================================================================
