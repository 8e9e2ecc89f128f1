---------------------------- MODULE RuntimeToken ----------------------------
(***************************************************************************)
(* The shared token and how each process comes by it: the host's           *)
(* load_runtime_config and spawn_config_reloader (src/src/bin/host/main.rs *)
(* and config.rs), the guest's resolve_token and spawn_config_reloader     *)
(* (src/src/bin/guest.rs).  People, installers and editors change the      *)
(* files under both.                                                       *)
(*                                                                         *)
(* A token file is abstracted to the token in it, or None when it is       *)
(* missing or blank: both sides treat these alike.  A file is written by   *)
(* emptying it and then writing, so a reader may find it blank in between. *)
(***************************************************************************)
EXTENDS Naturals

CONSTANTS
  Tokens,       \* what a token file may contain
  MaxChanges    \* bound on disturbances: edits here, failures where this is used

ASSUME MaxChangesAssumption == MaxChanges \in Nat

VARIABLES
  files,      \* the token in each file
  hostCfg,    \* token_path in the host's config.yaml, or "broken"
  hostBase,   \* token_path of the configuration the host process started with
  locked,     \* whether that path came from the command line (token_path_locked)
  htoken,     \* the host's runtime token
  guestCfg,   \* token_path in the guest's config.yaml, or "broken"
  gtoken,     \* the guest's runtime token
  changes     \* disturbances so far

tokenVars == <<files, hostCfg, hostBase, locked, htoken, guestCfg, gtoken, changes>>

None == "none"

ASSUME TokensAssumption == None \notin Tokens

(* "shared" is the file under C:\Users\Public that the guest sees below      *)
(* /mnt/c, "custom" another file both can see, "local" the guest's own.      *)
Paths == {"shared", "custom", "local"}
ConfigPaths == {"shared", "custom"}

\* The host's choice: a broken or missing file falls back to the start's path.
HostPath == IF locked \/ hostCfg = "broken" THEN hostBase ELSE hostCfg

HostReads == files[HostPath]

\* The candidates of resolve_token in their order.
Candidates == <<guestCfg, "shared", "local">>

\* Mutant: a later candidate wins over an earlier one.
ResolveLast ==
  LET found == {i \in 1..3 : files[Candidates[i]] # None}
  IN  IF found = {} THEN None
      ELSE files[Candidates[CHOOSE i \in found : \A j \in found : j <= i]]

\* The first candidate that holds a token.
ResolveToken ==
  LET found == {i \in 1..3 : files[Candidates[i]] # None}
  IN  IF found = {} THEN None
      ELSE files[Candidates[CHOOSE i \in found : \A j \in found : i <= j]]

-----------------------------------------------------------------------------
TokenInit ==
  /\ files \in [Paths -> Tokens \union {None}]
  /\ hostCfg \in ConfigPaths /\ guestCfg \in ConfigPaths
  /\ locked \in BOOLEAN
  /\ hostBase \in IF locked THEN ConfigPaths ELSE {hostCfg}
  /\ htoken = HostReads /\ gtoken = ResolveToken
  /\ changes = 0

\* One more disturbance.
Disturb == changes < MaxChanges /\ changes' = changes + 1

\* Somebody deletes a token file, or begins to overwrite it.
BlankFile(p) ==
  /\ Disturb
  /\ files[p] # None
  /\ files' = [files EXCEPT ![p] = None]
  /\ UNCHANGED <<hostCfg, hostBase, locked, htoken, guestCfg, gtoken>>

\* ensure_token, an installer or a person: a blank file receives a token.
WriteToken(p, t) ==
  /\ Disturb
  /\ files[p] = None
  /\ files' = [files EXCEPT ![p] = t]
  /\ UNCHANGED <<hostCfg, hostBase, locked, htoken, guestCfg, gtoken>>

\* Somebody edits a config.yaml, perhaps leaving it broken or half written.
EditConfig ==
  /\ Disturb
  /\ \/ hostCfg' \in (ConfigPaths \union {"broken"}) \ {hostCfg} /\ UNCHANGED guestCfg
     \/ guestCfg' \in (ConfigPaths \union {"broken"}) \ {guestCfg} /\ UNCHANGED hostCfg
  /\ UNCHANGED <<files, hostBase, locked, htoken, gtoken>>

\* Every CONFIG_REFRESH_INTERVAL the host replaces its token, come what may.
HostReload ==
  /\ htoken' = HostReads
  /\ UNCHANGED <<files, hostCfg, hostBase, locked, guestCfg, gtoken, changes>>

(* A host process starts.  A configuration that does not load is taken for a *)
(* missing one and replaced: by the defaults, and the path of the command    *)
(* line if there is one.                                                     *)
HostLoad ==
  /\ hostCfg' = IF hostCfg # "broken" THEN hostCfg ELSE IF locked THEN hostBase ELSE "shared"
  /\ hostBase' = IF locked THEN hostBase ELSE hostCfg'
  /\ htoken' = files[hostBase']
  /\ UNCHANGED <<files, locked, guestCfg, gtoken, changes>>

\* GuestConfig::load: a missing file means the defaults, a broken one an error.
GuestConfigLoads == guestCfg # "broken"

\* The guest's reloader: a configuration that does not load changes nothing.
GuestReload ==
  /\ GuestConfigLoads
  /\ gtoken' = ResolveToken
  /\ UNCHANGED <<files, hostCfg, hostBase, locked, htoken, guestCfg, changes>>

\* A guest process starts: with a broken configuration it exits instead.
GuestLoad == GuestReload

Edits ==
  \/ \E p \in Paths : BlankFile(p) \/ \E t \in Tokens : WriteToken(p, t)
  \/ EditConfig

-----------------------------------------------------------------------------
TokenTypeOK ==
  /\ files \in [Paths -> Tokens \union {None}]
  /\ hostCfg \in ConfigPaths \union {"broken"}
  /\ guestCfg \in ConfigPaths \union {"broken"}
  /\ hostBase \in ConfigPaths
  /\ locked \in BOOLEAN
  /\ htoken \in Tokens \union {None}
  /\ gtoken \in Tokens \union {None}
  /\ changes \in 0..MaxChanges
=============================================================================
