------------------------------- MODULE Release ------------------------------
(***************************************************************************)
(* `so-context update` (update.rs) beside the daemon and the commands that *)
(* start it from the binary that is being replaced. An update fetches in a *)
(* directory of its own; what it shares with others is the path of the     *)
(* binary and the staging file next to it, which has one fixed name.       *)
(***************************************************************************)
EXTENDS DaemonControl

CONSTANTS
    Updates,     \* `so-context update` commands
    Releases,    \* versions, in the order they are published
    NoBinary

ASSUME ReleasesAssumption == Releases \subseteq Nat /\ Releases # {}

VARIABLES
    published,   \* the latest release
    binary,      \* at the path so-context is started from
    staging,     \* so-context.update-tmp
    update,      \* update -> where it is
    runs         \* daemon -> the binary it was started from

releaseVars == <<published, binary, staging, update, runs>>

Binary == [version : Releases, whole : BOOLEAN]

ASSUME NoBinaryAssumption == NoBinary \notin Binary \cup Releases

Oldest == CHOOSE r \in Releases : \A s \in Releases : r <= s

UpdateIdle == [at |-> "idle", release |-> Oldest]
Updating == \E u \in Updates : update[u].at # "idle"

ReleaseInit ==
    /\ Init
    /\ published = Oldest
    /\ binary = [version |-> Oldest, whole |-> TRUE]
    /\ staging = NoBinary
    /\ update = [u \in Updates |-> UpdateIdle]
    /\ runs = [d \in Daemons |-> binary]

-----------------------------------------------------------------------------
UpdateGoes(u, stage) == update' = [update EXCEPT ![u].at = stage]
UpdateEnds(u) == update' = [update EXCEPT ![u] = UpdateIdle]

Publish ==
    /\ \E r \in Releases : r > published /\ published' = r
    /\ UNCHANGED <<vars, binary, staging, update, runs>>

BeginUpdate(u) ==
    /\ update[u].at = "idle"
    /\ "overlap" \in Hiccups \/ (Quiet /\ ~Updating)
    /\ UpdateGoes(u, "fetch")
    /\ UNCHANGED <<vars, published, binary, staging, runs>>

(* latest_release_info_for_update asks anew, whatever is cached.           *)
FetchRelease(u) ==
    /\ update[u].at = "fetch"
    /\ update' = [update EXCEPT ![u] = [at |-> "download", release |-> published]]
    /\ UNCHANGED <<vars, published, binary, staging, runs>>

(* The archive of the platform is unpacked in a temporary directory, and   *)
(* the binary found in it.                                                 *)
DownloadAsset(u) ==
    /\ update[u].at = "download"
    /\ UpdateGoes(u, "copy")
    /\ UNCHANGED <<vars, published, binary, staging, runs>>

(* A release without one is built there from the source of its tag.        *)
BuildFromSource(u) ==
    /\ update[u].at = "download"
    /\ UpdateGoes(u, "build")
    /\ UNCHANGED <<vars, published, binary, staging, runs>>

BuildEnds(u) ==
    /\ update[u].at = "build"
    /\ UpdateGoes(u, "copy")
    /\ UNCHANGED <<vars, published, binary, staging, runs>>

(* Mistake: the release is copied over the binary itself.                  *)
StageInPlace(u) ==
    /\ update[u].at \in {"copy", "copying"}
    /\ LET copy == [version |-> update[u].release, whole |-> update[u].at = "copying"]
       IN staging' = copy /\ binary' = copy
    /\ UpdateGoes(u, IF update[u].at = "copy" THEN "copying" ELSE "rename")
    /\ UNCHANGED <<vars, published, runs>>

(* install_binary: fs::copy empties the staging file, whoever wrote it,    *)
(* and fills it.                                                           *)
Stage(u) ==
    /\ update[u].at \in {"copy", "copying"}
    /\ staging' = [version |-> update[u].release, whole |-> update[u].at = "copying"]
    /\ UpdateGoes(u, IF update[u].at = "copy" THEN "copying" ELSE "rename")
    /\ UNCHANGED <<vars, published, binary, runs>>

(* Then it takes the place of the binary. It is an error if it has gone.   *)
Replace(u) ==
    /\ update[u].at = "rename"
    /\ IF staging = NoBinary
       THEN UNCHANGED <<binary, staging>>
       ELSE binary' = staging /\ staging' = NoBinary
    /\ UpdateEnds(u)
    /\ UNCHANGED <<vars, published, runs>>

(* Any step may fail, and the process may be killed between two.           *)
UpdateStops(u) ==
    /\ "crash" \in Hiccups
    /\ update[u].at # "idle"
    /\ UpdateEnds(u)
    /\ UNCHANGED <<vars, published, binary, staging, runs>>

UpdateStep(u) ==
    \/ BeginUpdate(u) \/ FetchRelease(u)
    \/ DownloadAsset(u) \/ BuildFromSource(u) \/ BuildEnds(u)
    \/ Stage(u) \/ Replace(u) \/ UpdateStops(u)

(* A daemon runs the binary that was in its place when it was spawned.     *)
Spawned(d) == daemon[d] = "dead" /\ daemon'[d] = "probe"

Begins ==
    \/ \E c \in Commands : command[c].at = "idle" /\ command'[c].at # "idle"
    \/ \E d \in Daemons : Spawned(d) /\ \A c \in Commands : command[c].at # "spawn"

ControlStep ==
    /\ Next
    /\ Begins => "overlap" \in Hiccups \/ ~Updating
    /\ runs' = [d \in Daemons |->
                   CASE Spawned(d)            -> binary
                     [] daemon'[d] = "dead"   -> [version |-> Oldest, whole |-> TRUE]
                     [] OTHER                 -> runs[d]]
    /\ UNCHANGED <<published, binary, staging, update>>

ReleaseNext == ControlStep \/ Publish \/ \E u \in Updates : UpdateStep(u)

ReleaseSpec == ReleaseInit /\ [][ReleaseNext]_<<vars, releaseVars>> /\ Fairness

-----------------------------------------------------------------------------
ReleaseTypeOK ==
    /\ TypeOK
    /\ published \in Releases
    /\ binary \in Binary
    /\ staging \in Binary \cup {NoBinary}
    /\ update \in [Updates ->
          [at : {"idle", "fetch", "download", "build", "copy", "copying", "rename"}, release : Releases]]
    /\ runs \in [Daemons -> Binary]

(* "Restart the daemon if you want it to pick up the new release"          *)
(* (update.rs:50): what a start or restart leaves serving was started from *)
(* the binary that is installed by then, and that is a whole release,      *)
(* wherever an update has failed or was killed.                            *)
StartRunsTheUpdate ==
    [][\A c \in Commands :
        command[c].at = "ready" /\ command'[c].at # "ready" =>
            /\ binary.whole
            /\ \A d \in Daemons : Serving(d) => runs[d] = binary]_<<vars, releaseVars>>
=============================================================================
