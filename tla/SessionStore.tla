----------------------------- MODULE SessionStore -----------------------------
(***************************************************************************)
(* The saved sessions of one project (internal/session/session.go): any    *)
(* number of clnkr and clnkrd processes save into the same directory, one  *)
(* writes a temporary file, syncs it, and publishes it by linking it under *)
(* a name made of the time and a sequence number; a load takes the file    *)
(* with the newest name.  Processes are killed and the machine loses its   *)
(* power at any step: what was not synced may then be gone or half there.  *)
(***************************************************************************)
EXTENDS Naturals, Sequences, FiniteSets

CONSTANTS
  Savers,      \* the calls of SaveSession
  MaxTime,     \* bound: instants the wall clock goes through
  MaxSeq       \* sequence numbers per instant, 1000 in publishSessionFile

ASSUME StoreAssumption == MaxTime \in Nat \ {0} /\ MaxSeq \in Nat \ {0}

VARIABLES
  clock,       \* the wall clock, which the model never sets back
  save,        \* the calls: where each is, its now and its i
  data,        \* the file each call wrote: "none", "partial" or "whole"
  flushed,     \* the calls whose file the disk holds
  home,        \* the project directory: "absent", "fresh" (its parent not yet
               \* written back) or "kept"
  dir,         \* the published names, each with the call whose file it is
  durable,     \* the names the disk holds
  acked,       \* calls that returned nil, while their directory exists
  prior,       \* per call, what was acked when it began
  load         \* the one load that is looked at

storeVars == <<clock, save, data, flushed, home, dir, durable, acked, prior,
               load>>

Names == [at: 1 .. MaxTime, seq: 0 .. MaxSeq - 1]

Working == {"begun", "created", "written", "synced", "linked"}
SavePcs == {"idle", "ok", "failed", "dead"} \cup Working

NoLoad == [pc |-> "idle", failNewest |-> TRUE, seen |-> {}, asof |-> {},
           result |-> <<>>, failed |-> FALSE]

SessionTypeOK ==
  /\ clock \in 1 .. MaxTime
  /\ \A s \in Savers : /\ save[s].pc \in SavePcs
                       /\ save[s].now \in 0 .. MaxTime
                       /\ save[s].i \in 0 .. MaxSeq
  /\ data \in [Savers -> {"none", "partial", "whole"}]
  /\ flushed \subseteq Savers
  /\ home \in {"absent", "fresh", "kept"}
  /\ DOMAIN dir \subseteq Names /\ \A n \in DOMAIN dir : dir[n] \in Savers
  /\ durable \subseteq DOMAIN dir
  /\ acked \subseteq Savers
  /\ prior \in [Savers -> SUBSET Savers]
  /\ load.pc \in {"idle", "reading", "listed", "done"}
  /\ load.seen \subseteq Names /\ load.asof \subseteq Savers

StoreInit ==
  /\ clock = 1
  /\ save = [s \in Savers |-> [pc |-> "idle", now |-> 0, i |-> 0]]
  /\ data = [s \in Savers |-> "none"]
  /\ flushed = {}
  /\ home \in {"absent", "kept"}
  /\ dir = [n \in {} |-> NoLoad]
  /\ durable = {}
  /\ acked = {}
  /\ prior = [s \in Savers |-> {}]
  /\ load = NoLoad

Goes(s, pc) == save' = [save EXCEPT ![s].pc = pc]

-----------------------------------------------------------------------------
(* SaveSessionWithMetadata *)

\* now is read and the session encoded before anything is on the disk.
SaveBegins(s) ==
  /\ save[s].pc = "idle"
  /\ save' = [save EXCEPT ![s] = [pc |-> "begun", now |-> clock, i |-> 0]]
  /\ prior' = [prior EXCEPT ![s] = acked]
  /\ UNCHANGED <<clock, data, flushed, home, dir, durable, acked, load>>

\* MkdirAll and CreateTemp.  A temporary's name has no .json extension, so no
\* load ever lists it.
CreateTemporary(s) ==
  /\ save[s].pc = "begun"
  /\ home' = IF home = "absent" THEN "fresh" ELSE home
  /\ data' = [data EXCEPT ![s] = "partial"]
  /\ Goes(s, "created")
  /\ UNCHANGED <<clock, flushed, dir, durable, acked, prior, load>>

WriteTemporary(s) ==
  /\ save[s].pc = "created"
  /\ data' = [data EXCEPT ![s] = "whole"]
  /\ Goes(s, "written")
  /\ UNCHANGED <<clock, flushed, home, dir, durable, acked, prior, load>>

\* Faulty variant: publishes the file before the disk holds it.
SyncTemporarySkipped(s) ==
  /\ save[s].pc = "written"
  /\ Goes(s, "synced")
  /\ UNCHANGED <<clock, data, flushed, home, dir, durable, acked, prior, load>>

SyncTemporary(s) ==
  /\ save[s].pc = "written"
  /\ flushed' = flushed \cup {s}
  /\ Goes(s, "synced")
  /\ UNCHANGED <<clock, data, home, dir, durable, acked, prior, load>>

NameOf(s) == [at |-> save[s].now, seq |-> save[s].i]

\* Faulty variant: the retry loop without its bound.
LinkNameUnbounded(s) ==
  /\ save[s].pc = "synced"
  /\ IF NameOf(s) \in DOMAIN dir
       THEN /\ save' = [save EXCEPT ![s].i = @ + 1]
            /\ UNCHANGED dir
       ELSE /\ dir' = [n \in DOMAIN dir \cup {NameOf(s)} |->
                         IF n = NameOf(s) THEN s ELSE dir[n]]
            /\ Goes(s, "linked")
  /\ UNCHANGED <<clock, data, flushed, home, durable, acked, prior, load>>

\* One iteration of the loop of publishSessionFile.  The loop's end without a
\* free name is "too many sessions".
LinkName(s) ==
  /\ save[s].pc = "synced"
  /\ save[s].i < MaxSeq
  /\ IF NameOf(s) \in DOMAIN dir
       THEN /\ save' = [save EXCEPT ![s].i = @ + 1,
                                    ![s].pc = IF save[s].i + 1 = MaxSeq
                                                THEN "failed" ELSE @]
            /\ UNCHANGED dir
       ELSE /\ dir' = [n \in DOMAIN dir \cup {NameOf(s)} |->
                         IF n = NameOf(s) THEN s ELSE dir[n]]
            /\ Goes(s, "linked")
  /\ UNCHANGED <<clock, data, flushed, home, durable, acked, prior, load>>

\* Faulty variant: returns without syncing the directory.
SyncDirectorySkipped(s) ==
  /\ save[s].pc = "linked"
  /\ acked' = acked \cup {s}
  /\ Goes(s, "ok")
  /\ UNCHANGED <<clock, data, flushed, home, dir, durable, prior, load>>

\* syncDirectory, then SaveSession returns nil.  It holds every name that is
\* in the directory by then, whoever linked it.
SyncDirectory(s) ==
  /\ save[s].pc = "linked"
  /\ durable' = DOMAIN dir
  /\ acked' = acked \cup {s}
  /\ Goes(s, "ok")
  /\ UNCHANGED <<clock, data, flushed, home, dir, prior, load>>

\* Any of the calls returns an error.  A published name stays: the session can
\* be loaded although its save was reported as failed.
SaveFails(s) ==
  /\ save[s].pc \in Working
  /\ Goes(s, "failed")
  /\ UNCHANGED <<clock, data, flushed, home, dir, durable, acked, prior, load>>

-----------------------------------------------------------------------------
(* LoadLatestSession and ListSessions *)

newerFilename(a, b) == a.at > b.at \/ (a.at = b.at /\ a.seq > b.seq)

Newer(n, ns) == {m \in ns : newerFilename(m, n)}

\* sort.Slice by newerFilename, a total order: as many names are newer than one
\* as are in front of it.
Sorted(ns) ==
  [k \in 1 .. Cardinality(ns) |-> CHOOSE n \in ns : Cardinality(Newer(n, ns)) = k - 1]

\* loadSessions.  When the newest file cannot be read LoadLatestSession gives
\* up; the others are left out.
loadFails(ns, failNewest) ==
  failNewest /\ ns # {} /\ data[dir[Sorted(ns)[1]]] # "whole"

readable(ns) == Sorted({n \in ns : data[dir[n]] = "whole"})

LoadBegins(failNewest) ==
  /\ load.pc = "idle"
  /\ load' = [NoLoad EXCEPT !.pc = "reading", !.failNewest = failNewest,
                            !.seen = DOMAIN dir, !.asof = acked]
  /\ UNCHANGED <<clock, save, data, flushed, home, dir, durable, acked, prior>>

\* os.ReadDir: a name linked meanwhile may be listed or not.
DirectoryListed ==
  /\ load.pc = "reading"
  /\ \E late \in SUBSET (DOMAIN dir \ load.seen) :
       load' = [load EXCEPT !.pc = "listed", !.seen = @ \cup late]
  /\ UNCHANGED <<clock, save, data, flushed, home, dir, durable, acked, prior>>

FilesRead ==
  /\ load.pc = "listed"
  /\ load' = [load EXCEPT
       !.pc = "done",
       !.failed = loadFails(load.seen, load.failNewest),
       !.result = IF loadFails(load.seen, load.failNewest) THEN <<>>
                  ELSE LET files == readable(load.seen)
                       IN  [k \in DOMAIN files |-> dir[files[k]]]]
  /\ UNCHANGED <<clock, save, data, flushed, home, dir, durable, acked, prior>>

LoadReturns ==
  /\ load.pc = "done"
  /\ load' = NoLoad
  /\ UNCHANGED <<clock, save, data, flushed, home, dir, durable, acked, prior>>

-----------------------------------------------------------------------------
(* The world around it *)

Tick ==
  /\ clock < MaxTime
  /\ clock' = clock + 1
  /\ UNCHANGED <<save, data, flushed, home, dir, durable, acked, prior, load>>

\* A process is killed; what it wrote stays.
Killed(s) ==
  /\ save[s].pc \in Working
  /\ Goes(s, "dead")
  /\ UNCHANGED <<clock, data, flushed, home, dir, durable, acked, prior, load>>

\* The parent directory reaches the disk, which nothing in the code asks for.
HomeKept ==
  /\ home = "fresh"
  /\ home' = "kept"
  /\ UNCHANGED <<clock, save, data, flushed, dir, durable, acked, prior, load>>

Restricted(ns) == [n \in ns |-> dir[n]]

Stopped == [s \in Savers |-> [save[s] EXCEPT
              !.pc = IF @ \in Working THEN "dead" ELSE @]]

\* The power fails: every process is gone, an unsynced file is whole or not,
\* an unsynced name is there or not.
PowerFails ==
  /\ home # "absent"
  /\ save' = Stopped
  /\ load' = NoLoad
  /\ \E lost \in SUBSET {s \in Savers \ flushed : data[s] = "whole"} :
       data' = [s \in Savers |-> IF s \in lost THEN "partial" ELSE data[s]]
  /\ \E kept \in SUBSET (DOMAIN dir \ durable) :
       /\ dir' = Restricted(durable \cup kept)
       /\ durable' = durable \cup kept
  /\ flushed' = flushed \cup {s \in Savers : data[s] # "none"}
  /\ home' = "kept"
  /\ UNCHANGED <<clock, acked, prior>>

\* The power fails and takes the directory itself, whose entry in its parent
\* no sync covered.
PowerTakesHome ==
  /\ home = "fresh"
  /\ save' = Stopped
  /\ load' = NoLoad
  /\ home' = "absent"
  /\ dir' = Restricted({}) /\ durable' = {}
  /\ acked' = {}
  /\ prior' = [s \in Savers |-> {}]
  /\ UNCHANGED <<clock, data, flushed>>

Save(s) ==
  \/ SaveBegins(s) \/ CreateTemporary(s) \/ WriteTemporary(s)
  \/ SyncTemporary(s) \/ LinkName(s) \/ SyncDirectory(s) \/ SaveFails(s)

Load == \/ \E failNewest \in BOOLEAN : LoadBegins(failNewest)
        \/ DirectoryListed \/ FilesRead \/ LoadReturns

World == Tick \/ HomeKept \/ PowerFails \/ PowerTakesHome

StoreNext == (\E s \in Savers : Save(s) \/ Killed(s)) \/ Load \/ World

StoreSpec == StoreInit /\ [][StoreNext]_storeVars

-----------------------------------------------------------------------------
(* Every published name leads to a whole session, whatever was killed or    *)
(* lost, so a load never meets a file it cannot decode.                     *)
WholeSessions == \A n \in DOMAIN dir : data[dir[n]] = "whole"

\* What of the store the promise is about.
StoredWhole == acked \cap {dir[n] : n \in {m \in DOMAIN dir : data[dir[m]] = "whole"}}

LoadSeen == [pc     |-> IF load.pc = "listed" THEN "reading" ELSE load.pc,
             asof   |-> load.asof,
             result |-> load.result,
             failed |-> load.failed]

Promise == INSTANCE StoredSessions WITH
  stored  <- StoredWhole,
  before  <- prior,
  settled <- home = "kept",
  load    <- LoadSeen

(***************************************************************************)
(* The files, names, syncs and crashes implement the promise of the store: *)
(* a session whose save returned nil has a whole file behind a name for    *)
(* ever, across every crash of its own process, of another saver or of the *)
(* machine, once the project directory itself has reached the disk; a load *)
(* never fails, lists everything acknowledged before it began, and puts    *)
(* first one that was not already acknowledged when another of them began, *)
(* not even when both fall on the same instant of the clock.               *)
(***************************************************************************)
ImplementsStore == Promise!Spec
=============================================================================
