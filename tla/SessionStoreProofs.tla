------------------------- MODULE SessionStoreProofs -------------------------
(***************************************************************************)
(* Proofs about SessionStore for every number of savers, instants and      *)
(* sequence numbers: its types, and that no name ever leads to a file that *)
(* is not whole.  A name is published only for a file that was written and *)
(* synced (invariant PublishedInv), its saver never touches the file       *)
(* again, and a power failure spoils only files that were not synced.      *)
(***************************************************************************)
EXTENDS SessionStore, FiniteSetTheorems, TLAPS

-----------------------------------------------------------------------------
(* The inductive invariant *)

\* SessionTypeOK with what EXCEPT needs of the functions, and the instant of a
\* call that is under way.
TypeInv ==
  /\ SessionTypeOK
  /\ save \in [Savers -> [pc : SavePcs, now : 0 .. MaxTime, i : 0 .. MaxSeq]]
  /\ \A s \in Savers : save[s].pc \in Working => save[s].now \in 1 .. MaxTime
  /\ {"pc", "failNewest", "seen", "asof", "result", "failed"} \subseteq DOMAIN load

\* A file is whole once it is written, on the disk once it is synced, and has a
\* name only then.
PublishedInv ==
  /\ \A s \in Savers :
       /\ save[s].pc \in {"written", "synced"} => data[s] = "whole"
       /\ save[s].pc = "synced" => s \in flushed
  /\ \A n \in DOMAIN dir :
       /\ data[dir[n]] = "whole" /\ dir[n] \in flushed
       /\ save[dir[n]].pc \in {"linked", "ok", "failed", "dead"}

IInv == TypeInv /\ PublishedInv

-----------------------------------------------------------------------------
(* Invariance *)

\* An empty directory, and calls that have not begun.
LEMMA InitInv == StoreInit => IInv
BY StoreAssumption
   DEF StoreInit, IInv, TypeInv, PublishedInv, SessionTypeOK, SavePcs, Working, NoLoad, Names

\* One step of a call keeps the invariant: what it writes has no name yet.
LEMMA SaveInv ==
  ASSUME IInv, NEW s \in Savers, Save(s)
  PROVE  IInv'
<1> USE DEF IInv, TypeInv, PublishedInv, SessionTypeOK, SavePcs, Working, Goes
<1>1. CASE SaveBegins(s)
  <2> DEFINE b == [pc |-> "begun", now |-> clock, i |-> 0]
  <2>1. /\ save' = [save EXCEPT ![s] = b] /\ prior' = [prior EXCEPT ![s] = acked]
        /\ save[s].pc = "idle"
        /\ UNCHANGED <<clock, data, flushed, home, dir, durable, acked, load>>
    BY <1>1 DEF SaveBegins
  <2>2. /\ b.pc = "begun" /\ b.now = clock /\ b.i = 0
        /\ b \in [pc : SavePcs, now : 0 .. MaxTime, i : 0 .. MaxSeq]
    BY StoreAssumption
  <2> HIDE DEF b
  <2>3. \A t \in Savers : save'[t] = IF t = s THEN b ELSE save[t]
    BY <2>1
  <2>4. TypeInv'
    BY <2>1, <2>2, <2>3
  <2>5. PublishedInv'
    BY <2>1, <2>2, <2>3
  <2> QED BY <2>4, <2>5
<1>2. CASE CreateTemporary(s) BY <1>2 DEF CreateTemporary
<1>3. CASE WriteTemporary(s) BY <1>3 DEF WriteTemporary
<1>4. CASE SyncTemporary(s) BY <1>4 DEF SyncTemporary
<1>5. CASE LinkName(s)
  <2>1. CASE NameOf(s) \in DOMAIN dir
    <3> DEFINE pc == IF save[s].i + 1 = MaxSeq THEN "failed" ELSE save[s].pc
    <3>1. /\ save' = [save EXCEPT ![s].i = @ + 1, ![s].pc = pc]
          /\ UNCHANGED <<clock, data, flushed, home, dir, durable, acked, prior, load>>
          /\ save[s].i < MaxSeq
      BY <1>5, <2>1 DEF LinkName
    <3>2. pc \in {"synced", "failed"}
      BY <1>5 DEF LinkName
    <3> HIDE DEF pc
    <3>3. save[s].i + 1 \in 0 .. MaxSeq
      BY <3>1, StoreAssumption
    <3>4. \A t \in Savers :
            /\ save'[t].pc = (IF t = s THEN pc ELSE save[t].pc)
            /\ save'[t].now = save[t].now
            /\ save'[t].i = (IF t = s THEN save[s].i + 1 ELSE save[t].i)
      BY <3>1
    <3>5. save' \in [Savers -> [pc : SavePcs, now : 0 .. MaxTime, i : 0 .. MaxSeq]]
      <4> DEFINE counted == [save EXCEPT ![s].i = @ + 1]
      <4>1. counted \in [Savers -> [pc : SavePcs, now : 0 .. MaxTime, i : 0 .. MaxSeq]]
        BY <3>3
      <4>2. save' = [counted EXCEPT ![s].pc = pc]
        BY <3>1
      <4> HIDE DEF counted
      <4> QED BY <4>1, <4>2, <3>2
    <3>6. save[s].pc = "synced"
      BY <1>5 DEF LinkName
    <3>7. TypeInv'
      BY <3>1, <3>2, <3>3, <3>4, <3>5, <3>6
    <3>8. PublishedInv'
      BY <3>1, <3>2, <3>4, <3>6
    <3> QED BY <3>7, <3>8
  <2>2. CASE NameOf(s) \notin DOMAIN dir
    <3>1. NameOf(s) \in Names
      BY <1>5, StoreAssumption DEF LinkName, NameOf, Names
    <3>2. /\ dir' = [n \in DOMAIN dir \cup {NameOf(s)} |-> IF n = NameOf(s) THEN s ELSE dir[n]]
          /\ save' = [save EXCEPT ![s].pc = "linked"]
          /\ UNCHANGED <<clock, data, flushed, home, durable, acked, prior, load>>
      BY <1>5, <2>2 DEF LinkName
    <3>3. save[s].pc = "synced"
      BY <1>5 DEF LinkName
    <3>4. /\ DOMAIN dir' = DOMAIN dir \cup {NameOf(s)}
          /\ \A n \in DOMAIN dir' : dir'[n] = IF n = NameOf(s) THEN s ELSE dir[n]
      BY <3>2
    <3>5. \A t \in Savers :
            /\ save'[t].pc = (IF t = s THEN "linked" ELSE save[t].pc)
            /\ save'[t].now = save[t].now /\ save'[t].i = save[t].i
      BY <3>2
    <3>6. save' \in [Savers -> [pc : SavePcs, now : 0 .. MaxTime, i : 0 .. MaxSeq]]
      BY <3>2
    <3>7. TypeInv'
      BY <3>1, <3>2, <3>3, <3>4, <3>5, <3>6
    <3>8. PublishedInv'
      BY <3>2, <3>3, <3>4, <3>5
    <3> QED BY <3>7, <3>8
  <2> QED BY <2>1, <2>2
<1>6. CASE SyncDirectory(s) BY <1>6 DEF SyncDirectory
<1>7. CASE SaveFails(s) BY <1>7 DEF SaveFails
<1> QED BY <1>1, <1>2, <1>3, <1>4, <1>5, <1>6, <1>7 DEF Save

\* A load changes only itself.
LEMMA LoadInv ==
  ASSUME IInv, Load
  PROVE  IInv'
<1> USE DEF IInv, TypeInv, PublishedInv, SessionTypeOK
<1>1. CASE \E failNewest \in BOOLEAN : LoadBegins(failNewest)
  BY <1>1 DEF LoadBegins, NoLoad
<1>2. CASE DirectoryListed BY <1>2 DEF DirectoryListed
<1>3. CASE FilesRead BY <1>3 DEF FilesRead
<1>4. CASE LoadReturns BY <1>4 DEF LoadReturns, NoLoad, Names
<1> QED BY <1>1, <1>2, <1>3, <1>4 DEF Load

\* Neither the clock, nor a kill, nor a loss of power spoils a file with a name:
\* it was synced.
LEMMA WorldInv ==
  ASSUME IInv, World \/ \E s \in Savers : Killed(s)
  PROVE  IInv'
<1> USE DEF IInv, TypeInv, PublishedInv, SessionTypeOK, SavePcs, Working
<1>1. CASE Tick BY <1>1, StoreAssumption DEF Tick
<1>2. CASE HomeKept BY <1>2 DEF HomeKept
<1>3. CASE \E s \in Savers : Killed(s) BY <1>3 DEF Killed, Goes
<1>4. CASE PowerFails
  <2>1. \A s \in Savers :
          /\ Stopped[s].pc = (IF save[s].pc \in Working THEN "dead" ELSE save[s].pc)
          /\ Stopped[s].now = save[s].now /\ Stopped[s].i = save[s].i
    BY DEF Stopped
  <2>2. Stopped \in [Savers -> [pc : SavePcs, now : 0 .. MaxTime, i : 0 .. MaxSeq]]
    BY DEF Stopped
  <2>3. TypeInv'
    BY <1>4, <2>1, <2>2 DEF PowerFails, Restricted, NoLoad, Names
  <2>4. PublishedInv'
    BY <1>4, <2>1 DEF PowerFails, Restricted
  <2> QED BY <2>3, <2>4
<1>5. CASE PowerTakesHome
  <2>1. \A s \in Savers :
          /\ Stopped[s].pc = (IF save[s].pc \in Working THEN "dead" ELSE save[s].pc)
          /\ Stopped[s].now = save[s].now /\ Stopped[s].i = save[s].i
    BY DEF Stopped
  <2>2. Stopped \in [Savers -> [pc : SavePcs, now : 0 .. MaxTime, i : 0 .. MaxSeq]]
    BY DEF Stopped
  <2>3. TypeInv'
    BY <1>5, <2>1, <2>2 DEF PowerTakesHome, Restricted, NoLoad, Names
  <2>4. PublishedInv'
    BY <1>5, <2>1 DEF PowerTakesHome, Restricted
  <2> QED BY <2>3, <2>4
<1> QED BY <1>1, <1>2, <1>3, <1>4, <1>5 DEF World

\* The invariant holds in every state of every behaviour.
LEMMA Invariance == StoreSpec => []IInv
<1>1. IInv /\ [StoreNext]_storeVars => IInv'
  <2> SUFFICES ASSUME IInv, [StoreNext]_storeVars PROVE IInv'
    OBVIOUS
  <2>1. CASE StoreNext
    BY <2>1, SaveInv, LoadInv, WorldInv DEF StoreNext
  <2>2. CASE UNCHANGED storeVars
    BY <2>2 DEF storeVars, IInv, TypeInv, PublishedInv, SessionTypeOK
  <2> QED BY <2>1, <2>2
<1> QED BY <1>1, InitInv, PTL DEF StoreSpec

-----------------------------------------------------------------------------
(* The order of names *)

\* newerFilename is a strict total order.
LEMMA NameOrder ==
  ASSUME NEW a \in Names, NEW b \in Names, NEW c \in Names
  PROVE  /\ ~newerFilename(a, a)
         /\ a # b => newerFilename(a, b) \/ newerFilename(b, a)
         /\ newerFilename(a, b) /\ newerFilename(b, c) => newerFilename(a, c)
<1>1. /\ a.at \in Int /\ a.seq \in Int /\ b.at \in Int /\ b.seq \in Int
      /\ c.at \in Int /\ c.seq \in Int
      /\ a.at = b.at /\ a.seq = b.seq => a = b
  BY StoreAssumption DEF Names
<1> QED BY <1>1 DEF newerFilename

\* There are finitely many names.
LEMMA NamesFinite == IsFiniteSet(Names)
<1> DEFINE Pairs == (1 .. MaxTime) \X (0 .. MaxSeq - 1)
           name == [p \in Pairs |-> [at |-> p[1], seq |-> p[2]]]
<1>1. IsFiniteSet(1 .. MaxTime) /\ IsFiniteSet(0 .. MaxSeq - 1)
  BY StoreAssumption, FS_Interval
<1>2. IsFiniteSet(Pairs)
  BY <1>1, FS_Product
<1>3. name \in [Pairs -> Names]
  BY DEF Names
<1>4. \A n \in Names : \E p \in Pairs : name[p] = n
  <2> SUFFICES ASSUME NEW n \in Names PROVE \E p \in Pairs : name[p] = n
    OBVIOUS
  <2>1. <<n.at, n.seq>> \in Pairs /\ name[<<n.at, n.seq>>] = n
    BY DEF Names
  <2> QED BY <2>1
<1> HIDE DEF Pairs, name
<1>5. name \in Surjection(Pairs, Names)
  BY <1>3, <1>4 DEF Surjection
<1> QED BY <1>2, <1>5, FS_Surjection

\* The place of a name among others: one more than those that are newer.
Place(n, ns) == Cardinality(Newer(n, ns)) + 1

\* Places are those of a sequence, and two names never share one.
LEMMA PlaceIs ==
  ASSUME NEW ns \in SUBSET Names, NEW n \in ns
  PROVE  /\ IsFiniteSet(ns) /\ IsFiniteSet(Newer(n, ns))
         /\ Place(n, ns) \in 1 .. Cardinality(ns)
         /\ \A m \in ns : newerFilename(m, n) => Place(m, ns) < Place(n, ns)
<1>1. IsFiniteSet(ns) /\ \A S \in SUBSET ns : IsFiniteSet(S) /\ Cardinality(S) \in Nat
  BY NamesFinite, FS_Subset, FS_CardinalityType
<1>2. Newer(n, ns) \in SUBSET (ns \ {n})
  BY NameOrder DEF Newer
<1>3. Cardinality(Newer(n, ns)) <= Cardinality(ns \ {n}) /\ Cardinality(ns \ {n}) = Cardinality(ns) - 1
  BY <1>1, <1>2, FS_Subset, FS_RemoveElement
<1>4. Place(n, ns) \in 1 .. Cardinality(ns)
  BY <1>1, <1>2, <1>3 DEF Place
<1>5. ASSUME NEW m \in ns, newerFilename(m, n) PROVE Place(m, ns) < Place(n, ns)
  <2>1. /\ Newer(m, ns) \subseteq Newer(n, ns) \ {m} /\ m \in Newer(n, ns)
        /\ Newer(m, ns) \in SUBSET ns /\ Newer(n, ns) \in SUBSET ns
    BY <1>5, NameOrder DEF Newer
  <2>2. /\ Cardinality(Newer(m, ns)) <= Cardinality(Newer(n, ns) \ {m})
        /\ Cardinality(Newer(n, ns) \ {m}) = Cardinality(Newer(n, ns)) - 1
    BY <1>1, <2>1, FS_Subset, FS_RemoveElement
  <2> QED BY <1>1, <2>1, <2>2 DEF Place
<1> QED BY <1>1, <1>2, <1>4, <1>5

\* Each place is taken.
LEMMA PlaceTaken ==
  ASSUME NEW ns \in SUBSET Names, NEW k \in 1 .. Cardinality(ns)
  PROVE  \E n \in ns : Place(n, ns) = k
<1> DEFINE place == [n \in ns |-> Place(n, ns)]
           places == 1 .. Cardinality(ns)
<1>1. IsFiniteSet(ns) /\ Cardinality(ns) \in Nat
  BY NamesFinite, FS_Subset, FS_CardinalityType
<1>2. IsFiniteSet(places) /\ Cardinality(places) = Cardinality(ns)
  BY <1>1, FS_Interval
<1>3. place \in [ns -> places]
  BY PlaceIs
<1>4. ASSUME NEW m \in ns, NEW n \in ns, place[m] = place[n] PROVE m = n
  BY <1>1, <1>4, PlaceIs, NameOrder
<1>5. place \in Injection(ns, places)
  BY <1>3, <1>4 DEF Injection, IsInjective
<1>6. place \in Surjection(ns, places)
  <2> HIDE DEF place, places
  <2> QED BY <1>1, <1>2, <1>5, FS_Injection
<1>7. k \in places
  OBVIOUS
<1> HIDE DEF places
<1>8. \E n \in ns : place[n] = k
  BY <1>6, <1>7 DEF Surjection
<1> QED BY <1>8

\* Sorted lists each name once, the newest in front.
LEMMA SortedIs ==
  ASSUME NEW ns \in SUBSET Names
  PROVE  /\ IsFiniteSet(ns) /\ Cardinality(ns) \in Nat /\ (ns # {} => Cardinality(ns) >= 1)
         /\ Sorted(ns) \in [1 .. Cardinality(ns) -> ns]
         /\ \A i, j \in 1 .. Cardinality(ns) : Sorted(ns)[i] = Sorted(ns)[j] => i = j
         /\ \A n \in ns : \E k \in 1 .. Cardinality(ns) : Sorted(ns)[k] = n
         /\ \A n \in ns : ~newerFilename(n, Sorted(ns)[1])
<1>1. IsFiniteSet(ns) /\ Cardinality(ns) \in Nat /\ (ns # {} => Cardinality(ns) >= 1)
  BY NamesFinite, FS_Subset, FS_CardinalityType, FS_EmptySet
<1>2. \A n \in ns : Cardinality(Newer(n, ns)) \in Nat
  BY PlaceIs, FS_CardinalityType
<1>3. ASSUME NEW k \in 1 .. Cardinality(ns) PROVE Sorted(ns)[k] \in ns /\ Place(Sorted(ns)[k], ns) = k
  <2>1. \E n \in ns : Cardinality(Newer(n, ns)) = k - 1
    BY <1>1, <1>2, PlaceTaken DEF Place
  <2>2. Sorted(ns)[k] \in ns /\ Cardinality(Newer(Sorted(ns)[k], ns)) = k - 1
    BY <2>1 DEF Sorted
  <2> QED BY <1>1, <2>2 DEF Place
<1>4. ASSUME NEW m \in ns, NEW n \in ns, Place(m, ns) = Place(n, ns) PROVE m = n
  BY <1>1, <1>4, PlaceIs, NameOrder
<1>5. \A n \in ns : Place(n, ns) \in 1 .. Cardinality(ns)
  BY PlaceIs
<1>6. ASSUME NEW n \in ns PROVE ~newerFilename(n, Sorted(ns)[1])
  <2>1. 1 \in 1 .. Cardinality(ns)
    BY <1>1, <1>6
  <2>2. Sorted(ns)[1] \in ns /\ Place(Sorted(ns)[1], ns) = 1
    BY <1>3, <2>1
  <2> QED BY <1>1, <1>5, <1>6, <2>2, PlaceIs
<1>7. Sorted(ns) \in [1 .. Cardinality(ns) -> ns]
  BY <1>3 DEF Sorted
<1> QED BY <1>1, <1>3, <1>4, <1>5, <1>6, <1>7

-----------------------------------------------------------------------------
(* What the promise of the store rests on *)

Named(s) == NameOf(s) \in DOMAIN dir /\ dir[NameOf(s)] = s

\* The names a call tried before the one it is at.
Below(s) == {n \in Names : n.at = save[s].now /\ n.seq < save[s].i}

\* A call tries the names of its instant in order and passes over those that are
\* taken; what it acknowledges is on the disk, with the names before it.
HeldInv ==
  /\ \A n \in DOMAIN dir : n = NameOf(dir[n])
  /\ \A s \in Savers :
       /\ save[s].now <= clock
       /\ save[s].pc \in {"begun", "created", "written"} => save[s].i = 0
       /\ save[s].pc \in {"synced", "linked"} => Below(s) \subseteq DOMAIN dir
       /\ save[s].pc = "linked" => Named(s)
  /\ \A s \in acked :
       /\ save[s].pc = "ok" /\ Named(s)
       /\ NameOf(s) \in durable /\ Below(s) \subseteq durable

\* What was acknowledged when a call began has an older name than the one it gets.
OrderInv ==
  \A s \in Savers : \A t \in prior[s] :
    /\ t \in acked /\ save[t].now <= save[s].now
    /\ Named(s) => newerFilename(NameOf(s), NameOf(t))

\* A load has at least the names of what was acknowledged when it began.
ListInv ==
  /\ load.failed = FALSE
  /\ load.pc \in {"reading", "listed"} =>
       /\ load.seen \subseteq DOMAIN dir
       /\ \A s \in load.asof : s \in acked /\ NameOf(s) \in load.seen

RInv == IInv /\ HeldInv /\ OrderInv /\ ListInv

\* A call that goes on without touching names, the clock and a kill keep all that.
LEMMA StayInv ==
  ASSUME RInv, IInv', UNCHANGED <<dir, durable, acked, prior, load>>, clock' >= clock,
         \A t \in Savers :
           /\ save'[t].now = save[t].now /\ save'[t].i = save[t].i
           /\ save'[t].pc \in {"begun", "created", "written"} => save[t].i = 0
           /\ save'[t].pc = "synced" => save[t].i = 0 \/ save[t].pc = "synced"
           /\ save'[t].pc = "linked" => save[t].pc = "linked"
           /\ save[t].pc = "ok" => save'[t].pc = "ok"
  PROVE  RInv'
<1> USE DEF RInv, IInv, TypeInv, SessionTypeOK
<1>1. \A t \in Savers : NameOf(t)' = NameOf(t) /\ Below(t)' = Below(t) /\ Named(t)' = Named(t)
  BY DEF NameOf, Below, Named
<1>2. \A t \in Savers : save[t].i = 0 => Below(t) = {}
  BY DEF Below, Names
<1>3. HeldInv'
  BY <1>1, <1>2 DEF HeldInv
<1>4. OrderInv'
  BY <1>1 DEF OrderInv
<1>5. ListInv'
  BY <1>1 DEF ListInv
<1> QED BY <1>3, <1>4, <1>5

\* A call begins after everything that is acknowledged, and without a name.
LEMMA BeginsInv ==
  ASSUME RInv, IInv', NEW s \in Savers, SaveBegins(s)
  PROVE  RInv'
<1> USE DEF RInv, IInv, TypeInv, SessionTypeOK
<1> DEFINE b == [pc |-> "begun", now |-> clock, i |-> 0]
<1>1. /\ save' = [save EXCEPT ![s] = b] /\ prior' = [prior EXCEPT ![s] = acked]
      /\ save[s].pc = "idle"
      /\ UNCHANGED <<clock, dir, durable, acked, load>>
  BY DEF SaveBegins
<1>2. b.pc = "begun" /\ b.now = clock /\ b.i = 0
  OBVIOUS
<1> HIDE DEF b
<1>3. /\ \A t \in Savers : save'[t] = IF t = s THEN b ELSE save[t]
      /\ \A t \in Savers : prior'[t] = IF t = s THEN acked ELSE prior[t]
  BY <1>1
<1>4. \A t \in Savers \ {s} : NameOf(t)' = NameOf(t) /\ Below(t)' = Below(t) /\ Named(t)' = Named(t)
  BY <1>1, <1>3 DEF NameOf, Below, Named
<1>5. s \notin acked /\ \A n \in DOMAIN dir : dir[n] # s
  BY <1>1 DEF HeldInv, PublishedInv
<1>6. ~Named(s)'
  BY <1>1, <1>5 DEF Named
<1>7. HeldInv'
  BY <1>1, <1>2, <1>3, <1>4, <1>5, <1>6 DEF HeldInv
<1>8. OrderInv'
  BY <1>1, <1>2, <1>3, <1>4, <1>5, <1>6 DEF HeldInv, OrderInv
<1>9. ListInv'
  BY <1>1, <1>4, <1>5 DEF ListInv
<1> QED BY <1>7, <1>8, <1>9

\* A name that is taken joins those the call has tried.
LEMMA PassesInv ==
  ASSUME RInv, IInv', NEW s \in Savers, LinkName(s), NameOf(s) \in DOMAIN dir
  PROVE  RInv'
<1> USE DEF RInv, IInv, TypeInv, SessionTypeOK
<1>1. /\ save[s].pc = "synced" /\ save'[s].pc \in {"synced", "failed"}
      /\ save'[s].now = save[s].now /\ save'[s].i = save[s].i + 1
      /\ \A t \in Savers \ {s} : save'[t] = save[t]
      /\ UNCHANGED <<clock, dir, durable, acked, prior, load>>
  <2> DEFINE pc == IF save[s].i + 1 = MaxSeq THEN "failed" ELSE save[s].pc
  <2>1. /\ save' = [save EXCEPT ![s].i = @ + 1, ![s].pc = pc] /\ save[s].pc = "synced"
        /\ UNCHANGED <<clock, dir, durable, acked, prior, load>>
    BY DEF LinkName
  <2>2. pc \in {"synced", "failed"}
    BY <2>1
  <2> HIDE DEF pc
  <2> QED BY <2>1, <2>2
<1>2. \A t \in Savers \ {s} : NameOf(t)' = NameOf(t) /\ Below(t)' = Below(t) /\ Named(t)' = Named(t)
  BY <1>1 DEF NameOf, Below, Named
<1>3. Below(s)' \subseteq Below(s) \cup {NameOf(s)}
  <2> SUFFICES ASSUME NEW n \in Names, n.at = save[s].now, n.seq < save[s].i + 1,
                      ~(n.seq < save[s].i)
               PROVE  n = NameOf(s)
    BY <1>1 DEF Below
  <2> n.seq \in Int /\ save[s].i \in Int
    BY StoreAssumption DEF Names
  <2> HIDE DEF RInv, IInv, TypeInv, SessionTypeOK
  <2>1. n.seq = save[s].i
    OBVIOUS
  <2> QED BY <2>1 DEF Names, NameOf
<1>4. s \notin acked /\ \A n \in DOMAIN dir : dir[n] # s
  BY <1>1 DEF HeldInv, PublishedInv
<1>5. ~Named(s)'
  BY <1>1, <1>4 DEF Named
<1>6. HeldInv'
  BY <1>1, <1>2, <1>3, <1>4, <1>5 DEF HeldInv
<1>7. OrderInv'
  BY <1>1, <1>2, <1>4, <1>5 DEF OrderInv
<1>8. ListInv'
  BY <1>1, <1>2, <1>4 DEF ListInv
<1> QED BY <1>6, <1>7, <1>8

\* A call that gets its name is newer than what was acknowledged when it began:
\* the names up to theirs are taken.
LEMMA LinksInv ==
  ASSUME RInv, IInv', NEW s \in Savers, LinkName(s), NameOf(s) \notin DOMAIN dir
  PROVE  RInv'
<1> USE DEF RInv, IInv, TypeInv, SessionTypeOK
<1>1. /\ dir' = [n \in DOMAIN dir \cup {NameOf(s)} |-> IF n = NameOf(s) THEN s ELSE dir[n]]
      /\ save' = [save EXCEPT ![s].pc = "linked"] /\ save[s].pc = "synced"
      /\ UNCHANGED <<clock, durable, acked, prior, load>>
  BY DEF LinkName, Goes
<1>2. /\ DOMAIN dir' = DOMAIN dir \cup {NameOf(s)}
      /\ \A n \in DOMAIN dir' : dir'[n] = IF n = NameOf(s) THEN s ELSE dir[n]
      /\ \A t \in Savers : /\ save'[t].pc = (IF t = s THEN "linked" ELSE save[t].pc)
                           /\ save'[t].now = save[t].now /\ save'[t].i = save[t].i
  BY <1>1
<1>3. \A t \in Savers : NameOf(t)' = NameOf(t) /\ Below(t)' = Below(t)
  BY <1>2 DEF NameOf, Below
<1>4. s \notin acked /\ \A n \in DOMAIN dir : dir[n] # s
  BY <1>1 DEF HeldInv, PublishedInv
<1>5. Named(s)' /\ \A t \in Savers \ {s} : Named(t)' = Named(t)
  BY <1>2, <1>3 DEF Named
<1>6. HeldInv'
  BY <1>1, <1>2, <1>3, <1>4, <1>5 DEF HeldInv
<1>7. ASSUME NEW t \in prior[s] PROVE newerFilename(NameOf(s), NameOf(t))
  <2>1. /\ t \in Savers /\ t \in acked /\ save[t].now <= save[s].now
        /\ NameOf(t) \in durable /\ Below(t) \subseteq durable
    BY DEF HeldInv, OrderInv
  <2>2. NameOf(s) \notin Below(t) \cup {NameOf(t)}
    BY <2>1
  <2>3. NameOf(s) \in Names
    BY <1>2
  <2>4. /\ NameOf(s).at = save[s].now /\ NameOf(s).seq = save[s].i
        /\ NameOf(t).at = save[t].now /\ NameOf(t).seq = save[t].i
        /\ save[s].now \in Int /\ save[s].i \in Int /\ save[t].now \in Int /\ save[t].i \in Int
    BY <2>1 DEF NameOf
  <2> HIDE DEF RInv, IInv, TypeInv, SessionTypeOK
  <2>5. CASE save[t].now = save[s].now
    <3>1. save[s].i # save[t].i
      BY <2>2, <2>5 DEF NameOf
    <3> HIDE DEF NameOf
    <3>2. ~(save[s].i < save[t].i)
      BY <2>2, <2>3, <2>4, <2>5 DEF Below
    <3> QED BY <2>4, <2>5, <3>1, <3>2 DEF newerFilename
  <2>6. CASE save[t].now # save[s].now
    BY <2>1, <2>4, <2>6 DEF newerFilename
  <2> QED BY <2>5, <2>6
<1>8. OrderInv'
  BY <1>1, <1>2, <1>3, <1>4, <1>5, <1>7 DEF OrderInv
<1>9. ListInv'
  BY <1>1, <1>2, <1>3 DEF ListInv
<1> QED BY <1>6, <1>8, <1>9

\* The directory is synced: every name in it is on the disk.
LEMMA SyncsInv ==
  ASSUME RInv, IInv', NEW s \in Savers, SyncDirectory(s)
  PROVE  RInv'
<1> USE DEF RInv, IInv, TypeInv, SessionTypeOK
<1>1. /\ durable' = DOMAIN dir /\ acked' = acked \cup {s}
      /\ save' = [save EXCEPT ![s].pc = "ok"] /\ save[s].pc = "linked"
      /\ UNCHANGED <<clock, dir, prior, load>>
  BY DEF SyncDirectory, Goes
<1>2. \A t \in Savers : /\ save'[t].pc = (IF t = s THEN "ok" ELSE save[t].pc)
                        /\ save'[t].now = save[t].now /\ save'[t].i = save[t].i
  BY <1>1
<1>3. \A t \in Savers : NameOf(t)' = NameOf(t) /\ Below(t)' = Below(t) /\ Named(t)' = Named(t)
  BY <1>1, <1>2 DEF NameOf, Below, Named
<1>4. HeldInv'
  BY <1>1, <1>2, <1>3 DEF HeldInv, Named
<1>5. OrderInv'
  BY <1>1, <1>2, <1>3 DEF OrderInv
<1>6. ListInv'
  BY <1>1, <1>3 DEF ListInv
<1> QED BY <1>4, <1>5, <1>6

\* A loss of power leaves the names that are on the disk.
LEMMA PowerInv ==
  ASSUME RInv, IInv', PowerFails \/ PowerTakesHome
  PROVE  RInv'
<1> USE DEF RInv, IInv, TypeInv, SessionTypeOK
<1>1. \A t \in Savers :
        /\ save'[t].pc = (IF save[t].pc \in Working THEN "dead" ELSE save[t].pc)
        /\ save'[t].now = save[t].now /\ save'[t].i = save[t].i
  BY DEF PowerFails, PowerTakesHome, Stopped
<1>2. \A t \in Savers : NameOf(t)' = NameOf(t) /\ Below(t)' = Below(t)
  BY <1>1 DEF NameOf, Below
<1>3. load' = NoLoad /\ clock' = clock
  BY DEF PowerFails, PowerTakesHome
<1>4. ListInv'
  BY <1>3 DEF ListInv, NoLoad
<1>5. CASE PowerFails
  <2>1. /\ durable \subseteq durable' /\ DOMAIN dir' = durable' /\ durable' \subseteq DOMAIN dir
        /\ \A n \in DOMAIN dir' : dir'[n] = dir[n]
        /\ UNCHANGED <<acked, prior>>
    BY <1>5 DEF PowerFails, Restricted
  <2>2. \A t \in Savers : /\ Named(t)' => Named(t)
                          /\ t \in acked /\ Named(t) => Named(t)'
    BY <1>2, <2>1 DEF Named, HeldInv
  <2>3. HeldInv'
    BY <1>1, <1>2, <1>3, <2>1, <2>2 DEF HeldInv, Working
  <2>4. OrderInv'
    BY <1>1, <1>2, <2>1, <2>2 DEF OrderInv
  <2> QED BY <1>4, <2>3, <2>4
<1>6. CASE PowerTakesHome
  <2>1. DOMAIN dir' = {} /\ acked' = {} /\ prior' = [s \in Savers |-> {}]
    BY <1>6 DEF PowerTakesHome, Restricted
  <2>2. HeldInv'
    BY <1>1, <1>3, <2>1 DEF HeldInv, Working
  <2>3. OrderInv'
    BY <2>1 DEF OrderInv
  <2> QED BY <1>4, <2>2, <2>3
<1> QED BY <1>5, <1>6

\* A load begins with what is acknowledged, and is read as it was listed.
LEMMA LoadsInv ==
  ASSUME RInv, IInv', Load, load'.failed = FALSE
  PROVE  RInv'
<1> USE DEF RInv, IInv, TypeInv, SessionTypeOK
<1>1. UNCHANGED <<clock, save, dir, durable, acked, prior>>
  BY DEF Load, LoadBegins, DirectoryListed, FilesRead, LoadReturns
<1>2. HeldInv' /\ OrderInv'
  BY <1>1 DEF HeldInv, OrderInv, NameOf, Below, Named
<1>3. CASE \E failNewest \in BOOLEAN : LoadBegins(failNewest)
  <2>1. load'.pc = "reading" /\ load'.seen = DOMAIN dir /\ load'.asof = acked
    BY <1>3 DEF LoadBegins, NoLoad
  <2> QED BY <1>1, <1>2, <2>1 DEF ListInv, HeldInv, NameOf
<1>4. CASE DirectoryListed
  <2>1. PICK late \in SUBSET (DOMAIN dir \ load.seen) :
          load' = [load EXCEPT !.pc = "listed", !.seen = @ \cup late]
    BY <1>4 DEF DirectoryListed
  <2>2. load'.seen = load.seen \cup late /\ load'.asof = load.asof /\ load.pc = "reading"
    BY <1>4, <2>1 DEF DirectoryListed
  <2> QED BY <1>1, <1>2, <2>2 DEF ListInv, NameOf
<1>5. CASE FilesRead
  <2>1. load'.pc = "done"
    BY <1>5 DEF FilesRead
  <2> QED BY <1>2, <2>1 DEF ListInv
<1>6. CASE LoadReturns
  <2>1. load'.pc = "idle"
    BY <1>6 DEF LoadReturns, NoLoad
  <2> QED BY <1>2, <2>1 DEF ListInv
<1> QED BY <1>3, <1>4, <1>5, <1>6 DEF Load

\* What a load finds is what the store promises: it has every file whole, misses
\* nothing of what was acknowledged, and has the newest in front.
LEMMA FilesReadGives ==
  ASSUME RInv, FilesRead
  PROVE  /\ load'.failed = FALSE /\ load'.pc = "done" /\ load'.asof = load.asof
         /\ load'.result \in Promise!Orders
         /\ Promise!Answers(load.asof, load'.result)
<1> DEFINE ns    == load.seen
           found == [k \in 1 .. Cardinality(ns) |-> dir[Sorted(ns)[k]]]
           files == {dir[n] : n \in ns}
<1>1. /\ ns \in SUBSET Names /\ ns \subseteq DOMAIN dir /\ load.asof \subseteq Savers
      /\ \A n \in ns : dir[n] \in Savers /\ data[dir[n]] = "whole" /\ n = NameOf(dir[n])
      /\ \A s \in load.asof : s \in acked /\ NameOf(s) \in ns
  BY DEF FilesRead, RInv, IInv, TypeInv, SessionTypeOK, PublishedInv, HeldInv, ListInv
<1>2. /\ IsFiniteSet(ns) /\ Cardinality(ns) \in Nat /\ (ns # {} => Cardinality(ns) >= 1)
      /\ Sorted(ns) \in [1 .. Cardinality(ns) -> ns]
      /\ \A i, j \in 1 .. Cardinality(ns) : Sorted(ns)[i] = Sorted(ns)[j] => i = j
      /\ \A n \in ns : \E k \in 1 .. Cardinality(ns) : Sorted(ns)[k] = n
      /\ \A n \in ns : ~newerFilename(n, Sorted(ns)[1])
  BY <1>1, SortedIs
<1>3. {n \in ns : data[dir[n]] = "whole"} = ns
  BY <1>1
<1>4. readable(ns) = Sorted(ns)
  BY <1>3 DEF readable
<1>5. ~loadFails(ns, load.failNewest)
  BY <1>1, <1>2 DEF loadFails
<1>6. /\ load'.failed = FALSE /\ load'.pc = "done" /\ load'.asof = load.asof
      /\ load'.result = found
  <2>1. DOMAIN Sorted(ns) = 1 .. Cardinality(ns)
    BY <1>2
  <2>2. [k \in DOMAIN readable(ns) |-> dir[readable(ns)[k]]] = found
    BY <1>4, <2>1
  <2>3. load' = [load EXCEPT !.pc = "done", !.failed = loadFails(ns, load.failNewest),
                   !.result = IF loadFails(ns, load.failNewest) THEN <<>> ELSE found]
    BY <2>2 DEF FilesRead
  <2>4. {"pc", "asof", "result", "failed"} \subseteq DOMAIN load
    BY DEF RInv, IInv, TypeInv
  <2>5. loadFails(ns, load.failNewest) = FALSE
    BY <1>5 DEF loadFails
  <2> HIDE DEF found, ns
  <2> QED BY <2>3, <2>4, <2>5
<1> HIDE DEF ns
<1>7. \A i, j \in 1 .. Cardinality(ns) : found[i] = found[j] => i = j
  BY <1>1, <1>2
<1>8. found \in [1 .. Cardinality(ns) -> files]
  BY <1>2
<1>9. \A f \in files : \E k \in 1 .. Cardinality(ns) : found[k] = f
  BY <1>2
<1>10. Cardinality(files) = Cardinality(ns)
  <2> HIDE DEF found, files
  <2>1. found \in Bijection(1 .. Cardinality(ns), files)
    BY <1>7, <1>8, <1>9 DEF Bijection, Injection, Surjection, IsInjective
  <2>2. ExistsBijection(1 .. Cardinality(ns), files)
    BY <2>1 DEF ExistsBijection
  <2> QED BY <1>2, <2>2, FS_CountingElements
<1>11. found \in Promise!Orders
  <2>1. files \in SUBSET Savers
    BY <1>1
  <2> HIDE DEF found, files
  <2>2. Promise!Cardinality(files) = Cardinality(ns)
    BY <1>10 DEF Promise!Cardinality, Cardinality
  <2>3. found \in Promise!SetToSeqs(files)
    BY <1>7, <1>8, <2>2 DEF Promise!SetToSeqs
  <2> QED BY <2>1, <2>3 DEF Promise!Orders
<1>12. load.asof \subseteq Promise!ToSet(found)
  <2> SUFFICES ASSUME NEW s \in load.asof PROVE \E k \in 1 .. Cardinality(ns) : found[k] = s
    BY DEF Promise!ToSet
  <2>1. NameOf(s) \in ns /\ dir[NameOf(s)] = s
    BY <1>1 DEF RInv, HeldInv, Named
  <2> QED BY <1>2, <2>1
<1>13. ASSUME NEW s \in load.asof PROVE Head(found) \notin prior[s]
  <2>1. 1 \in 1 .. Cardinality(ns)
    BY <1>1, <1>2, <1>13
  <2>2. Head(found) = dir[Sorted(ns)[1]]
    BY <1>2, <2>1
  <2>3. Sorted(ns)[1] \in ns /\ Sorted(ns)[1] = NameOf(dir[Sorted(ns)[1]])
    BY <1>1, <1>2, <2>1
  <2>4. s \in Savers /\ s \in acked /\ NameOf(s) \in ns /\ Named(s)
    BY <1>1 DEF RInv, HeldInv
  <2>5. ~newerFilename(NameOf(s), Sorted(ns)[1])
    BY <1>2, <2>4
  <2> QED BY <2>2, <2>3, <2>4, <2>5 DEF RInv, OrderInv
<1> QED BY <1>6, <1>11, <1>12, <1>13 DEF Promise!Answers

\* The invariant holds in every state of every behaviour.
LEMMA RefinementInvariance == StoreSpec => []RInv
<1>1. StoreInit /\ IInv => RInv
  BY DEF StoreInit, RInv, HeldInv, OrderInv, ListInv, NoLoad
<1>2. RInv /\ IInv' /\ [StoreNext]_storeVars => RInv'
  <2> SUFFICES ASSUME RInv, IInv', [StoreNext]_storeVars PROVE RInv'
    OBVIOUS
  <2> clock \in 1 .. MaxTime
    BY DEF RInv, IInv, TypeInv, SessionTypeOK
  <2>1. ASSUME NEW s \in Savers,
               CreateTemporary(s) \/ WriteTemporary(s) \/ SyncTemporary(s) \/ SaveFails(s) \/ Killed(s)
        PROVE  RInv'
    <3>1. /\ UNCHANGED <<clock, dir, durable, acked, prior, load>>
          /\ \/ save[s].pc = "begun" /\ save' = [save EXCEPT ![s].pc = "created"]
             \/ save[s].pc = "created" /\ save' = [save EXCEPT ![s].pc = "written"]
             \/ save[s].pc = "written" /\ save' = [save EXCEPT ![s].pc = "synced"]
             \/ save[s].pc \in Working /\ save' = [save EXCEPT ![s].pc = "failed"]
             \/ save[s].pc \in Working /\ save' = [save EXCEPT ![s].pc = "dead"]
      BY <2>1 DEF CreateTemporary, WriteTemporary, SyncTemporary, SaveFails, Killed, Goes
    <3>2. \A t \in Savers :
            /\ save'[t].now = save[t].now /\ save'[t].i = save[t].i
            /\ save'[t].pc \in {"begun", "created", "written"} => save[t].i = 0
            /\ save'[t].pc = "synced" => save[t].i = 0 \/ save[t].pc = "synced"
            /\ save'[t].pc = "linked" => save[t].pc = "linked"
            /\ save[t].pc = "ok" => save'[t].pc = "ok"
      BY <3>1 DEF RInv, IInv, TypeInv, HeldInv, Working
    <3> QED BY <3>1, <3>2, StayInv
  <2>2. CASE Tick \/ HomeKept \/ UNCHANGED storeVars
    <3>1. clock' >= clock /\ UNCHANGED <<save, dir, durable, acked, prior, load>>
      BY <2>2 DEF Tick, HomeKept, storeVars
    <3> QED BY <3>1, StayInv DEF RInv, HeldInv
  <2>3. CASE PowerFails \/ PowerTakesHome
    BY <2>3, PowerInv
  <2>4. CASE Load
    <3>1. load'.failed = FALSE
      <4>1. CASE FilesRead
        BY <4>1, FilesReadGives
      <4>2. CASE DirectoryListed
        BY <4>2 DEF DirectoryListed, RInv, ListInv, IInv, TypeInv
      <4>3. CASE LoadReturns
        BY <4>3 DEF LoadReturns, NoLoad
      <4>4. CASE \E failNewest \in BOOLEAN : LoadBegins(failNewest)
        BY <4>4 DEF LoadBegins, NoLoad
      <4> QED BY <2>4, <4>1, <4>2, <4>3, <4>4 DEF Load
    <3> QED BY <2>4, <3>1, LoadsInv
  <2>5. ASSUME NEW s \in Savers, SaveBegins(s) \/ LinkName(s) \/ SyncDirectory(s) PROVE RInv'
    BY <2>5, BeginsInv, PassesInv, LinksInv, SyncsInv
  <2> QED BY <2>1, <2>2, <2>3, <2>4, <2>5 DEF StoreNext, Save, World
<1> QED BY <1>1, <1>2, Invariance, PTL DEF StoreSpec

-----------------------------------------------------------------------------
(* The refinement *)

\* What was acknowledged is there, before and after a step.
LEMMA StoredIs ==
  /\ RInv => StoredWhole = acked
  /\ RInv' => StoredWhole' = acked'
BY DEF RInv, IInv, PublishedInv, HeldInv, Named, StoredWhole

\* The calls of SaveSession either begin, or return nil, or do nothing the promise
\* knows of.
LEMMA SaveRefines ==
  ASSUME RInv, RInv', NEW s \in Savers, Save(s) \/ Killed(s)
  PROVE  [Promise!Next]_(Promise!promiseVars)
<1> StoredWhole = acked /\ StoredWhole' = acked'
  BY StoredIs
<1>1. UNCHANGED load /\ UNCHANGED LoadSeen /\ UNCHANGED (home = "kept")
  BY DEF Save, Killed, SaveBegins, CreateTemporary, WriteTemporary, SyncTemporary, LinkName,
     SyncDirectory, SaveFails, LoadSeen
<1>2. CASE SaveBegins(s)
  <2>1. Promise!SaveBegins(s)
    BY <1>1, <1>2 DEF SaveBegins, Promise!SaveBegins
  <2> QED BY <2>1 DEF Promise!Next
<1>3. CASE SyncDirectory(s)
  <2>1. Promise!SaveReturns(s)
    BY <1>1, <1>3 DEF SyncDirectory, Promise!SaveReturns
  <2> QED BY <2>1 DEF Promise!Next
<1>4. CASE UNCHANGED <<acked, prior>>
  BY <1>1, <1>4 DEF Promise!promiseVars
<1>5. SaveBegins(s) \/ SyncDirectory(s) \/ UNCHANGED <<acked, prior>>
  BY DEF Save, Killed, CreateTemporary, WriteTemporary, SyncTemporary, LinkName, SaveFails
<1> QED BY <1>2, <1>3, <1>4, <1>5

\* Two loads of the promise with the same fields are the same.
LEMMA SameLoad ==
  ASSUME NEW p, NEW a, NEW r, NEW f, NEW one, NEW two,
         one \in [pc : {p}, asof : {a}, result : {r}, failed : {f}],
         two \in [pc : {p}, asof : {a}, result : {r}, failed : {f}]
  PROVE  one = two
OBVIOUS

\* A load begins, returns, and is forgotten; the listing of the directory is not seen.
LEMMA LoadRefines ==
  ASSUME RInv, RInv', Load
  PROVE  [Promise!Next]_(Promise!promiseVars)
<1> StoredWhole = acked /\ StoredWhole' = acked'
  BY StoredIs
<1>1. UNCHANGED <<acked, prior, home>>
  BY DEF Load, LoadBegins, DirectoryListed, FilesRead, LoadReturns
<1> /\ {"pc", "failNewest", "seen", "asof", "result", "failed"} \subseteq DOMAIN load
    /\ load.failed = FALSE
  BY DEF RInv, IInv, TypeInv, ListInv
<1>2. CASE \E failNewest \in BOOLEAN : LoadBegins(failNewest)
  <2>1. /\ load.pc = "idle" /\ load'.pc = "reading" /\ load'.asof = acked
        /\ load'.result = <<>> /\ load'.failed = FALSE
    BY <1>2 DEF LoadBegins, NoLoad
  <2>2. LoadSeen.pc = "idle"
    BY <2>1 DEF LoadSeen
  <2> DEFINE begun == [Promise!NoLoad EXCEPT !.pc = "reading", !.asof = acked]
  <2>3. LoadSeen' \in [pc : {"reading"}, asof : {acked}, result : {<<>>}, failed : {FALSE}]
    BY <2>1 DEF LoadSeen
  <2>4. begun \in [pc : {"reading"}, asof : {acked}, result : {<<>>}, failed : {FALSE}]
    BY DEF Promise!NoLoad
  <2>5. LoadSeen' = begun
    <3> HIDE DEF begun
    <3> QED BY <2>3, <2>4, SameLoad
  <2>6. Promise!LoadBegins
    BY <1>1, <2>2, <2>5 DEF Promise!LoadBegins
  <2> QED BY <2>6 DEF Promise!Next
<1>3. CASE DirectoryListed
  <2>1. /\ load.pc = "reading" /\ load'.pc = "listed" /\ load'.asof = load.asof
        /\ load'.result = load.result /\ load'.failed = load.failed
    BY <1>3 DEF DirectoryListed
  <2>2. UNCHANGED LoadSeen
    BY <2>1 DEF LoadSeen
  <2> QED BY <1>1, <2>2 DEF Promise!promiseVars
<1>4. CASE FilesRead
  <2>1. /\ load.pc = "listed" /\ load'.pc = "done" /\ load'.asof = load.asof
        /\ load'.failed = FALSE /\ load'.result \in Promise!Orders
        /\ Promise!Answers(load.asof, load'.result)
    BY <1>4, FilesReadGives DEF FilesRead
  <2> DEFINE fields == [pc : {"done"}, asof : {load.asof}, result : {load'.result},
                        failed : {FALSE}]
             after  == [LoadSeen EXCEPT !.pc = "done", !.result = load'.result]
  <2>2. LoadSeen.pc = "reading" /\ LoadSeen.asof = load.asof
    BY <2>1 DEF LoadSeen
  <2>3. LoadSeen' \in fields
    BY <2>1 DEF LoadSeen
  <2>4. after \in fields
    BY <2>1 DEF LoadSeen
  <2>5. LoadSeen' = after
    <3> HIDE DEF after
    <3> QED BY <2>3, <2>4, SameLoad
  <2>6. Promise!LoadReturns
    BY <1>1, <2>1, <2>2, <2>5 DEF Promise!LoadReturns
  <2> QED BY <2>6 DEF Promise!Next
<1>5. CASE LoadReturns
  <2>1. load.pc = "done" /\ load' = NoLoad
    BY <1>5 DEF LoadReturns
  <2>2. Promise!LoadEnds
    BY <1>1, <2>1 DEF Promise!LoadEnds, Promise!NoLoad, LoadSeen, NoLoad
  <2> QED BY <2>2 DEF Promise!Next
<1> QED BY <1>2, <1>3, <1>4, <1>5 DEF Load

\* A loss of power stops the store, or takes a directory that was not settled.
LEMMA WorldRefines ==
  ASSUME RInv, RInv', World
  PROVE  [Promise!Next]_(Promise!promiseVars)
<1> StoredWhole = acked /\ StoredWhole' = acked'
  BY StoredIs
<1>1. load' = NoLoad => LoadSeen' = Promise!NoLoad
  BY DEF LoadSeen, NoLoad, Promise!NoLoad
<1>2. CASE Tick
  BY <1>2 DEF Tick, LoadSeen, Promise!promiseVars
<1>3. CASE HomeKept
  <2>1. Promise!Settles
    BY <1>3 DEF HomeKept, LoadSeen, Promise!Settles
  <2> QED BY <2>1 DEF Promise!Next
<1>4. CASE PowerFails
  <2>1. Promise!Stops
    BY <1>1, <1>4 DEF PowerFails, Promise!Stops
  <2> QED BY <2>1 DEF Promise!Next
<1>5. CASE PowerTakesHome
  <2>1. Promise!Loses
    BY <1>1, <1>5 DEF PowerTakesHome, Promise!Loses
  <2> QED BY <2>1 DEF Promise!Next
<1> QED BY <1>2, <1>3, <1>4, <1>5 DEF World

-----------------------------------------------------------------------------
(* Results *)

\* The store keeps its types, and the retry loop of publishSessionFile ends at
\* its bound, for every number of savers and sequence numbers.
THEOREM TypeCorrect == StoreSpec => []SessionTypeOK
BY Invariance, PTL DEF IInv, TypeInv

\* A published name leads to a whole session, whatever is killed and whenever
\* the power fails (SaveSessionWithMetadata and publishSessionFile,
\* session.go), so no load meets a file it cannot decode.
THEOREM WholeAlways == StoreSpec => []WholeSessions
<1>1. IInv => WholeSessions
  BY DEF IInv, PublishedInv, WholeSessions
<1> QED BY <1>1, Invariance, PTL

\* The store keeps its promise for any number of processes, kills and losses of
\* power: what was acknowledged stays, and a load has all of it and the newest in
\* front (SaveSessionWithMetadata, publishSessionFile and loadSessions, session.go).
THEOREM ImplementsStoreAlways == StoreSpec => ImplementsStore
<1>1. StoreInit => Promise!Init
  BY DEF StoreInit, Promise!Init, StoredWhole, LoadSeen, NoLoad, Promise!NoLoad
<1>2. RInv /\ RInv' /\ [StoreNext]_storeVars => [Promise!Next]_(Promise!promiseVars)
  <2> SUFFICES ASSUME RInv, RInv', [StoreNext]_storeVars
               PROVE  [Promise!Next]_(Promise!promiseVars)
    OBVIOUS
  <2>1. CASE UNCHANGED storeVars
    BY <2>1 DEF storeVars, StoredWhole, LoadSeen, Promise!promiseVars
  <2> QED BY <2>1, SaveRefines, LoadRefines, WorldRefines DEF StoreNext
<1> QED BY <1>1, <1>2, RefinementInvariance, PTL DEF StoreSpec, ImplementsStore, Promise!Spec
=============================================================================
