------------------------ MODULE RunCoordinator_proofs ------------------------
(***************************************************************************)
(* Proofs about RunCoordinator for any sets of keys, callers and entry     *)
(* identities.  The inductive invariant is the conjunction of the type     *)
(* invariant, the agreement of the map with the owner fibers, the          *)
(* whereabouts of suspended callers, and the memory of wakes; none of the  *)
(* last three is preserved without the ones before it.                     *)
(***************************************************************************)
EXTENDS RunCoordinator, TLAPS

IInv == TypeOK /\ ActiveIffLive /\ WaitersHaveAnOwner /\ NoLostWake

\* An identity is live exactly when its fields are those of an entry.
LEMMA LiveEntry ==
    ASSUME TypeOK, NEW e \in Entries
    PROVE  Live(e) <=> entry[e] \in Entry
BY DEF TypeOK, Live, Entry, Unused

\* No entry looks like an unused identity.
LEMMA EntryUsed == \A r \in Entry : r # Unused
BY DEF Entry, Unused

\* Two keys never share an active entry.
LEMMA DistinctActive ==
    ASSUME TypeOK, ActiveIffLive, NEW k \in Keys, NEW l \in Keys,
           k # l, active[k] # None
    PROVE  active[l] # active[k]
BY DEF TypeOK, ActiveIffLive

\* A fresh entry has the type of one.
LEMMA StartedType ==
    ASSUME NEW k \in Keys, NEW b \in BOOLEAN
    PROVE  /\ Started(k, b) \in Entry
           /\ Started(k, b).key = k
           /\ Started(k, b).phase = "forked"
           /\ Started(k, b).force = b
           /\ Started(k, b).pendingWake = FALSE
           /\ Started(k, b).stopping = FALSE
BY DEF Started, Unused, Entry, Exits

\* The initial state satisfies the invariant.
LEMMA InitInv == Init => IInv
<1> SUFFICES ASSUME Init PROVE IInv
  OBVIOUS
<1>1. TypeOK
  BY DEF Init, TypeOK, Caller, IdleCaller
<1>2. ActiveIffLive
  BY NoneAssumption DEF Init, ActiveIffLive, Live
<1>3. WaitersHaveAnOwner
  BY DEF Init, WaitersHaveAnOwner, WaitsFor, IdleCaller
<1>4. NoLostWake
  BY DEF Init, NoLostWake
<1>5. QED
  BY <1>1, <1>2, <1>3, <1>4 DEF IInv

\* Taking a free identity for an idle key keeps the map and the owner fibers
\* in agreement.
LEMMA FreshActive ==
    ASSUME TypeOK, ActiveIffLive,
           NEW k \in Keys, NEW b \in BOOLEAN, NEW e \in Entries,
           Free(e), active[k] = None,
           active' = [active EXCEPT ![k] = e],
           entry' = [entry EXCEPT ![e] = Started(k, b)]
    PROVE  ActiveIffLive'
<1> SUFFICES ASSUME NEW l \in Keys, NEW f \in Entries
             PROVE  active'[l] = f <=> entry'[f] # Unused /\ entry'[f].key = l
  BY DEF ActiveIffLive, Live
<1>1. Started(k, b) # Unused /\ Started(k, b).key = k
  BY DEF Started, Unused
<1>2. CASE f = e
  <2>1. entry'[f] = Started(k, b)
    BY <1>2 DEF TypeOK
  <2>2. active'[l] = f <=> l = k
    BY <1>2 DEF TypeOK, Free
  <2>3. QED
    BY <1>1, <2>1, <2>2
<1>3. CASE f # e
  <2>1. entry'[f] = entry[f]
    BY <1>3 DEF TypeOK
  <2>2. active[l] = f <=> entry[f] # Unused /\ entry[f].key = l
    BY DEF ActiveIffLive, Live
  <2>3. active'[l] = f <=> active[l] = f
    BY <1>3, NoneAssumption DEF TypeOK
  <2>4. QED
    BY <2>1, <2>2, <2>3
<1>4. QED
  BY <1>2, <1>3

\* The steps of a call to run() preserve the invariant.
LEMMA RunInv ==
    ASSUME IInv, NEW c \in Callers, NEW k \in Keys, RunBody(c, k)
    PROVE  IInv'
<1> USE DEF IInv
<1>1. CASE JoinActive(c, k)
  BY <1>1, NoneAssumption
     DEF JoinActive, TypeOK, ActiveIffLive, WaitersHaveAnOwner, NoLostWake,
         Live, WaitsFor, Caller
<1>2. CASE AwaitStopping(c, k)
  BY <1>2, NoneAssumption
     DEF AwaitStopping, TypeOK, ActiveIffLive, WaitersHaveAnOwner, NoLostWake,
         Live, WaitsFor, Caller
<1>3. CASE StartForced(c, k)
  <2>1. PICK e \in Entries :
            /\ Free(e)
            /\ active' = [active EXCEPT ![k] = e]
            /\ entry' = [entry EXCEPT ![e] = Started(k, TRUE)]
            /\ caller' = [caller EXCEPT ![c] = [pc |-> "join", on |-> e]]
    BY <1>3 DEF StartForced
  <2>2. active[k] = None /\ owed' = owed
    BY <1>3 DEF StartForced
  <2>3. Started(k, TRUE) \in Entry /\ Started(k, TRUE).key = k
        /\ Started(k, TRUE) # Unused
    BY DEF Started, Unused, Entry, Exits
  <2>4. TypeOK'
    BY <2>1, <2>2, <2>3 DEF TypeOK, Caller
  <2>5. ActiveIffLive'
    BY <2>1, <2>2, FreshActive
  <2>6. WaitersHaveAnOwner'
    BY <2>1, <2>3 DEF TypeOK, WaitersHaveAnOwner, WaitsFor, Live, Free
  <2>7. NoLostWake'
    BY <2>1, <2>2, <2>3 DEF TypeOK, NoLostWake, Free
  <2>8. QED
    BY <2>4, <2>5, <2>6, <2>7
<1>4. QED
  BY <1>1, <1>2, <1>3 DEF RunBody

\* The steps of a call to wake() preserve the invariant.
LEMMA WakeInv ==
    ASSUME IInv, NEW k \in Keys, Wake(k)
    PROVE  IInv'
<1> USE DEF IInv
<1>1. CASE MarkPending(k)
  <2> DEFINE e == active[k]
  <2>1. e \in Entries /\ entry[e] \in Entry /\ entry[e].key = k
    BY <1>1, LiveEntry DEF MarkPending, TypeOK, ActiveIffLive
  <2>2. /\ entry' = [entry EXCEPT ![e].pendingWake = TRUE]
        /\ owed' = [owed EXCEPT ![k] = TRUE]
        /\ active' = active /\ caller' = caller
    BY <1>1 DEF MarkPending
  <2>3. /\ entry'[e] \in Entry
        /\ entry'[e].key = k
        /\ entry'[e].stopping = entry[e].stopping
        /\ entry'[e].pendingWake
        /\ \A f \in Entries \ {e} : entry'[f] = entry[f]
    BY <2>1, <2>2 DEF TypeOK, Entry
  <2> HIDE DEF e
  <2>4. TypeOK'
    BY <2>1, <2>2, <2>3 DEF TypeOK
  <2>5. \A f \in Entries : Live(f)' <=> Live(f)
    BY <2>1, <2>3, EntryUsed DEF Live
  <2>6. ActiveIffLive'
    BY <2>1, <2>2, <2>3, <2>5 DEF ActiveIffLive
  <2>7. WaitersHaveAnOwner'
    BY <2>1, <2>2, <2>3, <2>5 DEF WaitersHaveAnOwner, WaitsFor
  <2>8. NoLostWake'
    <3> SUFFICES ASSUME NEW l \in Keys, owed'[l]
                 PROVE  /\ active'[l] # None
                        /\ \/ entry'[active'[l]].pendingWake
                           \/ /\ entry'[active'[l]].phase = "forked"
                              /\ ~entry'[active'[l]].stopping
      BY DEF NoLostWake
    <3>1. CASE l = k
      BY <3>1, <2>1, <2>2, <2>3, NoneAssumption DEF e
    <3>2. CASE l # k
      <4>1. active[l] # e
        BY <3>2, <2>1, DistinctActive, NoneAssumption DEF e
      <4>2. owed[l]
        BY <2>2, <3>2 DEF TypeOK
      <4>3. QED
        BY <4>1, <4>2, <2>2, <2>3 DEF TypeOK, NoLostWake
    <3>3. QED
      BY <3>1, <3>2
  <2>9. QED
    BY <2>4, <2>6, <2>7, <2>8
<1>2. CASE StartUnforced(k)
  <2>1. PICK e \in Entries :
            /\ Free(e)
            /\ active' = [active EXCEPT ![k] = e]
            /\ entry' = [entry EXCEPT ![e] = Started(k, FALSE)]
    BY <1>2 DEF StartUnforced
  <2>2. /\ active[k] = None
        /\ owed' = [owed EXCEPT ![k] = TRUE]
        /\ caller' = caller
    BY <1>2 DEF StartUnforced
  <2>3. /\ Started(k, FALSE) \in Entry
        /\ Started(k, FALSE).phase = "forked"
        /\ Started(k, FALSE).stopping = FALSE
    BY DEF Started, Unused, Entry, Exits
  <2>4. TypeOK'
    BY <2>1, <2>2, <2>3 DEF TypeOK
  <2>5. ActiveIffLive'
    BY <2>1, <2>2, FreshActive
  <2>6. WaitersHaveAnOwner'
    BY <2>1, <2>2 DEF TypeOK, WaitersHaveAnOwner, WaitsFor, Live, Free
  <2>7. NoLostWake'
    BY <2>1, <2>2, <2>3, NoneAssumption DEF TypeOK, NoLostWake, Free
  <2>8. QED
    BY <2>4, <2>5, <2>6, <2>7
<1>3. QED
  BY <1>1, <1>2 DEF Wake

\* A call to interrupt() preserves the invariant.
LEMMA InterruptInv ==
    ASSUME IInv, NEW c \in Callers, NEW k \in Keys, Interrupt(c, k)
    PROVE  IInv'
<1> USE DEF IInv
<1> DEFINE e == active[k]
<1>1. e \in Entries /\ entry[e] \in Entry /\ entry[e].key = k
  BY LiveEntry DEF Interrupt, TypeOK, ActiveIffLive
<1>2. /\ entry' = [entry EXCEPT ![e].stopping = TRUE, ![e].pendingWake = FALSE]
      /\ owed' = [owed EXCEPT ![k] = FALSE]
      /\ caller' = [caller EXCEPT ![c] = [pc |-> "interrupt", on |-> e]]
      /\ active' = active
  BY DEF Interrupt
<1>3. /\ entry'[e] \in Entry
      /\ entry'[e].key = k
      /\ entry'[e].stopping
      /\ \A f \in Entries \ {e} : entry'[f] = entry[f]
  BY <1>1, <1>2 DEF TypeOK, Entry
<1>4. \A l \in Keys \ {k} : active[l] # e
  BY <1>1, DistinctActive, NoneAssumption
<1> HIDE DEF e
<1>5. TypeOK'
  BY <1>1, <1>2, <1>3 DEF TypeOK, Caller
<1>6. \A f \in Entries : Live(f)' <=> Live(f)
  BY <1>1, <1>3, EntryUsed DEF Live
<1>7. ActiveIffLive'
  <2>1. \A f \in Entries : entry'[f].key = entry[f].key
    BY <1>1, <1>3
  <2>2. QED
    BY <1>2, <1>6, <2>1 DEF ActiveIffLive
<1>8. Live(e)
  BY <1>1, EntryUsed DEF Live
<1>9. WaitersHaveAnOwner'
  BY <1>1, <1>2, <1>3, <1>6, <1>8 DEF WaitersHaveAnOwner, WaitsFor, TypeOK
<1>10. NoLostWake'
  <2> SUFFICES ASSUME NEW l \in Keys, owed'[l]
               PROVE  /\ active'[l] # None
                      /\ \/ entry'[active'[l]].pendingWake
                         \/ /\ entry'[active'[l]].phase = "forked"
                            /\ ~entry'[active'[l]].stopping
    BY DEF NoLostWake
  <2>1. l # k /\ owed[l]
    BY <1>2 DEF TypeOK
  <2>2. active[l] # e
    BY <1>4, <2>1
  <2>3. active'[l] = active[l] /\ active[l] # None
    BY <1>2, <2>1 DEF NoLostWake
  <2>4. entry'[active[l]] = entry[active[l]]
    BY <1>3, <2>2, <2>3 DEF TypeOK
  <2>5. QED
    BY <2>1, <2>3, <2>4 DEF NoLostWake
<1>11. QED
  BY <1>5, <1>7, <1>9, <1>10

\* A step of an owner fiber that keeps its entry live changes no other entry,
\* and leaves the map and the callers alone: it preserves the first three
\* parts of the invariant provided it keeps the key, and a stop it found.
LEMMA OwnerStepInv ==
    ASSUME TypeOK, ActiveIffLive, WaitersHaveAnOwner,
           NEW e \in Entries, NEW r \in Entry,
           entry[e] \in Entry, r.key = entry[e].key,
           entry[e].stopping => r.stopping,
           entry' = [entry EXCEPT ![e] = r],
           active' = active, caller' = caller, owed' \in [Keys -> BOOLEAN]
    PROVE  TypeOK' /\ ActiveIffLive' /\ WaitersHaveAnOwner'
<1>1. entry'[e] = r /\ \A f \in Entries \ {e} : entry'[f] = entry[f]
  BY DEF TypeOK
<1>2. \A f \in Entries : Live(f)' <=> Live(f)
  BY <1>1, EntryUsed DEF Live
<1>3. TypeOK'
  BY DEF TypeOK
<1>4. ActiveIffLive'
  BY <1>1, <1>2 DEF ActiveIffLive
<1>5. WaitersHaveAnOwner'
  BY <1>1, <1>2 DEF WaitersHaveAnOwner, WaitsFor
<1>6. QED
  BY <1>3, <1>4, <1>5

\* An owner in a given phase is that of the active entry of its key.
LEMMA OwnerIsActive ==
    ASSUME TypeOK, ActiveIffLive, NEW e \in Entries,
           entry[e].phase \in {"forked", "draining", "exiting"}
    PROVE  /\ entry[e] \in Entry
           /\ Live(e)
           /\ entry[e].key \in Keys
           /\ active[entry[e].key] = e
<1>1. Live(e)
  BY DEF Live, Unused
<1>2. entry[e] \in Entry
  BY <1>1, LiveEntry
<1>3. entry[e].key \in Keys
  BY <1>2 DEF Entry
<1>4. QED
  BY <1>1, <1>2, <1>3 DEF ActiveIffLive

\* The start, the end and the repetition of a drain preserve the invariant.
LEMMA DrainInv ==
    ASSUME IInv, NEW e \in Entries,
           BeginDrain(e) \/ SkipDrain(e) \/ EndDrain(e) \/ Restart(e)
    PROVE  IInv'
<1> USE DEF IInv
<1> DEFINE k == entry[e].key
<1>1. /\ entry[e] \in Entry /\ k \in Keys /\ active[k] = e
      /\ active' = active /\ caller' = caller
  BY OwnerIsActive DEF BeginDrain, SkipDrain, EndDrain, Restart
<1>2. \A l \in Keys \ {k} : active[l] # e
  BY <1>1, DistinctActive, NoneAssumption
<1>3. CASE BeginDrain(e)
  <2> DEFINE r == [entry[e] EXCEPT !.phase = "draining"]
  <2>1. r \in Entry /\ r.key = k /\ r.stopping = entry[e].stopping
    BY <1>1 DEF Entry
  <2>2. entry' = [entry EXCEPT ![e] = r] /\ owed' = [owed EXCEPT ![k] = FALSE]
    BY <1>3 DEF BeginDrain, TypeOK
  <2>3. TypeOK' /\ ActiveIffLive' /\ WaitersHaveAnOwner'
    <3>1. owed' \in [Keys -> BOOLEAN]
      BY <1>1, <2>2 DEF TypeOK
    <3>2. QED
      BY <1>1, <2>1, <2>2, <3>1, OwnerStepInv
  <2>4. NoLostWake'
    BY <1>1, <1>2, <2>2 DEF NoLostWake, TypeOK
  <2>5. QED
    BY <2>3, <2>4
<1>4. CASE SkipDrain(e)
  <2> DEFINE r == [entry[e] EXCEPT !.phase = "exiting", !.exit = "interrupt"]
  <2>1. /\ r \in Entry /\ r.key = k /\ r.stopping = entry[e].stopping
        /\ r.pendingWake = entry[e].pendingWake
    BY <1>1 DEF Entry, Exits
  <2>2. /\ entry' = [entry EXCEPT ![e] = r] /\ owed' = owed
        /\ entry[e].stopping
    BY <1>4 DEF SkipDrain, TypeOK
  <2>3. TypeOK' /\ ActiveIffLive' /\ WaitersHaveAnOwner'
    <3>1. owed' \in [Keys -> BOOLEAN]
      BY <2>2 DEF TypeOK
    <3>2. QED
      BY <1>1, <2>1, <2>2, <3>1, OwnerStepInv
  <2>4. NoLostWake'
    BY <1>1, <1>2, <2>1, <2>2 DEF NoLostWake, TypeOK
  <2>5. QED
    BY <2>3, <2>4
<1>5. CASE EndDrain(e)
  <2>1. PICK x \in Exits :
            entry' = [entry EXCEPT ![e].phase = "exiting", ![e].exit = x]
    BY <1>5 DEF EndDrain
  <2> DEFINE r == [entry[e] EXCEPT !.phase = "exiting", !.exit = x]
  <2>2. /\ r \in Entry /\ r.key = k /\ r.stopping = entry[e].stopping
        /\ r.pendingWake = entry[e].pendingWake
    BY <1>1 DEF Entry
  <2>3. /\ entry' = [entry EXCEPT ![e] = r] /\ owed' = owed
        /\ entry[e].phase = "draining"
    BY <1>5, <2>1 DEF EndDrain, TypeOK
  <2>4. TypeOK' /\ ActiveIffLive' /\ WaitersHaveAnOwner'
    <3>1. owed' \in [Keys -> BOOLEAN]
      BY <2>3 DEF TypeOK
    <3>2. QED
      BY <1>1, <2>2, <2>3, <3>1, OwnerStepInv
  <2>5. NoLostWake'
    BY <1>1, <1>2, <2>2, <2>3 DEF NoLostWake, TypeOK
  <2>6. QED
    BY <2>4, <2>5
<1>6. CASE Restart(e)
  <2> DEFINE r == [entry[e] EXCEPT !.phase = "forked", !.force = FALSE,
                                   !.pendingWake = FALSE]
  <2>1. /\ r \in Entry /\ r.key = k /\ r.stopping = entry[e].stopping
        /\ r.phase = "forked"
    BY <1>1 DEF Entry
  <2>2. /\ entry' = [entry EXCEPT ![e] = r] /\ owed' = owed
        /\ ~entry[e].stopping
    BY <1>6 DEF Restart, Restarts, TypeOK
  <2>3. TypeOK' /\ ActiveIffLive' /\ WaitersHaveAnOwner'
    <3>1. owed' \in [Keys -> BOOLEAN]
      BY <2>2 DEF TypeOK
    <3>2. QED
      BY <1>1, <2>1, <2>2, <3>1, OwnerStepInv
  <2>4. NoLostWake'
    BY <1>1, <1>2, <2>1, <2>2, NoneAssumption DEF NoLostWake, TypeOK
  <2>5. QED
    BY <2>3, <2>4
<1>7. QED
  BY <1>3, <1>4, <1>5, <1>6

\* Resolving the done deferred leaves no caller waiting for the entry, and
\* moves no caller that waits for another one.
LEMMA ResolveWaiters ==
    ASSUME TypeOK, NEW e \in Entries, entry[e] \in Entry, Resolve(e)
    PROVE  /\ caller' \in [Callers -> Caller]
           /\ \A c \in Callers : ~WaitsFor(c, e)'
           /\ \A c \in Callers, f \in Entries :
                 WaitsFor(c, f)' => WaitsFor(c, f) /\ caller'[c] = caller[c]
<1> USE DEF TypeOK, Resolve
<1>1. caller' \in [Callers -> Caller]
  BY DEF Caller, IdleCaller, Entry
<1>2. ASSUME NEW c \in Callers, WaitsFor(c, e)
      PROVE  \A f \in Entries : ~WaitsFor(c, f)'
  BY <1>2 DEF WaitsFor, IdleCaller
<1>3. ASSUME NEW c \in Callers, ~WaitsFor(c, e)
      PROVE  caller'[c] = caller[c]
  BY <1>3
<1>4. QED
  BY <1>1, <1>2, <1>3 DEF WaitsFor

\* A settlement that ends its entry preserves the invariant.
LEMMA SettleInv ==
    ASSUME IInv, NEW e \in Entries, Succeed(e) \/ Retire(e)
    PROVE  IInv'
<1> USE DEF IInv
<1> DEFINE k == entry[e].key
<1>1. /\ entry[e] \in Entry /\ Live(e) /\ k \in Keys /\ active[k] = e
      /\ entry[e].phase = "exiting" /\ owed' = owed /\ Resolve(e)
  BY OwnerIsActive DEF Succeed, Retire
<1>2. \A l \in Keys \ {k} : active[l] # e
  BY <1>1, DistinctActive, NoneAssumption
<1>3. CASE Succeed(e)
  <2>1. PICK n \in Entries :
            /\ Free(n)
            /\ active' = [active EXCEPT ![k] = n]
            /\ entry' = [entry EXCEPT ![n] = Started(k, FALSE), ![e] = Unused]
    BY <1>3 DEF Succeed
  <2>2. n # e
    BY <1>1, <2>1 DEF Free
  <2>3. /\ entry'[n] = Started(k, FALSE)
        /\ entry'[e] = Unused
        /\ \A f \in Entries \ {n, e} : entry'[f] = entry[f]
    BY <2>1, <2>2 DEF TypeOK
  <2>4. /\ Started(k, FALSE) \in Entry
        /\ Started(k, FALSE).key = k
        /\ Started(k, FALSE).phase = "forked"
        /\ Started(k, FALSE).stopping = FALSE
    BY <1>1 DEF Started, Unused, Entry, Exits
  <2>5. TypeOK'
    BY <1>1, <2>1, <2>4, ResolveWaiters DEF TypeOK
  <2>6. ActiveIffLive'
    <3> SUFFICES ASSUME NEW l \in Keys, NEW f \in Entries
                 PROVE  active'[l] = f <=> entry'[f] # Unused /\ entry'[f].key = l
      BY DEF ActiveIffLive, Live
    <3>1. active'[k] = n /\ \A m \in Keys \ {k} : active'[m] = active[m]
      BY <1>1, <2>1 DEF TypeOK
    <3>2. CASE f = n
      <4>1. entry'[f] # Unused /\ entry'[f].key = k
        BY <3>2, <2>3, <2>4, EntryUsed
      <4>2. active'[l] = f <=> l = k
        BY <3>1, <3>2, <2>1 DEF Free
      <4>3. QED
        BY <4>1, <4>2
    <3>3. CASE f = e
      BY <3>1, <3>3, <2>2, <2>3, <1>2
    <3>4. CASE f \notin {n, e}
      <4>1. entry'[f] = entry[f]
        BY <2>3, <3>4
      <4>2. active[l] = f <=> entry[f] # Unused /\ entry[f].key = l
        BY DEF ActiveIffLive, Live
      <4>3. active'[l] = f <=> active[l] = f
        BY <1>1, <3>1, <3>4
      <4>4. QED
        BY <4>1, <4>2, <4>3
    <3>5. QED
      BY <3>2, <3>3, <3>4
  <2>7. WaitersHaveAnOwner'
    <3> SUFFICES ASSUME NEW c \in Callers, NEW f \in Entries, WaitsFor(c, f)'
                 PROVE  /\ entry'[f] # Unused
                        /\ caller'[c].pc \in {"rerun", "interrupt"}
                               => entry'[f].stopping
      BY DEF WaitersHaveAnOwner, Live
    <3>1. WaitsFor(c, f) /\ caller'[c] = caller[c] /\ f # e
      BY <1>1, ResolveWaiters
    <3>2. f # n
      BY <3>1, <2>1 DEF Free
    <3>3. QED
      BY <3>1, <3>2, <2>3 DEF WaitersHaveAnOwner, Live
  <2>8. NoLostWake'
    <3> SUFFICES ASSUME NEW l \in Keys, owed'[l]
                 PROVE  /\ active'[l] # None
                        /\ \/ entry'[active'[l]].pendingWake
                           \/ /\ entry'[active'[l]].phase = "forked"
                              /\ ~entry'[active'[l]].stopping
      BY DEF NoLostWake
    <3>1. CASE l = k
      BY <3>1, <1>1, <2>1, <2>3, <2>4, NoneAssumption DEF TypeOK
    <3>2. CASE l # k
      <4>1. active'[l] = active[l] /\ owed[l] /\ active[l] # e /\ active[l] # n
        BY <3>2, <1>1, <1>2, <2>1 DEF TypeOK, Free
      <4>2. QED
        BY <4>1, <2>3 DEF NoLostWake, TypeOK
    <3>3. QED
      BY <3>1, <3>2
  <2>9. QED
    BY <2>5, <2>6, <2>7, <2>8
<1>4. CASE Retire(e)
  <2>1. /\ active' = [active EXCEPT ![k] = None]
        /\ entry' = [entry EXCEPT ![e] = Unused]
        /\ ~entry[e].pendingWake
    BY <1>4 DEF Retire
  <2>2. /\ entry'[e] = Unused
        /\ \A f \in Entries \ {e} : entry'[f] = entry[f]
    BY <2>1 DEF TypeOK
  <2>3. active'[k] = None /\ \A l \in Keys \ {k} : active'[l] = active[l]
    BY <1>1, <2>1 DEF TypeOK
  <2>4. TypeOK'
    BY <1>1, <2>1, ResolveWaiters DEF TypeOK
  <2>5. ActiveIffLive'
    <3> SUFFICES ASSUME NEW l \in Keys, NEW f \in Entries
                 PROVE  active'[l] = f <=> entry'[f] # Unused /\ entry'[f].key = l
      BY DEF ActiveIffLive, Live
    <3>1. active[l] = f <=> entry[f] # Unused /\ entry[f].key = l
      BY DEF ActiveIffLive, Live
    <3>2. QED
      BY <3>1, <1>1, <1>2, <2>2, <2>3, NoneAssumption
  <2>6. WaitersHaveAnOwner'
    <3> SUFFICES ASSUME NEW c \in Callers, NEW f \in Entries, WaitsFor(c, f)'
                 PROVE  /\ entry'[f] # Unused
                        /\ caller'[c].pc \in {"rerun", "interrupt"}
                               => entry'[f].stopping
      BY DEF WaitersHaveAnOwner, Live
    <3>1. WaitsFor(c, f) /\ caller'[c] = caller[c] /\ f # e
      BY <1>1, ResolveWaiters
    <3>2. QED
      BY <3>1, <2>2 DEF WaitersHaveAnOwner, Live
  <2>7. NoLostWake'
    <3> SUFFICES ASSUME NEW l \in Keys, owed'[l]
                 PROVE  /\ active'[l] # None
                        /\ \/ entry'[active'[l]].pendingWake
                           \/ /\ entry'[active'[l]].phase = "forked"
                              /\ ~entry'[active'[l]].stopping
      BY DEF NoLostWake
    <3>1. owed[l] /\ l # k
      BY <1>1, <2>1 DEF NoLostWake
    <3>2. active'[l] = active[l] /\ active[l] # e
      BY <3>1, <1>2, <2>3
    <3>3. QED
      BY <3>1, <3>2, <2>2 DEF NoLostWake, TypeOK
  <2>8. QED
    BY <2>4, <2>5, <2>6, <2>7
<1>5. QED
  BY <1>3, <1>4

\* Giving up a call preserves the invariant.
LEMMA AbandonInv ==
    ASSUME IInv, NEW c \in Callers, Abandon(c)
    PROVE  IInv'
<1> USE DEF IInv, Abandon
<1>1. TypeOK'
  BY DEF TypeOK, Caller, IdleCaller
<1>2. ActiveIffLive' /\ NoLostWake'
  BY DEF ActiveIffLive, Live, NoLostWake
<1>3. WaitersHaveAnOwner'
  BY DEF TypeOK, WaitersHaveAnOwner, WaitsFor, Live, IdleCaller
<1>4. QED
  BY <1>1, <1>2, <1>3

\* Every step preserves the invariant.
LEMMA NextInv == IInv /\ [Next]_vars => IInv'
<1> SUFFICES ASSUME IInv, [Next]_vars PROVE IInv'
  OBVIOUS
<1>1. ASSUME NEW c \in Callers, NEW k \in Keys, Run(c, k) PROVE IInv'
  BY <1>1, RunInv DEF Run
<1>2. ASSUME NEW c \in Callers, NEW k \in Keys, Interrupt(c, k) PROVE IInv'
  BY <1>2, InterruptInv
<1>3. ASSUME NEW k \in Keys, Wake(k) PROVE IInv'
  BY <1>3, WakeInv
<1>4. ASSUME NEW e \in Entries, Owner(e) PROVE IInv'
  BY <1>4, DrainInv, SettleInv DEF Owner, Settle
<1>5. ASSUME NEW c \in Callers, Rerun(c) PROVE IInv'
  <2>1. caller[c].on \in Keys
    BY <1>5 DEF Rerun, IInv, TypeOK, Caller
  <2>2. QED
    BY <1>5, <2>1, RunInv DEF Rerun
<1>6. ASSUME NEW c \in Callers, Abandon(c) PROVE IInv'
  BY <1>6, AbandonInv
<1>7. CASE UNCHANGED vars
  BY <1>7 DEF vars, IInv, TypeOK, ActiveIffLive, Live, WaitersHaveAnOwner,
              WaitsFor, NoLostWake
<1>8. QED
  BY <1>1, <1>2, <1>3, <1>4, <1>5, <1>6, <1>7 DEF Next

\* The inductive invariant holds in every reachable state.
THEOREM Invariance == Spec => []IInv
<1>1. QED
  BY InitInv, NextInv, PTL DEF Spec

\* Every variable keeps its type.
THEOREM TypeCorrect == Spec => []TypeOK
<1>1. IInv => TypeOK
  BY DEF IInv
<1>2. QED
  BY <1>1, Invariance, PTL

\* The map of active entries and the owner fibers always agree
\* (run-coordinator.ts: active, start, settle).
THEOREM MapAgreesWithFibers == Spec => []ActiveIffLive
<1>1. IInv => ActiveIffLive
  BY DEF IInv
<1>2. QED
  BY <1>1, Invariance, PTL

\* At most one owner fiber works for a key at any time, for any number of
\* keys, callers and entries: "serializes execution for each key".
THEOREM Serialization == Spec => []OneOwnerPerKey
<1>1. IInv => OneOwnerPerKey
  <2> SUFFICES ASSUME IInv, NEW e \in Entries, NEW f \in Entries,
                      Live(e), Live(f), entry[e].key = entry[f].key
               PROVE  e = f
    BY DEF OneOwnerPerKey
  <2>1. entry[e].key \in Keys
    BY LiveEntry DEF IInv, Entry
  <2>2. active[entry[e].key] = e /\ active[entry[e].key] = f
    BY <2>1 DEF IInv, ActiveIffLive
  <2>3. QED
    BY <2>2
<1>2. QED
  BY <1>1, Invariance, PTL

\* No wake is ever forgotten before a drain begins or an interrupt
\* withdraws it.
THEOREM WakesAreKept == Spec => []NoLostWake
<1>1. IInv => NoLostWake
  BY DEF IInv
<1>2. QED
  BY <1>1, Invariance, PTL

\* No suspended caller waits for an entry without an owner.
THEOREM NobodyIsLeftBehind == Spec => []WaitersHaveAnOwner
<1>1. IInv => WaitersHaveAnOwner
  BY DEF IInv
<1>2. QED
  BY <1>1, Invariance, PTL

-----------------------------------------------------------------------------
(* Stopped entries.                                                        *)

\* A stopped entry keeps its stop and is never forked again.
THEOREM StoppedStaysStopped == Spec => StoppedEntriesNeverRestart
<1> DEFINE A(e) == Live(e) /\ entry[e].stopping /\ entry'[e] # Unused
                     => /\ entry'[e].stopping
                        /\ entry'[e].phase = "forked" => entry[e].phase = "forked"
<1>1. IInv /\ [Next]_vars => [\A e \in Entries : A(e)]_vars
  <2> SUFFICES ASSUME IInv, Next, NEW e \in Entries,
                      Live(e), entry[e].stopping, entry'[e] # Unused
               PROVE  /\ entry'[e].stopping
                      /\ entry'[e].phase = "forked" => entry[e].phase = "forked"
    OBVIOUS
  <2>0. entry[e] \in Entry /\ entry \in [Entries -> Entry \cup {Unused}]
    BY LiveEntry DEF IInv, TypeOK
  <2>1. ASSUME NEW c \in Callers, NEW k \in Keys, RunBody(c, k)
        PROVE  entry'[e] = entry[e]
    BY <2>0, <2>1 DEF RunBody, JoinActive, AwaitStopping, StartForced, Free, Live
  <2>2. ASSUME NEW c \in Callers, NEW k \in Keys, Interrupt(c, k)
        PROVE  entry'[e].stopping /\ entry'[e].phase = entry[e].phase
    BY <2>0, <2>2 DEF Interrupt, Entry, IInv, TypeOK
  <2>3. ASSUME NEW k \in Keys, Wake(k)
        PROVE  entry'[e].stopping /\ entry'[e].phase = entry[e].phase
    <3>1. CASE MarkPending(k)
      BY <2>0, <3>1 DEF MarkPending, Entry, IInv, TypeOK
    <3>2. CASE StartUnforced(k)
      BY <2>0, <3>2 DEF StartUnforced, Free, Live
    <3>3. QED
      BY <2>3, <3>1, <3>2 DEF Wake
  <2>4. ASSUME NEW f \in Entries, Owner(f)
        PROVE  /\ entry'[e].stopping
               /\ entry'[e].phase = "forked" => entry[e].phase = "forked"
    <3>1. CASE f # e
      <4>1. entry'[e] = entry[e]
        BY <2>0, <2>4, <3>1
           DEF Owner, BeginDrain, SkipDrain, EndDrain, Settle, Restart,
               Succeed, Retire, Free, Live
      <4>2. QED
        BY <4>1
    <3>2. CASE f = e
      <4>1. SkipDrain(e) \/ EndDrain(e)
        BY <2>0, <2>4, <3>2
           DEF Owner, BeginDrain, Settle, Restart, Restarts, Succeed, Retire,
               Free, Live
      <4>2. QED
        BY <2>0, <4>1 DEF SkipDrain, EndDrain, Entry
    <3>3. QED
      BY <3>1, <3>2
  <2>5. ASSUME NEW c \in Callers, Rerun(c)
        PROVE  entry'[e] = entry[e]
    <3>1. caller[c].on \in Keys
      BY <2>5 DEF Rerun, IInv, TypeOK, Caller
    <3>2. QED
      BY <2>1, <2>5, <3>1 DEF Rerun
  <2>6. ASSUME NEW c \in Callers, Abandon(c)
        PROVE  entry'[e] = entry[e]
    BY <2>6 DEF Abandon
  <2>7. QED
    BY <2>1, <2>2, <2>3, <2>4, <2>5, <2>6 DEF Next, Run
<1>2. QED
  BY <1>1, Invariance, PTL DEF Spec, StoppedEntriesNeverRestart

-----------------------------------------------------------------------------
(* The coordinator implements KeyedWorker.  Under the invariant the worker *)
(* of a key can be read off the map, which makes the effect of a step on   *)
(* one key, and its absence on the others, a matter of one function each.  *)

MapPhase(k) == IF active[k] = None THEN "idle"
               ELSE IF entry[active[k]].stopping THEN "stopping"
               ELSE IF entry[active[k]].phase = "forked" THEN "ready"
               ELSE "busy"

MapAgain(k) == active[k] # None /\ entry[active[k]].pendingWake

ReadOffMap ==
    \A k \in Keys : PhaseOf(k) = MapPhase(k) /\ AgainOf(k) = MapAgain(k)

\* The owner fibers of a key are the map's entry for it, or none.
LEMMA WorkerByMap == IInv => ReadOffMap
<1> SUFFICES ASSUME IInv, NEW k \in Keys
             PROVE  PhaseOf(k) = MapPhase(k) /\ AgainOf(k) = MapAgain(k)
  BY DEF ReadOffMap
<1>1. CASE active[k] = None
  <2>1. Owners(k) = {}
    BY <1>1, NoneAssumption DEF Owners, IInv, ActiveIffLive
  <2>2. QED
    BY <1>1, <2>1 DEF PhaseOf, AgainOf, MapPhase, MapAgain
<1>2. CASE active[k] # None
  <2>1. active[k] \in Entries
    BY <1>2 DEF IInv, TypeOK
  <2>2. Owners(k) = {active[k]}
    BY <2>1 DEF Owners, IInv, ActiveIffLive
  <2>3. OwnerOf(k) = active[k]
    BY <2>2 DEF OwnerOf
  <2>4. QED
    BY <1>2, <2>2, <2>3 DEF PhaseOf, AgainOf, MapPhase, MapAgain
<1>3. QED
  BY <1>1, <1>2

\* The worker of key k takes one of its steps and no other worker moves.
WorkerStep(k) ==
    \/ /\ MapPhase(k) = "idle" /\ MapPhase(k)' = "ready"
       /\ MapAgain(k)' = MapAgain(k)
    \/ /\ MapPhase(k) # "idle" /\ MapPhase(k)' = MapPhase(k)
       /\ MapAgain(k)' = TRUE
    \/ /\ MapPhase(k) = "ready" /\ MapPhase(k)' = "busy"
       /\ MapAgain(k)' = MapAgain(k)
    \/ /\ MapPhase(k) # "idle" /\ MapPhase(k)' = "stopping"
       /\ MapAgain(k)' = FALSE
    \/ /\ MapPhase(k) \in {"busy", "stopping"}
       /\ MapPhase(k)' = IF MapAgain(k) THEN "ready" ELSE "idle"
       /\ MapAgain(k)' = FALSE

OthersKeep(k) == \A l \in Keys \ {k} :
                    MapPhase(l)' = MapPhase(l) /\ MapAgain(l)' = MapAgain(l)

\* Such a step is a step of the abstract workers.
LEMMA WorkerStepMaps ==
    ASSUME IInv, IInv', NEW k \in Keys, WorkerStep(k), OthersKeep(k)
    PROVE  KW!Next
<1> DEFINE P == [l \in Keys |-> PhaseOf(l)]
           A == [l \in Keys |-> AgainOf(l)]
           Q == [l \in Keys |-> PhaseOf(l)']
           B == [l \in Keys |-> AgainOf(l)']
<1>1. \A l \in Keys : PhaseOf(l) = MapPhase(l) /\ AgainOf(l) = MapAgain(l)
  BY WorkerByMap DEF ReadOffMap
<1>2. \A l \in Keys : PhaseOf(l)' = MapPhase(l)' /\ AgainOf(l)' = MapAgain(l)'
  <2>1. IInv' => ReadOffMap'
    BY WorkerByMap, PTL
  <2>2. QED
    BY <2>1 DEF ReadOffMap
<1>3. /\ P' = Q /\ A' = B
      /\ \A l \in Keys : /\ P[l] = MapPhase(l) /\ A[l] = MapAgain(l)
                         /\ Q[l] = MapPhase(l)' /\ B[l] = MapAgain(l)'
  BY <1>1, <1>2
<1>4. /\ Q = [P EXCEPT ![k] = MapPhase(k)']
      /\ B = [A EXCEPT ![k] = MapAgain(k)']
  BY <1>3 DEF OthersKeep
<1>5. P[k] = MapPhase(k) /\ A[k] = MapAgain(k) /\ A[k] \in BOOLEAN
  BY <1>3 DEF MapAgain
<1>6. P = [P EXCEPT ![k] = P[k]] /\ A = [A EXCEPT ![k] = A[k]]
  OBVIOUS
<1> SUFFICES KW!Start(k) \/ KW!Ask(k) \/ KW!Begin(k) \/ KW!Stop(k) \/ KW!Finish(k)
  BY DEF KW!Next
<1>7. QED
  BY <1>3, <1>4, <1>5, <1>6
     DEF WorkerStep, KW!Start, KW!Ask, KW!Begin, KW!Stop, KW!Finish

\* A step that moves no worker is a stuttering step of the abstract ones.
LEMMA QuietStepMaps ==
    ASSUME IInv, IInv',
           \A l \in Keys : MapPhase(l)' = MapPhase(l) /\ MapAgain(l)' = MapAgain(l)
    PROVE  UNCHANGED KW!vars
<1>1. \A l \in Keys : PhaseOf(l) = MapPhase(l) /\ AgainOf(l) = MapAgain(l)
  BY WorkerByMap DEF ReadOffMap
<1>2. \A l \in Keys : PhaseOf(l)' = MapPhase(l)' /\ AgainOf(l)' = MapAgain(l)'
  <2>1. IInv' => ReadOffMap'
    BY WorkerByMap, PTL
  <2>2. QED
    BY <2>1 DEF ReadOffMap
<1>3. QED
  BY <1>1, <1>2 DEF KW!vars

\* Only the entry of key k changed, and what the map has for k: no other
\* worker moved.
LEMMA OthersUndisturbed ==
    ASSUME IInv, NEW k \in Keys, NEW e \in Entries,
           \A l \in Keys \ {k} : active'[l] = active[l] /\ active[l] # e,
           \A f \in Entries \ {e} : f # active[k] => entry'[f] = entry[f]
    PROVE  OthersKeep(k)
<1> SUFFICES ASSUME NEW l \in Keys \ {k}
             PROVE  MapPhase(l)' = MapPhase(l) /\ MapAgain(l)' = MapAgain(l)
  BY DEF OthersKeep
<1>1. CASE active[l] = None
  BY <1>1 DEF MapPhase, MapAgain
<1>2. CASE active[l] # None
  <2>1. active[l] \in Entries /\ active[l] # e /\ active[l] # active[k]
    BY <1>2, DistinctActive DEF IInv, TypeOK
  <2>2. entry'[active[l]] = entry[active[l]] /\ active'[l] = active[l]
    BY <2>1
  <2>3. QED
    BY <2>2 DEF MapPhase, MapAgain
<1>3. QED
  BY <1>1, <1>2

\* run() either leaves every worker alone or starts an idle one.
LEMMA RunMaps ==
    ASSUME IInv, IInv', NEW c \in Callers, NEW k \in Keys, RunBody(c, k)
    PROVE  [KW!Next]_KW!vars
<1>1. CASE JoinActive(c, k) \/ AwaitStopping(c, k)
  <2>1. active' = active /\ entry' = entry
    BY <1>1 DEF JoinActive, AwaitStopping
  <2>2. \A l \in Keys : MapPhase(l)' = MapPhase(l) /\ MapAgain(l)' = MapAgain(l)
    BY <2>1 DEF MapPhase, MapAgain
  <2>3. QED
    BY <2>2, QuietStepMaps
<1>2. CASE StartForced(c, k)
  <2>1. PICK e \in Entries :
            /\ Free(e) /\ active[k] = None
            /\ active' = [active EXCEPT ![k] = e]
            /\ entry' = [entry EXCEPT ![e] = Started(k, TRUE)]
    BY <1>2 DEF StartForced
  <2>2. active'[k] = e /\ entry'[e] = Started(k, TRUE)
    BY <2>1 DEF IInv, TypeOK
  <2>3. OthersKeep(k)
    BY <2>1, OthersUndisturbed DEF IInv, TypeOK, Free
  <2>4. WorkerStep(k)
    <3>1. /\ entry'[e].phase = "forked"
          /\ entry'[e].stopping = FALSE
          /\ entry'[e].pendingWake = FALSE
      BY <2>2 DEF Started, Unused
    <3>2. MapPhase(k) = "idle" /\ MapAgain(k) = FALSE
      BY <2>1 DEF MapPhase, MapAgain
    <3>3. MapPhase(k)' = "ready" /\ MapAgain(k)' = FALSE
      BY <2>2, <3>1, NoneAssumption DEF MapPhase, MapAgain
    <3>4. QED
      BY <3>2, <3>3 DEF WorkerStep
  <2>5. QED
    BY <2>3, <2>4, WorkerStepMaps
<1>3. QED
  BY <1>1, <1>2 DEF RunBody

\* A wake starts an idle worker, or asks an occupied one once more.
LEMMA WakeMaps ==
    ASSUME IInv, IInv', NEW k \in Keys, Wake(k)
    PROVE  [KW!Next]_KW!vars
<1>1. CASE MarkPending(k)
  <2> DEFINE e == active[k]
  <2>1. e \in Entries /\ entry[e] \in Entry /\ e # None
    BY <1>1, LiveEntry DEF MarkPending, IInv, TypeOK, ActiveIffLive
  <2>2. /\ entry' = [entry EXCEPT ![e].pendingWake = TRUE] /\ active' = active
    BY <1>1 DEF MarkPending
  <2>3. /\ entry'[e].pendingWake
        /\ entry'[e].stopping = entry[e].stopping
        /\ entry'[e].phase = entry[e].phase
        /\ \A f \in Entries \ {e} : entry'[f] = entry[f]
    BY <2>1, <2>2 DEF IInv, TypeOK, Entry
  <2>4. \A l \in Keys \ {k} : active[l] # e
    BY <2>1, DistinctActive DEF IInv
  <2>5. OthersKeep(k)
    BY <2>1, <2>2, <2>3, <2>4, OthersUndisturbed
  <2>6. WorkerStep(k)
    <3>1. MapAgain(k)' = TRUE
      <4>1. entry'[e].pendingWake = TRUE
        BY <2>1, <2>2 DEF IInv, TypeOK, Entry
      <4>2. QED
        BY <4>1, <2>1, <2>2 DEF MapAgain
    <3>2. MapPhase(k)' = MapPhase(k) /\ MapPhase(k) # "idle"
      BY <2>1, <2>2, <2>3 DEF MapPhase
    <3>3. QED
      BY <3>1, <3>2 DEF WorkerStep
  <2>7. QED
    BY <2>5, <2>6, WorkerStepMaps
<1>2. CASE StartUnforced(k)
  <2>1. PICK e \in Entries :
            /\ Free(e) /\ active[k] = None
            /\ active' = [active EXCEPT ![k] = e]
            /\ entry' = [entry EXCEPT ![e] = Started(k, FALSE)]
    BY <1>2 DEF StartUnforced
  <2>2. active'[k] = e /\ entry'[e] = Started(k, FALSE)
    BY <2>1 DEF IInv, TypeOK
  <2>3. OthersKeep(k)
    BY <2>1, OthersUndisturbed DEF IInv, TypeOK, Free
  <2>4. WorkerStep(k)
    <3>1. /\ entry'[e].phase = "forked"
          /\ entry'[e].stopping = FALSE
          /\ entry'[e].pendingWake = FALSE
      BY <2>2 DEF Started, Unused
    <3>2. MapPhase(k) = "idle" /\ MapAgain(k) = FALSE
      BY <2>1 DEF MapPhase, MapAgain
    <3>3. MapPhase(k)' = "ready" /\ MapAgain(k)' = FALSE
      BY <2>2, <3>1, NoneAssumption DEF MapPhase, MapAgain
    <3>4. QED
      BY <3>2, <3>3 DEF WorkerStep
  <2>5. QED
    BY <2>3, <2>4, WorkerStepMaps
<1>3. QED
  BY <1>1, <1>2 DEF Wake

\* An interrupt stops the worker of its key.
LEMMA InterruptMaps ==
    ASSUME IInv, IInv', NEW c \in Callers, NEW k \in Keys, Interrupt(c, k)
    PROVE  [KW!Next]_KW!vars
<1> DEFINE e == active[k]
<1>1. e \in Entries /\ entry[e] \in Entry /\ e # None
  BY LiveEntry DEF Interrupt, IInv, TypeOK, ActiveIffLive
<1>2. /\ entry' = [entry EXCEPT ![e].stopping = TRUE, ![e].pendingWake = FALSE]
      /\ active' = active
  BY DEF Interrupt
<1>3. /\ entry'[e].stopping = TRUE /\ entry'[e].pendingWake = FALSE
      /\ \A f \in Entries \ {e} : entry'[f] = entry[f]
  BY <1>1, <1>2 DEF IInv, TypeOK, Entry
<1>4. \A l \in Keys \ {k} : active[l] # e
  BY <1>1, DistinctActive DEF IInv
<1>5. OthersKeep(k)
  BY <1>1, <1>2, <1>3, <1>4, OthersUndisturbed
<1>6. WorkerStep(k)
  BY <1>1, <1>2, <1>3 DEF WorkerStep, MapPhase, MapAgain
<1>7. QED
  BY <1>5, <1>6, WorkerStepMaps

\* The owner of an entry makes its worker begin or finish, or ends its drain
\* unnoticed.
LEMMA OwnerMaps ==
    ASSUME IInv, IInv', NEW e \in Entries, Owner(e),
           NEW k \in Keys, k = entry[e].key
    PROVE  [KW!Next]_KW!vars
<1>1. /\ entry[e] \in Entry /\ Live(e) /\ active[k] = e /\ e # None
  BY OwnerIsActive, NoneAssumption
     DEF Owner, Settle, BeginDrain, SkipDrain, EndDrain, Restart, Succeed, Retire, IInv
<1>2. \A l \in Keys \ {k} : active[l] # e
  BY <1>1, DistinctActive DEF IInv
<1>3. CASE BeginDrain(e)
  <2>1. /\ active' = active
        /\ entry'[e] = [entry[e] EXCEPT !.phase = "draining"]
        /\ \A f \in Entries \ {e} : entry'[f] = entry[f]
        /\ entry[e].phase = "forked" /\ ~entry[e].stopping
    BY <1>3 DEF BeginDrain, IInv, TypeOK
  <2>2. OthersKeep(k)
    BY <1>1, <1>2, <2>1, OthersUndisturbed
  <2>3. WorkerStep(k)
    BY <1>1, <2>1 DEF WorkerStep, MapPhase, MapAgain, Entry
  <2>4. QED
    BY <1>1, <2>2, <2>3, WorkerStepMaps
<1>4. CASE SkipDrain(e) \/ EndDrain(e)
  <2>1. /\ active' = active
        /\ entry'[e].phase = "exiting"
        /\ entry'[e].stopping = entry[e].stopping
        /\ entry'[e].pendingWake = entry[e].pendingWake
        /\ \A f \in Entries \ {e} : entry'[f] = entry[f]
        /\ entry[e].phase = "forked" => entry[e].stopping
    BY <1>1, <1>4 DEF SkipDrain, EndDrain, IInv, TypeOK, Entry
  <2>2. OthersKeep(k)
    BY <1>1, <1>2, <2>1, OthersUndisturbed
  <2>3. MapPhase(k)' = MapPhase(k) /\ MapAgain(k)' = MapAgain(k)
    BY <1>1, <2>1 DEF MapPhase, MapAgain
  <2>4. QED
    BY <2>2, <2>3, QuietStepMaps DEF OthersKeep
<1>5. CASE Restart(e)
  <2>1. /\ active' = active
        /\ entry'[e].phase = "forked"
        /\ entry'[e].stopping = entry[e].stopping
        /\ entry'[e].pendingWake = FALSE
        /\ \A f \in Entries \ {e} : entry'[f] = entry[f]
        /\ entry[e].phase = "exiting" /\ ~entry[e].stopping /\ entry[e].pendingWake
    BY <1>1, <1>5 DEF Restart, Restarts, IInv, TypeOK, Entry
  <2>2. OthersKeep(k)
    BY <1>1, <1>2, <2>1, OthersUndisturbed
  <2>3. WorkerStep(k)
    BY <1>1, <2>1 DEF WorkerStep, MapPhase, MapAgain
  <2>4. QED
    BY <1>1, <2>2, <2>3, WorkerStepMaps
<1>6. CASE Succeed(e)
  <2>1. PICK n \in Entries :
            /\ Free(n)
            /\ active' = [active EXCEPT ![k] = n]
            /\ entry' = [entry EXCEPT ![n] = Started(k, FALSE), ![e] = Unused]
    BY <1>6 DEF Succeed
  <2>2. n # e /\ n # None
    BY <1>1, <2>1, NoneAssumption DEF Free
  <2>3. /\ entry'[n] = Started(k, FALSE)
        /\ \A f \in Entries \ {n, e} : entry'[f] = entry[f]
        /\ active'[k] = n
        /\ \A l \in Keys \ {k} : active'[l] = active[l] /\ active[l] # n
        /\ entry[e].phase = "exiting" /\ entry[e].pendingWake
    BY <1>1, <1>6, <2>1, <2>2 DEF Succeed, IInv, TypeOK, Free
  <2>4. OthersKeep(k)
    BY <1>1, <2>3, OthersUndisturbed
  <2>5. WorkerStep(k)
    <3>1. /\ entry'[n].phase = "forked"
          /\ entry'[n].stopping = FALSE
          /\ entry'[n].pendingWake = FALSE
      BY <2>3 DEF Started, Unused
    <3>2. MapPhase(k) \in {"busy", "stopping"} /\ MapAgain(k)
      BY <1>1, <2>3 DEF MapPhase, MapAgain
    <3>3. MapPhase(k)' = "ready" /\ MapAgain(k)' = FALSE
      BY <2>2, <2>3, <3>1 DEF MapPhase, MapAgain
    <3>4. QED
      BY <3>2, <3>3 DEF WorkerStep
  <2>6. QED
    BY <1>1, <2>4, <2>5, WorkerStepMaps
<1>7. CASE Retire(e)
  <2>1. /\ active'[k] = None
        /\ \A l \in Keys \ {k} : active'[l] = active[l]
        /\ \A f \in Entries \ {e} : entry'[f] = entry[f]
        /\ entry[e].phase = "exiting" /\ ~entry[e].pendingWake
    BY <1>1, <1>7 DEF Retire, IInv, TypeOK
  <2>2. OthersKeep(k)
    BY <1>1, <1>2, <2>1, OthersUndisturbed
  <2>3. WorkerStep(k)
    BY <1>1, <2>1 DEF WorkerStep, MapPhase, MapAgain
  <2>4. QED
    BY <1>1, <2>2, <2>3, WorkerStepMaps
<1>8. QED
  BY <1>3, <1>4, <1>5, <1>6, <1>7 DEF Owner, Settle

LEMMA InitMaps == Init => KW!Init
<1> SUFFICES ASSUME Init PROVE KW!Init
  OBVIOUS
<1>1. \A k \in Keys : Owners(k) = {}
  BY DEF Init, Owners, Live
<1>2. \A k \in Keys : PhaseOf(k) = "idle" /\ AgainOf(k) = FALSE
  BY <1>1 DEF PhaseOf, AgainOf
<1>3. QED
  BY <1>2 DEF KW!Init

LEMMA StepMaps ==
    ASSUME IInv, IInv', [Next]_vars
    PROVE  [KW!Next]_KW!vars
<1>1. ASSUME NEW c \in Callers, NEW k \in Keys, Run(c, k)
      PROVE  [KW!Next]_KW!vars
  BY <1>1, RunMaps DEF Run
<1>2. ASSUME NEW c \in Callers, NEW k \in Keys, Interrupt(c, k)
      PROVE  [KW!Next]_KW!vars
  BY <1>2, InterruptMaps
<1>3. ASSUME NEW k \in Keys, Wake(k) PROVE [KW!Next]_KW!vars
  BY <1>3, WakeMaps
<1>4. ASSUME NEW e \in Entries, Owner(e) PROVE [KW!Next]_KW!vars
  <2>1. entry[e].key \in Keys
    BY <1>4, OwnerIsActive
       DEF Owner, Settle, BeginDrain, SkipDrain, EndDrain, Restart, Succeed,
           Retire, IInv
  <2>2. QED
    BY <1>4, <2>1, OwnerMaps
<1>5. ASSUME NEW c \in Callers, Rerun(c) PROVE [KW!Next]_KW!vars
  <2>1. caller[c].on \in Keys
    BY <1>5 DEF Rerun, IInv, TypeOK, Caller
  <2>2. QED
    BY <1>5, <2>1, RunMaps DEF Rerun
<1>6. ASSUME active' = active, entry' = entry PROVE [KW!Next]_KW!vars
  <2>1. \A l \in Keys : MapPhase(l)' = MapPhase(l) /\ MapAgain(l)' = MapAgain(l)
    BY <1>6 DEF MapPhase, MapAgain
  <2>2. QED
    BY <2>1, QuietStepMaps
<1>7. QED
  BY <1>1, <1>2, <1>3, <1>4, <1>5, <1>6 DEF Next, Abandon, vars

\* Every behaviour of the coordinator is one of the abstract workers: entries,
\* deferreds and the hand-over between fibers add nothing a client could see.
THEOREM Refinement == Spec => ImplementsKeyedWorker
<1>1. IInv /\ IInv' /\ [Next]_vars => [KW!Next]_KW!vars
  BY StepMaps
<1>2. QED
  BY InitMaps, <1>1, Invariance, PTL DEF Spec, KW!Spec, ImplementsKeyedWorker

=============================================================================
