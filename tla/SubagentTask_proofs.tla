------------------------ MODULE SubagentTask_proofs ------------------------
(***************************************************************************)
(* Proofs about BackgroundJob for any set of ids and any number of jobs    *)
(* and runs, and about SubagentTask for any number of child sessions.      *)
(*                                                                         *)
(* What a job may look like is said of the job and its runs alone: an open *)
(* job counts its unsettled runs and starts them in turn, a shut one only  *)
(* unwinds.  The lemmas of the first part show that each change keeps a    *)
(* job open or shuts it; those of the second lift them to the registry,    *)
(* where the map names the running jobs.                                   *)
(*                                                                         *)
(* The steps of the task tool are steps of the registry, so what is proved *)
(* of Registry holds of it.  The last part adds what ties a call to its    *)
(* job and to the notification: a job runs in the foreground only while    *)
(* its call waits, it has a notification exactly if it went to the         *)
(* background, and the call's result tells which of the two it was.        *)
(***************************************************************************)
EXTENDS SubagentTask, SequenceTheorems, FiniteSetTheorems, TLAPS

Live(phases) == {s \in DOMAIN phases : phases[s] # "over"}
Gone == Exits \cup {"late", "over"}

Open(job, phases) ==
    /\ job.id \in Ids
    /\ Len(phases) > 0
    /\ phases[1] # "queued"
    /\ \A s \in DOMAIN phases : phases[s] \in {"queued", "running", "over"} \cup Exits
    /\ \A s \in DOMAIN phases : phases[s] # "queued" =>
           \A r \in 1 .. s - 1 : phases[r] \in Gone
    /\ job.pending = Cardinality(Live(phases))
    /\ job.pending > 0
    /\ job.output <= Len(phases)
    /\ \A s \in DOMAIN phases : phases[s] = "over" => s <= job.output

Shut(job, phases) ==
    /\ job.id \in Ids
    /\ \A s \in DOMAIN phases : phases[s] \in {"unwinding", "late", "over"}
    /\ \A s \in DOMAIN phases : phases[s] = "unwinding" =>
           \A r \in 1 .. s - 1 : phases[r] \in Gone
    /\ job.status = "completed" => job.output = Len(phases)

JobOK(job, phases) ==
    /\ job.status = "unused" => job = Unused /\ phases = <<>>
    /\ job.status = "running" => Open(job, phases)
    /\ job.status \in Ends => Shut(job, phases)

\* The map names the job that runs under an id.
TableOK ==
    /\ \A id \in Ids : jobs[id] # None =>
           active[jobs[id]].id = id /\ active[jobs[id]].status # "unused"
    /\ \A t \in Tokens : active[t].status = "running" => jobs[active[t].id] = t

IInv == TypeOK /\ TableOK /\ \A t \in Tokens : JobOK(active[t], runs[t])

-----------------------------------------------------------------------------
(* Changes of one job.                                                     *)

\* The unsettled runs of a job can be counted.
LEMMA LiveFinite ==
    ASSUME NEW phases \in Seq(Phases)
    PROVE  IsFiniteSet(Live(phases)) /\ Cardinality(Live(phases)) \in Nat
<1>1. DOMAIN phases = 1 .. Len(phases) /\ Len(phases) \in Nat
  BY LenProperties
<1>2. IsFiniteSet(1 .. Len(phases))
  BY <1>1, FS_Interval
<1>3. Live(phases) \in SUBSET (1 .. Len(phases))
  BY <1>1 DEF Live
<1>4. IsFiniteSet(Live(phases))
  BY <1>2, <1>3, FS_Subset
<1>5. QED
  BY <1>4, FS_CardinalityType

\* A job starts with one run.
LEMMA OpenStarted ==
    ASSUME NEW job \in Active, job.id \in Ids, job.pending = 1, job.output = 0
    PROVE  Open(job, <<"running">>)
<1> DEFINE one == <<"running">>
<1>1. one \in Seq(Phases) /\ Len(one) = 1 /\ DOMAIN one = {1} /\ one[1] = "running"
  BY DEF Phases
<1>2. Live(one) = {1}
  BY <1>1 DEF Live
<1>3. Cardinality(Live(one)) = 1
  BY <1>2, FS_Singleton
<1> HIDE DEF one
<1>4. Open(job, one)
  BY <1>1, <1>3 DEF Open
<1>5. QED
  BY <1>4 DEF one

\* A run more, behind the others.
LEMMA OpenExtended ==
    ASSUME NEW job \in Active, NEW phases \in Seq(Phases), Open(job, phases)
    PROVE  Open([job EXCEPT !.pending = @ + 1], Append(phases, "queued"))
<1> DEFINE more == Append(phases, "queued")
<1> DEFINE last == Len(phases) + 1
<1>0. "queued" \in Phases
  BY DEF Phases
<1>1. /\ more \in Seq(Phases) /\ Len(more) = last
      /\ \A i \in 1 .. Len(phases) : more[i] = phases[i]
      /\ more[last] = "queued"
  BY <1>0, AppendProperties
<1>2. DOMAIN phases = 1 .. Len(phases) /\ Len(phases) \in Nat /\ DOMAIN more = 1 .. last
  BY <1>1, LenProperties
<1> HIDE DEF more
<1>3. Live(more) = Live(phases) \cup {last} /\ last \notin Live(phases)
  BY <1>1, <1>2 DEF Live
<1>4. Cardinality(Live(more)) = Cardinality(Live(phases)) + 1
  BY <1>3, LiveFinite, FS_AddElement
<1>5. job.pending + 1 = Cardinality(Live(more))
  BY <1>4 DEF Open
<1> DEFINE new == [job EXCEPT !.pending = @ + 1]
<1>6. /\ new.id = job.id /\ new.pending = job.pending + 1 /\ new.output = job.output
      /\ new.pending > 0 /\ new.output <= last
  BY <1>2 DEF Active, Open
<1> HIDE DEF new
<1>7. \A s \in DOMAIN more : more[s] # "queued" =>
          \A r \in 1 .. s - 1 : more[r] \in Gone
  BY <1>1, <1>2 DEF Open
<1>8. \A s \in DOMAIN more : more[s] \in {"queued", "running", "over"} \cup Exits
  BY <1>1, <1>2 DEF Open
<1>9. Open(new, more)
  BY <1>1, <1>2, <1>5, <1>6, <1>7, <1>8 DEF Open
<1>10. QED
  BY <1>9 DEF new, more

\* A run begins or exits: as many are unsettled as before.
LEMMA OpenMoved ==
    ASSUME NEW job \in Active, NEW phases \in Seq(Phases), Open(job, phases),
           NEW s \in DOMAIN phases, NEW phase \in {"running"} \cup Exits,
           phases[s] \in {"queued", "running"},
           s = 1 \/ phases[s - 1] \in Gone \/ phases[s] = "running",
           phase = "running" \/ phases[s] = "running"
    PROVE  Open(job, [phases EXCEPT ![s] = phase])
<1> DEFINE next == [phases EXCEPT ![s] = phase]
<1>1. DOMAIN phases = 1 .. Len(phases) /\ Len(phases) \in Nat
  BY LenProperties
<1>2. phase \in Phases
  BY DEF Phases
<1>3. /\ next \in Seq(Phases) /\ Len(next) = Len(phases)
      /\ \A r \in 1 .. Len(phases) : next[r] = IF r = s THEN phase ELSE phases[r]
  BY <1>1, <1>2, ExceptSeq
<1>4. DOMAIN next = 1 .. Len(phases)
  BY <1>1
<1> HIDE DEF next
<1>5. Live(next) = Live(phases)
  BY <1>1, <1>3, <1>4 DEF Live, Exits
<1>6. \A r \in 1 .. s - 1 : phases[r] \in Gone
  <2>1. CASE phases[s] = "running"
    BY <2>1 DEF Open
  <2>2. CASE phases[s] = "queued" /\ s # 1
    <3>1. s - 1 \in DOMAIN phases /\ phases[s - 1] \in Gone /\ s \in Int
      BY <1>1, <2>2
    <3>2. phases[s - 1] # "queued"
      BY <3>1 DEF Gone, Exits
    <3>3. \A r \in 1 .. s - 2 : phases[r] \in Gone
      BY <3>1, <3>2 DEF Open
    <3>4. QED
      BY <3>1, <3>3
  <2>3. CASE s = 1
    BY <2>3
  <2>4. QED
    BY <2>1, <2>2, <2>3
<1>7. \A q \in DOMAIN next : next[q] # "queued" => \A r \in 1 .. q - 1 : next[r] \in Gone
  <2> SUFFICES ASSUME NEW q \in DOMAIN next, next[q] # "queued", NEW r \in 1 .. q - 1
               PROVE  next[r] \in Gone
    OBVIOUS
  <2>1. CASE q = s
    BY <1>1, <1>3, <1>4, <1>6, <2>1
  <2>2. CASE q # s
    <3>1. phases[q] # "queued" /\ q \in DOMAIN phases
      BY <1>1, <1>3, <1>4, <2>2
    <3>2. phases[r] \in Gone
      BY <3>1 DEF Open
    <3>3. r # s
      BY <3>2, <1>3 DEF Gone, Exits
    <3>4. QED
      BY <1>1, <1>3, <3>1, <3>2, <3>3
  <2>3. QED
    BY <2>1, <2>2
<1>8. \A q \in DOMAIN next : next[q] \in {"queued", "running", "over"} \cup Exits
  BY <1>1, <1>3, <1>4 DEF Open
<1>9. next[1] # "queued"
  BY <1>1, <1>3 DEF Open, Exits
<1>10. \A q \in DOMAIN next : next[q] = "over" => q <= job.output
  BY <1>1, <1>3, <1>4 DEF Open, Exits
<1>11. Open(job, next)
  BY <1>3, <1>5, <1>7, <1>8, <1>9, <1>10 DEF Open
<1>12. QED
  BY <1>11 DEF next

\* A run that has settled.
LEMMA OverOne ==
    ASSUME NEW phases \in Seq(Phases), NEW s \in DOMAIN phases, phases[s] # "over"
    PROVE  LET next == [phases EXCEPT ![s] = "over"]
           IN  /\ next \in Seq(Phases) /\ Len(next) = Len(phases)
               /\ DOMAIN next = DOMAIN phases
               /\ \A r \in DOMAIN phases : next[r] = IF r = s THEN "over" ELSE phases[r]
               /\ Live(next) = Live(phases) \ {s}
               /\ Cardinality(Live(next)) = Cardinality(Live(phases)) - 1
<1> DEFINE next == [phases EXCEPT ![s] = "over"]
<1>1. DOMAIN phases = 1 .. Len(phases) /\ Len(phases) \in Nat /\ "over" \in Phases
  BY LenProperties DEF Phases
<1>2. /\ next \in Seq(Phases) /\ Len(next) = Len(phases)
      /\ \A r \in 1 .. Len(phases) : next[r] = IF r = s THEN "over" ELSE phases[r]
  BY <1>1, ExceptSeq
<1>3. DOMAIN next = DOMAIN phases
  OBVIOUS
<1> HIDE DEF next
<1>4. Live(next) = Live(phases) \ {s} /\ s \in Live(phases)
  BY <1>1, <1>2, <1>3 DEF Live
<1>5. Cardinality(Live(phases) \ {s}) = Cardinality(Live(phases)) - 1
  BY <1>4, LiveFinite, FS_RemoveElement
<1>6. QED
  BY <1>1, <1>2, <1>3, <1>4, <1>5 DEF next

\* The output of the latest run is kept, and it is never later than the last.
LEMMA LatestBounds ==
    ASSUME NEW job \in Active, NEW phases \in Seq(Phases), Open(job, phases),
           NEW s \in DOMAIN phases
    PROVE  /\ Latest(job, s) \in Nat /\ Latest(job, s) <= Len(phases)
           /\ s <= Latest(job, s) /\ job.output <= Latest(job, s)
<1>1. DOMAIN phases = 1 .. Len(phases) /\ Len(phases) \in Nat
  BY LenProperties
<1>2. job.output \in Nat /\ job.output <= Len(phases)
  BY DEF Active, Open
<1>3. QED
  BY <1>1, <1>2 DEF Latest

\* A run succeeds while others are under way.
LEMMA OpenSettled ==
    ASSUME NEW job \in Active, NEW phases \in Seq(Phases), Open(job, phases),
           NEW s \in DOMAIN phases, phases[s] = "succeeded", job.pending > 1
    PROVE  Open([job EXCEPT !.pending = @ - 1, !.output = Latest(job, s)],
                [phases EXCEPT ![s] = "over"])
<1> DEFINE next == [phases EXCEPT ![s] = "over"]
           new == [job EXCEPT !.pending = @ - 1, !.output = Latest(job, s)]
<1>1. DOMAIN phases = 1 .. Len(phases) /\ Len(phases) \in Nat
  BY LenProperties
<1>2. /\ next \in Seq(Phases) /\ Len(next) = Len(phases) /\ DOMAIN next = DOMAIN phases
      /\ \A r \in DOMAIN phases : next[r] = IF r = s THEN "over" ELSE phases[r]
      /\ Cardinality(Live(next)) = Cardinality(Live(phases)) - 1
  BY OverOne
<1>3. /\ new.id = job.id /\ new.pending = job.pending - 1 /\ new.output = Latest(job, s)
      /\ job.pending \in Nat /\ job.output \in Nat
  BY DEF Active
<1> HIDE DEF next, new
<1>4. new.pending = Cardinality(Live(next)) /\ new.pending > 0
  BY <1>2, <1>3 DEF Open
<1>5. new.output <= Len(next)
  BY <1>2, <1>3, LatestBounds
<1>6. \A q \in DOMAIN next : next[q] \in {"queued", "running", "over"} \cup Exits
  BY <1>2 DEF Open
<1>7. \A q \in DOMAIN next : next[q] # "queued" => \A r \in 1 .. q - 1 : next[r] \in Gone
  BY <1>1, <1>2 DEF Open, Gone, Exits
<1>8. next[1] # "queued" /\ Len(next) > 0
  BY <1>1, <1>2 DEF Open
<1>9. \A q \in DOMAIN next : next[q] = "over" => q <= new.output
  <2> SUFFICES ASSUME NEW q \in DOMAIN next, next[q] = "over"
               PROVE  q <= new.output
    OBVIOUS
  <2>1. CASE q = s
    BY <2>1, <1>3, LatestBounds
  <2>2. CASE q # s
    <3>1. q <= job.output /\ q \in Nat
      BY <1>1, <1>2, <2>2 DEF Open
    <3>2. job.output <= Latest(job, s) /\ Latest(job, s) \in Nat
      BY LatestBounds
    <3>3. QED
      BY <3>1, <3>2, <1>3
  <2>3. QED
    BY <2>1, <2>2
<1>10. Open(new, next)
  BY <1>3, <1>4, <1>5, <1>6, <1>7, <1>8, <1>9 DEF Open
<1>11. QED
  BY <1>10 DEF new, next

\* The last run to succeed leaves the output of the last in the row.
LEMMA LastOutput ==
    ASSUME NEW job \in Active, NEW phases \in Seq(Phases), Open(job, phases),
           NEW s \in DOMAIN phases, phases[s] = "succeeded", ~(job.pending > 1)
    PROVE  Latest(job, s) = Len(phases)
<1>1. DOMAIN phases = 1 .. Len(phases) /\ Len(phases) \in Nat
  BY LenProperties
<1>2. job.pending \in Nat /\ job.output \in Nat
  BY DEF Active
<1>3. Cardinality(Live(phases)) = 1
  BY <1>2, LiveFinite DEF Open
<1>4. PICK x : Live(phases) = {x}
  BY <1>3, LiveFinite, FS_Singleton
<1>5. Live(phases) = {s}
  BY <1>4 DEF Live
<1>6. Len(phases) \in DOMAIN phases
  BY <1>1 DEF Open
<1>7. CASE s = Len(phases)
  BY <1>1, <1>7, LatestBounds
<1>8. CASE s # Len(phases)
  <2>1. phases[Len(phases)] = "over"
    BY <1>5, <1>6, <1>8 DEF Live
  <2>2. Len(phases) <= job.output
    BY <2>1, <1>6 DEF Open
  <2>3. QED
    BY <1>1, <1>2, <2>2, LatestBounds
<1>9. QED
  BY <1>7, <1>8

\* Closing the scope leaves only runs that unwind, each with its predecessors gone.
LEMMA ClosedShut ==
    ASSUME NEW phases \in Seq(Phases),
           \A s \in DOMAIN phases : phases[s] \in {"queued", "running", "over"} \cup Exits,
           \A s \in DOMAIN phases : phases[s] # "queued" =>
               \A r \in 1 .. s - 1 : phases[r] \in Gone
    PROVE  /\ CloseScope(phases) \in Seq(Phases)
           /\ Len(CloseScope(phases)) = Len(phases)
           /\ \A s \in DOMAIN CloseScope(phases) :
                  CloseScope(phases)[s] \in {"unwinding", "late", "over"}
           /\ \A s \in DOMAIN CloseScope(phases) : CloseScope(phases)[s] = "unwinding" =>
                  \A r \in 1 .. s - 1 : CloseScope(phases)[r] \in Gone
<1> DEFINE next == CloseScope(phases)
<1>1. DOMAIN phases = 1 .. Len(phases) /\ Len(phases) \in Nat
  BY LenProperties
<1>2. DOMAIN next = 1 .. Len(phases) /\ \A s \in 1 .. Len(phases) : next[s] = Closed(phases[s])
  BY <1>1 DEF CloseScope
<1>3. \A s \in 1 .. Len(phases) : next[s] \in {"unwinding", "late", "over"}
  BY <1>1, <1>2 DEF Closed, Exits
<1>4. next \in [1 .. Len(phases) -> Phases]
  BY <1>1, <1>2, <1>3 DEF CloseScope, Phases
<1>5. next \in Seq(Phases) /\ Len(next) = Len(phases)
  BY <1>1, <1>2, <1>4, SeqDef
<1>6. \A s \in 1 .. Len(phases) : next[s] = "unwinding" => phases[s] = "running"
  BY <1>1, <1>2 DEF Closed, Exits
<1>7. \A s \in 1 .. Len(phases) : phases[s] \in Gone => next[s] \in Gone
  BY <1>1, <1>2 DEF Closed, Exits, Gone
<1> HIDE DEF next
<1>8. \A s \in 1 .. Len(phases) : next[s] = "unwinding" =>
          \A r \in 1 .. s - 1 : next[r] \in Gone
  BY <1>1, <1>6, <1>7
<1>9. QED
  BY <1>2, <1>3, <1>5, <1>8 DEF next

\* A run of a shut job is over.
LEMMA ShutMoved ==
    ASSUME NEW job \in Active, NEW phases \in Seq(Phases), Shut(job, phases),
           NEW s \in DOMAIN phases, phases[s] # "over"
    PROVE  Shut(job, [phases EXCEPT ![s] = "over"])
<1> DEFINE next == [phases EXCEPT ![s] = "over"]
<1>1. DOMAIN phases = 1 .. Len(phases) /\ Len(phases) \in Nat
  BY LenProperties
<1>2. /\ Len(next) = Len(phases) /\ DOMAIN next = DOMAIN phases
      /\ \A r \in DOMAIN phases : next[r] = IF r = s THEN "over" ELSE phases[r]
  BY OverOne
<1> HIDE DEF next
<1>3. Shut(job, next)
  BY <1>1, <1>2 DEF Shut, Gone
<1>4. QED
  BY <1>3 DEF next

-----------------------------------------------------------------------------
(* Steps of the registry.                                                  *)

LEMMA InitInv == RegistryInit => IInv
<1> SUFFICES ASSUME RegistryInit PROVE IInv
  OBVIOUS
<1>1. Unused \in Active
  BY DEF Unused, Active
<1>2. TypeOK
  BY <1>1 DEF RegistryInit, TypeOK
<1>3. TableOK
  BY DEF RegistryInit, TableOK, Unused
<1>4. \A t \in Tokens : JobOK(active[t], runs[t])
  BY DEF RegistryInit, JobOK, Unused, Ends
<1>5. QED
  BY <1>2, <1>3, <1>4 DEF IInv

\* A step that changes one job, which was started, and leaves the map alone.
LEMMA OneJob ==
    ASSUME IInv, NEW t \in Tokens, NEW job \in Active, NEW phases \in Seq(Phases),
           active' = [active EXCEPT ![t] = job],
           runs' = [runs EXCEPT ![t] = phases],
           jobs' = jobs,
           JobOK(job, phases),
           job.id = active[t].id,
           active[t].status # "unused", job.status # "unused",
           job.status = "running" => active[t].status = "running"
    PROVE  IInv'
<1>1. TypeOK'
  BY DEF IInv, TypeOK
<1>2. TableOK'
  BY DEF IInv, TypeOK, TableOK, Tokens, None
<1>3. \A u \in Tokens : JobOK(active'[u], runs'[u])
  BY DEF IInv, TypeOK
<1>4. (\A u \in Tokens : JobOK(active[u], runs[u]))'
  BY <1>3 DEF JobOK, Open, Shut
<1>5. QED
  BY <1>1, <1>2, <1>4 DEF IInv

\* What is known of a job in the map that runs.
LEMMA RunningJob ==
    ASSUME IInv, NEW t, t \in Tokens \/ \E id \in Ids : t = jobs[id], Running(t)
    PROVE  /\ t \in Tokens /\ active[t] \in Active /\ runs[t] \in Seq(Phases)
           /\ active[t].status = "running" /\ Open(active[t], runs[t])
           /\ jobs[active[t].id] = t
<1>1. t \in Tokens
  BY DEF IInv, TypeOK, Running
<1>2. QED
  BY <1>1 DEF IInv, TypeOK, TableOK, JobOK, Running

\* start
LEMMA StartInv ==
    ASSUME IInv, NEW id \in Ids, NEW t \in Tokens, NEW b \in BOOLEAN, NEW h \in BOOLEAN,
           Start(id, t, b, h)
    PROVE  IInv'
<1> DEFINE job == [status |-> "running", id |-> id, pending |-> 1, output |-> 0,
                   background |-> b, hook |-> h]
           one == <<"running">>
<1>1. job \in Active /\ one \in Seq(Phases)
  BY DEF Active, Phases
<1>2. job.id = id /\ job.pending = 1 /\ job.output = 0 /\ job.status = "running"
  OBVIOUS
<1>3. /\ active' = [active EXCEPT ![t] = job] /\ runs' = [runs EXCEPT ![t] = one]
      /\ jobs' = [jobs EXCEPT ![id] = t] /\ active[t] = Unused /\ ~Running(jobs[id])
  BY DEF Start
<1> HIDE DEF job, one
<1>4. Open(job, <<"running">>)
  BY <1>1, <1>2, OpenStarted
<1>5. JobOK(job, one)
  BY <1>2, <1>4 DEF JobOK, Ends, one
<1>6. TypeOK'
  BY <1>1, <1>3 DEF IInv, TypeOK
<1>7. TableOK'
  <2>1. \A k \in Ids : jobs'[k] # None =>
            active'[jobs'[k]].id = k /\ active'[jobs'[k]].status # "unused"
    <3> SUFFICES ASSUME NEW k \in Ids, jobs'[k] # None
                 PROVE  active'[jobs'[k]].id = k /\ active'[jobs'[k]].status # "unused"
      OBVIOUS
    <3>1. CASE k = id
      BY <3>1, <1>2, <1>3 DEF IInv, TypeOK
    <3>2. CASE k # id
      <4>1. jobs[k] \in Tokens /\ jobs'[k] = jobs[k]
        BY <3>2, <1>3 DEF IInv, TypeOK
      <4>2. jobs[k] # t
        BY <4>1, <1>3 DEF IInv, TableOK, Unused, Tokens, None
      <4>3. QED
        BY <4>1, <4>2, <1>3 DEF IInv, TypeOK, TableOK, Tokens, None
    <3>3. QED
      BY <3>1, <3>2
  <2>2. \A u \in Tokens : active'[u].status = "running" => jobs'[active'[u].id] = u
    <3> SUFFICES ASSUME NEW u \in Tokens, active'[u].status = "running"
                 PROVE  jobs'[active'[u].id] = u
      OBVIOUS
    <3>1. CASE u = t
      BY <3>1, <1>2, <1>3 DEF IInv, TypeOK
    <3>2. CASE u # t
      <4>1. active'[u] = active[u] /\ Running(u)
        BY <3>2, <1>3 DEF IInv, TypeOK, Running, Tokens, None
      <4>2. jobs[active[u].id] = u
        BY <4>1, RunningJob
      <4>3. active[u].id # id
        BY <4>1, <4>2, <1>3
      <4>4. QED
        BY <4>1, <4>2, <4>3, <1>3 DEF IInv, TypeOK
    <3>3. QED
      BY <3>1, <3>2
  <2>3. QED
    BY <2>1, <2>2 DEF TableOK
<1>8. \A u \in Tokens : JobOK(active'[u], runs'[u])
  BY <1>3, <1>5 DEF IInv, TypeOK
<1>9. (\A u \in Tokens : JobOK(active[u], runs[u]))'
  BY <1>8 DEF JobOK, Open, Shut
<1>10. QED
  BY <1>6, <1>7, <1>9 DEF IInv

\* extend
LEMMA ExtendInv ==
    ASSUME IInv, NEW id \in Ids, Extend(id)
    PROVE  IInv'
<1> DEFINE t == jobs[id]
           job == [active[t] EXCEPT !.pending = @ + 1]
           phases == Append(runs[t], "queued")
<1>1. /\ t \in Tokens /\ active[t] \in Active /\ runs[t] \in Seq(Phases)
      /\ active[t].status = "running" /\ Open(active[t], runs[t])
  BY RunningJob DEF Extend
<1>2. job \in Active /\ job.id = active[t].id /\ job.status = "running"
  BY <1>1 DEF Active
<1>3. phases \in Seq(Phases)
  BY <1>1, AppendProperties DEF Phases
<1>4. active' = [active EXCEPT ![t] = job] /\ runs' = [runs EXCEPT ![t] = phases] /\ jobs' = jobs
  BY DEF Extend
<1>5. Open(job, phases)
  BY <1>1, OpenExtended
<1> HIDE DEF t, job, phases
<1>6. JobOK(job, phases)
  BY <1>2, <1>5 DEF JobOK, Ends
<1>7. QED
  BY <1>1, <1>2, <1>3, <1>4, <1>6, OneJob

\* promote
LEMMA PromoteInv ==
    ASSUME IInv, NEW id \in Ids, Promote(id)
    PROVE  IInv'
<1> DEFINE t == jobs[id]
           job == [active[t] EXCEPT !.background = TRUE, !.hook = FALSE]
<1>1. /\ t \in Tokens /\ active[t] \in Active /\ runs[t] \in Seq(Phases)
      /\ active[t].status = "running" /\ Open(active[t], runs[t])
  BY RunningJob DEF Promote
<1>2. /\ job \in Active /\ job.id = active[t].id /\ job.status = "running"
      /\ job.pending = active[t].pending /\ job.output = active[t].output
  BY <1>1 DEF Active
<1>3. active' = [active EXCEPT ![t] = job] /\ runs' = [runs EXCEPT ![t] = runs[t]] /\ jobs' = jobs
  BY DEF Promote, IInv, TypeOK
<1> HIDE DEF t, job
<1>4. Open(job, runs[t])
  BY <1>1, <1>2 DEF Open
<1>5. JobOK(job, runs[t])
  BY <1>2, <1>4 DEF JobOK, Ends
<1>6. QED
  BY <1>1, <1>2, <1>3, <1>5, OneJob

\* A job that ends: its scope is closed.
LEMMA EndInv ==
    ASSUME IInv, NEW t \in Tokens, Running(t), NEW status \in Ends, NEW output \in Nat,
           NEW phases \in Seq(Phases), Len(phases) = Len(runs[t]),
           \A s \in DOMAIN phases : phases[s] \in {"queued", "running", "over"} \cup Exits,
           \A s \in DOMAIN phases : phases[s] # "queued" =>
               \A r \in 1 .. s - 1 : phases[r] \in Gone,
           status = "completed" => output = Len(phases),
           active' = [active EXCEPT ![t] = End(active[t], status, output)],
           runs' = [runs EXCEPT ![t] = CloseScope(phases)],
           jobs' = jobs
    PROVE  IInv'
<1> DEFINE job == End(active[t], status, output)
           closed == CloseScope(phases)
<1>1. /\ active[t] \in Active /\ active[t].status = "running" /\ Open(active[t], runs[t])
  BY RunningJob
<1>2. /\ job \in Active /\ job.id = active[t].id /\ job.status = status /\ job.output = output
  BY <1>1 DEF Active, End
<1>3. closed \in Seq(Phases) /\ Len(closed) = Len(phases)
  BY ClosedShut
<1>4. active' = [active EXCEPT ![t] = job] /\ runs' = [runs EXCEPT ![t] = closed]
  OBVIOUS
<1>5. /\ \A s \in DOMAIN closed : closed[s] \in {"unwinding", "late", "over"}
      /\ \A s \in DOMAIN closed : closed[s] = "unwinding" => \A r \in 1 .. s - 1 : closed[r] \in Gone
  BY ClosedShut
<1> HIDE DEF job, closed
<1>6. Shut(job, closed)
  BY <1>1, <1>2, <1>3, <1>5 DEF Shut, Open
<1>7. status # "unused" /\ status # "running"
  BY DEF Ends
<1>8. JobOK(job, closed)
  BY <1>2, <1>6, <1>7 DEF JobOK
<1>9. QED
  BY <1>1, <1>2, <1>3, <1>4, <1>7, <1>8, OneJob

\* cancel
LEMMA CancelInv ==
    ASSUME IInv, NEW id \in Ids, Cancel(id)
    PROVE  IInv'
<1> DEFINE t == jobs[id]
<1>1. t \in Tokens /\ Running(t) /\ runs[t] \in Seq(Phases) /\ Open(active[t], runs[t])
  BY RunningJob DEF Cancel
<1>2. "cancelled" \in Ends /\ 0 \in Nat
  BY DEF Ends
<1>3. /\ active' = [active EXCEPT ![t] = End(active[t], "cancelled", 0)]
      /\ runs' = [runs EXCEPT ![t] = CloseScope(runs[t])]
      /\ jobs' = jobs
  BY <1>1 DEF Cancel, IInv, TypeOK
<1> HIDE DEF t
<1>4. /\ \A s \in DOMAIN runs[t] : runs[t][s] \in {"queued", "running", "over"} \cup Exits
      /\ \A s \in DOMAIN runs[t] : runs[t][s] # "queued" =>
             \A r \in 1 .. s - 1 : runs[t][r] \in Gone
  BY <1>1 DEF Open
<1>5. QED
  BY <1>1, <1>2, <1>3, <1>4, EndInv

\* A run that is queued, runs or has exited belongs to a job that runs, unless
\* the scope of its job is closed.
LEMMA RunOfJob ==
    ASSUME IInv, NEW t \in Tokens, NEW s \in DOMAIN runs[t]
    PROVE  /\ active[t] \in Active /\ runs[t] \in Seq(Phases) /\ active[t].status # "unused"
           /\ runs[t][s] \in {"queued", "running"} \cup Exits =>
                  Running(t) /\ Open(active[t], runs[t])
           /\ runs[t][s] \in {"unwinding", "late"} => active[t].status \in Ends
           /\ ~Running(t) => active[t].status \in Ends /\ Shut(active[t], runs[t])
<1>1. active[t] \in Active /\ runs[t] \in Seq(Phases) /\ JobOK(active[t], runs[t]) /\ t # None
  BY DEF IInv, TypeOK, Tokens, None
<1>2. active[t].status \in {"unused", "running"} \cup Ends
  BY <1>1 DEF Active
<1>3. active[t].status # "unused"
  BY <1>1 DEF JobOK
<1>4. active[t].status = "running" => runs[t][s] \notin {"unwinding", "late"}
  BY <1>1 DEF JobOK, Open, Exits
<1>5. active[t].status \in Ends => runs[t][s] \in {"unwinding", "late", "over"}
  BY <1>1 DEF JobOK, Shut
<1>6. {"unwinding", "late", "over"} \cap ({"queued", "running"} \cup Exits) = {}
  BY DEF Exits
<1>7. QED
  BY <1>1, <1>2, <1>3, <1>4, <1>5, <1>6 DEF JobOK, Running

\* A run begins when the one before it has exited, or exits.
LEMMA MoveInv ==
    ASSUME IInv, NEW t \in Tokens, NEW s \in DOMAIN runs[t],
           NEW phase \in {"running"} \cup Exits,
           runs[t][s] \in {"queued", "running"},
           s = 1 \/ runs[t][s - 1] \in Gone \/ runs[t][s] = "running",
           phase = "running" \/ runs[t][s] = "running",
           runs' = [runs EXCEPT ![t][s] = phase],
           UNCHANGED <<jobs, active>>
    PROVE  IInv'
<1> DEFINE phases == [runs[t] EXCEPT ![s] = phase]
<1>1. /\ active[t] \in Active /\ runs[t] \in Seq(Phases)
      /\ active[t].status = "running" /\ Open(active[t], runs[t])
  BY RunOfJob DEF Running
<1>2. Open(active[t], phases)
  BY <1>1, OpenMoved
<1>3. phases \in Seq(Phases)
  <2>1. phase \in Phases
    BY DEF Phases
  <2>2. s \in 1 .. Len(runs[t])
    BY <1>1, LenProperties
  <2>3. QED
    BY <1>1, <2>1, <2>2, ExceptSeq
<1>4. active' = [active EXCEPT ![t] = active[t]] /\ runs' = [runs EXCEPT ![t] = phases] /\ jobs' = jobs
  BY DEF IInv, TypeOK
<1> HIDE DEF phases
<1>5. JobOK(active[t], phases)
  BY <1>1, <1>2 DEF JobOK, Ends
<1>6. QED
  BY <1>1, <1>3, <1>4, <1>5, OneJob

LEMMA BeginInv ==
    ASSUME IInv, NEW t \in Tokens, NEW s \in DOMAIN runs[t], Begin(t, s)
    PROVE  IInv'
<1>1. runs[t][s] = "queued" /\ runs[t][s - 1] \in Gone
  BY DEF Begin, TailResolved, Gone
<1>2. runs' = [runs EXCEPT ![t][s] = "running"] /\ UNCHANGED <<jobs, active>>
  BY DEF Begin
<1>3. QED
  BY <1>1, <1>2, MoveInv

LEMMA ExitInv ==
    ASSUME IInv, NEW t \in Tokens, NEW s \in DOMAIN runs[t], Exit(t, s)
    PROVE  IInv'
<1>1. runs[t][s] = "running" /\ UNCHANGED <<jobs, active>>
  BY DEF Exit
<1>2. PICK exit \in Exits : runs' = [runs EXCEPT ![t][s] = exit]
  BY DEF Exit
<1>3. QED
  BY <1>1, <1>2, MoveInv

\* A run of a job that has ended is over.
LEMMA OverInv ==
    ASSUME IInv, NEW t \in Tokens, NEW s \in DOMAIN runs[t],
           ~Running(t), runs[t][s] # "over",
           runs' = [runs EXCEPT ![t][s] = "over"],
           UNCHANGED <<jobs, active>>
    PROVE  IInv'
<1> DEFINE phases == [runs[t] EXCEPT ![s] = "over"]
<1>1. /\ active[t] \in Active /\ runs[t] \in Seq(Phases)
      /\ active[t].status \in Ends /\ Shut(active[t], runs[t])
  BY RunOfJob
<1>2. Shut(active[t], phases) /\ phases \in Seq(Phases)
  BY <1>1, ShutMoved, OverOne
<1>3. active' = [active EXCEPT ![t] = active[t]] /\ runs' = [runs EXCEPT ![t] = phases] /\ jobs' = jobs
  BY DEF IInv, TypeOK
<1> HIDE DEF phases
<1>4. active[t].status \notin {"unused", "running"}
  BY <1>1 DEF Ends
<1>5. JobOK(active[t], phases)
  BY <1>1, <1>2, <1>4 DEF JobOK
<1>6. QED
  BY <1>1, <1>2, <1>3, <1>4, <1>5, OneJob

LEMMA SettleLateInv ==
    ASSUME IInv, NEW t \in Tokens, NEW s \in DOMAIN runs[t], SettleLate(t, s)
    PROVE  IInv'
<1>1. ~Running(t)
  BY RunningJob DEF SettleLate, Current
<1>2. runs[t][s] # "over"
  BY DEF SettleLate, Exits
<1>3. runs' = [runs EXCEPT ![t][s] = "over"] /\ UNCHANGED <<jobs, active>>
  BY DEF SettleLate
<1>4. QED
  BY <1>1, <1>2, <1>3, OverInv

LEMMA UnwoundInv ==
    ASSUME IInv, NEW t \in Tokens, NEW s \in DOMAIN runs[t], Unwound(t, s)
    PROVE  IInv'
<1>1. runs[t][s] = "unwinding"
  BY DEF Unwound
<1>2. ~Running(t)
  BY <1>1, RunOfJob DEF Running, Ends
<1>3. runs' = [runs EXCEPT ![t][s] = "over"] /\ UNCHANGED <<jobs, active>>
  BY DEF Unwound
<1>4. QED
  BY <1>1, <1>2, <1>3, OverInv

\* settle
LEMMA SettleInv ==
    ASSUME IInv, NEW t \in Tokens, NEW s \in DOMAIN runs[t], Settle(t, s)
    PROVE  IInv'
<1> DEFINE job == active[t]
           phases == [runs[t] EXCEPT ![s] = "over"]
           exit == runs[t][s]
           output == IF exit = "succeeded" THEN Latest(job, s) ELSE job.output
<1>1. /\ job \in Active /\ runs[t] \in Seq(Phases) /\ job.status = "running"
      /\ Open(job, runs[t]) /\ Running(t) /\ exit \in Exits /\ jobs' = jobs
  BY RunOfJob DEF Settle, Current, Running
<1>2. output \in Nat
  BY <1>1, LatestBounds DEF Active
<1>3. exit # "over"
  BY <1>1 DEF Exits
<1>4. /\ phases \in Seq(Phases) /\ Len(phases) = Len(runs[t]) /\ DOMAIN phases = DOMAIN runs[t]
      /\ \A r \in DOMAIN runs[t] : phases[r] = IF r = s THEN "over" ELSE runs[t][r]
  BY <1>1, <1>3, OverOne
<1>5. CASE exit = "succeeded" /\ job.pending > 1
  <2> DEFINE new == [job EXCEPT !.pending = @ - 1, !.output = output]
  <2>1. Open(new, phases)
    BY <1>1, <1>5, OpenSettled
  <2>2. new \in Active /\ new.id = job.id /\ new.status = "running"
    <3>1. job.pending - 1 \in Nat
      BY <1>1, <1>5 DEF Active
    <3> HIDE DEF job, exit, output
    <3>2. QED
      BY <1>1, <1>2, <3>1 DEF Active
  <2>3. active' = [active EXCEPT ![t] = new] /\ runs' = [runs EXCEPT ![t] = phases]
    BY <1>5 DEF Settle
  <2> HIDE DEF new, phases
  <2>4. JobOK(new, phases)
    BY <2>1, <2>2 DEF JobOK, Ends
  <2>5. QED
    BY <1>1, <1>4, <2>2, <2>3, <2>4, OneJob
<1>6. CASE ~(exit = "succeeded" /\ job.pending > 1)
  <2>1. PICK status \in Verdicts(exit) : active' = [active EXCEPT ![t] = End(job, status, output)]
    BY <1>6 DEF Settle
  <2>2. status \in Ends
    BY DEF Verdicts, Ends
  <2>3. status = "completed" => output = Len(phases)
    BY <1>1, <1>4, <1>6, LastOutput DEF Verdicts
  <2>4. runs' = [runs EXCEPT ![t] = CloseScope(phases)]
    BY <1>6 DEF Settle, IInv, TypeOK
  <2> HIDE DEF phases, output
  <2>5. \A q \in DOMAIN phases : phases[q] \in {"queued", "running", "over"} \cup Exits
    BY <1>1, <1>4 DEF Open
  <2>6. DOMAIN runs[t] = 1 .. Len(runs[t]) /\ Len(runs[t]) \in Nat
    BY <1>1, LenProperties
  <2>7. \A q \in DOMAIN phases : phases[q] # "queued" => \A r \in 1 .. q - 1 : phases[r] \in Gone
    <3> SUFFICES ASSUME NEW q \in DOMAIN phases, phases[q] # "queued", NEW r \in 1 .. q - 1
                 PROVE  phases[r] \in Gone
      OBVIOUS
    <3>1. q \in DOMAIN runs[t] /\ r \in DOMAIN runs[t] /\ runs[t][q] # "queued"
      BY <1>1, <1>4, <2>6 DEF Exits
    <3>2. runs[t][r] \in Gone
      BY <1>1, <3>1 DEF Open
    <3>3. QED
      BY <1>4, <3>1, <3>2 DEF Gone
  <2> HIDE DEF exit
  <2>8. Len(phases) = Len(runs[t]) /\ phases \in Seq(Phases) /\ Running(t) /\ jobs' = jobs
    BY <1>1, <1>4
  <2>9. QED
    BY <1>2, <2>1, <2>2, <2>3, <2>4, <2>5, <2>7, <2>8, EndInv
<1>7. QED
  BY <1>5, <1>6

\* Every step of the registry preserves the invariant.
LEMMA NextInv == IInv /\ [RegistryNext]_registry => IInv'
<1> SUFFICES ASSUME IInv, [RegistryNext]_registry PROVE IInv'
  OBVIOUS
<1>1. ASSUME NEW id \in Ids, NEW t \in Tokens, NEW b \in BOOLEAN, NEW h \in BOOLEAN,
             Start(id, t, b, h)
      PROVE  IInv'
  BY <1>1, StartInv
<1>2. ASSUME NEW id \in Ids, Extend(id) \/ Promote(id) \/ Cancel(id)
      PROVE  IInv'
  BY <1>2, ExtendInv, PromoteInv, CancelInv
<1>3. ASSUME NEW t \in Tokens, NEW s \in DOMAIN runs[t], RunStep(t, s)
      PROVE  IInv'
  BY <1>3, BeginInv, ExitInv, SettleInv, SettleLateInv, UnwoundInv DEF RunStep
<1>4. CASE UNCHANGED registry
  BY <1>4 DEF registry, IInv, TypeOK, TableOK, JobOK, Open, Shut
<1>5. QED
  BY <1>1, <1>2, <1>3, <1>4 DEF RegistryNext

THEOREM Invariance == Registry => []IInv
BY InitInv, NextInv, PTL DEF Registry

-----------------------------------------------------------------------------
(* The properties.                                                         *)

\* Type correctness of the registry.
THEOREM TypesHold == Registry => []TypeOK
<1>1. IInv => TypeOK
  BY DEF IInv
<1>2. QED
  BY <1>1, Invariance, PTL

\* A running job counts the runs it waits for, has one, and is in the map.
THEOREM WorkIsCounted == Registry => []RunningJobsAreWorked
<1>1. IInv => RunningJobsAreWorked
  <2> SUFFICES ASSUME IInv, NEW t \in Tokens, Running(t)
               PROVE  /\ active[t].pending = Cardinality(Unsettled(t))
                      /\ active[t].pending > 0
                      /\ jobs[active[t].id] = t
    BY DEF RunningJobsAreWorked
  <2>1. Unsettled(t) = Live(runs[t])
    BY DEF Unsettled, Live
  <2>2. QED
    BY <2>1, RunningJob DEF Open
<1>2. QED
  BY <1>1, Invariance, PTL

\* The runs of a job never overlap.
THEOREM NoOverlap == Registry => []RunsInTurn
<1>1. IInv => RunsInTurn
  <2> SUFFICES ASSUME IInv, NEW t \in Tokens, NEW s \in DOMAIN runs[t],
                      runs[t][s] \in {"running", "unwinding"}, NEW r \in 1 .. s - 1
               PROVE  TailResolved(t, r)
    BY DEF RunsInTurn
  <2>1. CASE runs[t][s] = "running"
    BY <2>1, RunOfJob DEF Open, TailResolved, Gone
  <2>2. CASE runs[t][s] = "unwinding"
    <3>1. Shut(active[t], runs[t])
      BY <2>2, RunOfJob DEF Running, Ends
    <3>2. QED
      BY <3>1, <2>2 DEF Shut, TailResolved, Gone
  <2>3. QED
    BY <2>1, <2>2
<1>2. QED
  BY <1>1, Invariance, PTL

\* A completed job has the output of its last run.
THEOREM LastOutputWins == Registry => []CompletesWithTheLastOutput
<1>1. IInv => CompletesWithTheLastOutput
  BY DEF IInv, JobOK, Shut, Ends, CompletesWithTheLastOutput
<1>2. QED
  BY <1>1, Invariance, PTL

\* A job that has ended keeps its status and its output.
THEOREM EndsAreFinal == Registry => EndedJobsStayEnded
<1>1. IInv /\ [RegistryNext]_registry =>
          [\A t \in Tokens : Ended(t) => active'[t] = active[t]]_registry
  <2> SUFFICES ASSUME IInv, RegistryNext, NEW t \in Tokens, Ended(t)
               PROVE  active'[t] = active[t]
    OBVIOUS
  <2>0. active[t].status \in Ends /\ ~Running(t) /\ active[t] # Unused /\ active \in [Tokens -> Active]
    BY DEF Ended, Ends, Running, Unused, IInv, TypeOK
  <2>1. CASE \E id \in Ids : \E u \in Tokens, b, h \in BOOLEAN : Start(id, u, b, h)
    BY <2>0, <2>1 DEF Start
  <2>2. CASE \E id \in Ids : Extend(id) \/ Promote(id) \/ Cancel(id)
    BY <2>0, <2>2 DEF Extend, Promote, Cancel
  <2>3. CASE \E u \in Tokens : \E s \in DOMAIN runs[u] : RunStep(u, s)
    <3>0. PICK u \in Tokens : \E s \in DOMAIN runs[u] : RunStep(u, s)
      BY <2>3
    <3>1. PICK s \in DOMAIN runs[u] : RunStep(u, s)
      BY <3>0
    <3>2. CASE Settle(u, s)
      BY <2>0, <3>2 DEF Settle, Current
    <3>3. CASE Begin(u, s) \/ Exit(u, s) \/ SettleLate(u, s) \/ Unwound(u, s)
      BY <3>3 DEF Begin, Exit, SettleLate, Unwound
    <3>4. QED
      BY <3>1, <3>2, <3>3 DEF RunStep
  <2>4. QED
    BY <2>1, <2>2, <2>3 DEF RegistryNext
<1>2. QED
  BY <1>1, Invariance, PTL DEF Registry, EndedJobsStayEnded

-----------------------------------------------------------------------------
(* The task tool.                                                          *)

CallOK(c) ==
    /\ calls[c].at = "idle" => active[c].status = "unused"
    /\ calls[c].at # "idle" => /\ active[c].status # "unused"
                               /\ calls[c].id \in Ids
                               /\ active[c].id = calls[c].id
                               /\ jobs[calls[c].id] # None
    /\ active[c].status = "running" /\ ~active[c].background =>
           active[c].hook /\ calls[c].at = "waiting"
    /\ active[c].background <=> notes[c].at # "none"
    /\ calls[c].result = "none" <=> calls[c].at # "returned"
    /\ calls[c].result \in {"output", "failed"} =>
           ~active[c].background /\ active[c].status \in Ends
    /\ calls[c].result = "background" => active[c].background
    /\ notes[c].on = None <=> notes[c].at \in {"none", "meta"}
    /\ notes[c].at = "silent" => active[notes[c].on].status = "cancelled"
    /\ notes[c].at = "injected" => active[notes[c].on].status \in {"completed", "error"}

TInv == IInv /\ CallsOK /\ \A c \in Calls : CallOK(c)

\* A step that neither starts nor promotes a job leaves of it what calls look at.
Same(t) ==
    /\ active'[t].id = active[t].id
    /\ active'[t].background = active[t].background
    /\ active'[t].status = "unused" <=> active[t].status = "unused"
    /\ active'[t].status = "running" => active[t].status = "running" /\ active'[t].hook = active[t].hook
    /\ active[t].status \in Ends => active'[t].status = active[t].status

Steady == jobs' = jobs /\ \A t \in Tokens : Same(t)

-----------------------------------------------------------------------------
(* The registry.                                                           *)

\* What any of its jobs is.
LEMMA JobType ==
    ASSUME IInv, NEW t \in Tokens
    PROVE  /\ active[t] \in Active /\ t # None
           /\ active[t].status = "unused" => active[t] = Unused
BY DEF IInv, TypeOK, JobOK, Tokens, None

LEMMA UnchangedSteady ==
    ASSUME IInv, UNCHANGED registry
    PROVE  Steady
BY DEF Steady, Same, registry, IInv, TypeOK

\* A job that is ended or changed without its status.
LEMMA ChangeSteady ==
    ASSUME IInv, NEW t \in Tokens, Running(t), NEW job,
           active' = [active EXCEPT ![t] = job], jobs' = jobs,
           job.id = active[t].id, job.background = active[t].background,
           job.status # "unused",
           job.status = "running" => job.hook = active[t].hook
    PROVE  Steady
<1>1. active \in [Tokens -> Active] /\ active[t].status = "running" /\ "running" \notin Ends
  BY DEF IInv, TypeOK, Running, Ends
<1>2. ASSUME NEW u \in Tokens PROVE Same(u)
  <2>1. CASE u = t
    BY <1>1, <2>1 DEF Same
  <2>2. CASE u # t
    BY <1>1, <2>2 DEF Same
  <2>3. QED
    BY <2>1, <2>2
<1>3. QED
  BY <1>2 DEF Steady

\* What End leaves.
LEMMA EndKeeps ==
    ASSUME NEW job \in Active, NEW status \in Ends, NEW output
    PROVE  /\ End(job, status, output).id = job.id
           /\ End(job, status, output).background = job.background
           /\ End(job, status, output).status = status
           /\ status # "unused" /\ status # "running"
BY DEF End, Active, Ends

LEMMA CancelSteady ==
    ASSUME IInv, NEW id \in Ids, Cancel(id)
    PROVE  Steady /\ ~Running(jobs[id])'
<1>1. jobs[id] \in Tokens /\ Running(jobs[id]) /\ active[jobs[id]] \in Active
  BY RunningJob DEF Cancel
<1>2. "cancelled" \in Ends
  BY DEF Ends
<1> DEFINE job == End(active[jobs[id]], "cancelled", 0)
<1>3. active' = [active EXCEPT ![jobs[id]] = job] /\ jobs' = jobs
  BY DEF Cancel
<1>4. /\ job.id = active[jobs[id]].id /\ job.background = active[jobs[id]].background
      /\ job.status = "cancelled"
  BY <1>1, <1>2, EndKeeps
<1> HIDE DEF job
<1>5. Steady
  BY <1>1, <1>3, <1>4, ChangeSteady
<1>6. active'[jobs[id]] = job
  BY <1>1, <1>3 DEF IInv, TypeOK
<1>7. QED
  BY <1>3, <1>4, <1>5, <1>6 DEF Running

LEMMA ExtendSteady ==
    ASSUME IInv, NEW id \in Ids, Extend(id)
    PROVE  Steady
<1>1. jobs[id] \in Tokens /\ Running(jobs[id]) /\ active[jobs[id]] \in Active
  BY RunningJob DEF Extend
<1> DEFINE job == [active[jobs[id]] EXCEPT !.pending = @ + 1]
<1>2. active' = [active EXCEPT ![jobs[id]] = job] /\ jobs' = jobs
  BY DEF Extend
<1>3. /\ job.id = active[jobs[id]].id /\ job.background = active[jobs[id]].background
      /\ job.status = active[jobs[id]].status /\ job.hook = active[jobs[id]].hook
  BY <1>1 DEF Active
<1> HIDE DEF job
<1>4. QED
  BY <1>1, <1>2, <1>3, ChangeSteady DEF Running

LEMMA SettleSteady ==
    ASSUME IInv, NEW t \in Tokens, NEW s \in DOMAIN runs[t], Settle(t, s)
    PROVE  Steady
<1> DEFINE exit == runs[t][s]
           output == IF exit = "succeeded" THEN Latest(active[t], s) ELSE active[t].output
<1>1. Running(t) /\ active[t] \in Active /\ jobs' = jobs
  BY JobType DEF Settle, Current
<1>2. CASE exit = "succeeded" /\ active[t].pending > 1
  <2> DEFINE job == [active[t] EXCEPT !.pending = @ - 1, !.output = output]
  <2>1. active' = [active EXCEPT ![t] = job]
    BY <1>2 DEF Settle
  <2>2. /\ job.id = active[t].id /\ job.background = active[t].background
        /\ job.status = active[t].status /\ job.hook = active[t].hook
    BY <1>1 DEF Active
  <2> HIDE DEF job
  <2>3. QED
    BY <1>1, <2>1, <2>2, ChangeSteady DEF Running
<1>3. CASE ~(exit = "succeeded" /\ active[t].pending > 1)
  <2>1. PICK status \in Verdicts(exit) : active' = [active EXCEPT ![t] = End(active[t], status, output)]
    BY <1>3 DEF Settle
  <2>2. status \in Ends
    BY DEF Verdicts, Ends
  <2> DEFINE job == End(active[t], status, output)
  <2>3. /\ job.id = active[t].id /\ job.background = active[t].background
        /\ job.status = status /\ status # "unused" /\ status # "running"
    BY <1>1, <2>2, EndKeeps
  <2> HIDE DEF job, output
  <2>4. active' = [active EXCEPT ![t] = job]
    BY <2>1 DEF job
  <2>5. QED
    BY <1>1, <2>3, <2>4, ChangeSteady
<1>4. QED
  BY <1>2, <1>3

LEMMA RunSteady ==
    ASSUME IInv, NEW t \in Tokens, NEW s \in DOMAIN runs[t], RunStep(t, s)
    PROVE  Steady
<1>1. CASE Settle(t, s)
  BY <1>1, SettleSteady
<1>2. CASE Begin(t, s) \/ Exit(t, s) \/ SettleLate(t, s) \/ Unwound(t, s)
  BY <1>2 DEF Begin, Exit, SettleLate, Unwound, Steady, Same, IInv, TypeOK
<1>3. QED
  BY <1>1, <1>2 DEF RunStep

-----------------------------------------------------------------------------
(* The calls.                                                              *)

\* What a call and its notification are.
LEMMA CallType ==
    ASSUME CallsOK, NEW c \in Calls
    PROVE  /\ calls[c].at \in CallPlaces /\ calls[c].id \in Ids \cup {None}
           /\ calls[c].result \in Results
           /\ notes[c].at \in NotePlaces /\ notes[c].on \in Tokens \cup {None}
BY DEF CallsOK

\* A call that does not move is not disturbed by what happens to other jobs.
LEMMA CallStays ==
    ASSUME TInv, NEW c \in Calls, calls'[c] = calls[c], notes'[c] = notes[c], Same(c),
           \A id \in Ids : jobs[id] # None => jobs'[id] # None,
           \A t \in Tokens : active[t].status \in Ends => active'[t].status = active[t].status
    PROVE  CallOK(c)'
<1>1. CallOK(c)
  BY DEF TInv
<1>2. notes[c].on \in Tokens \cup {None}
  BY CallType DEF TInv
<1>3. notes[c].at \in {"silent", "injected"} =>
          active'[notes[c].on].status = active[notes[c].on].status
  <2> SUFFICES ASSUME notes[c].at \in {"silent", "injected"}
               PROVE  active'[notes[c].on].status = active[notes[c].on].status
    OBVIOUS
  <2>1. notes[c].on \in Tokens
    BY <1>1, <1>2 DEF CallOK
  <2>2. active[notes[c].on].status \in Ends
    BY <1>1 DEF CallOK, Ends
  <2>3. QED
    BY <2>1, <2>2
<1>4. active[c].status \in Ends => active'[c].status \in Ends
  BY DEF Same
<1>5. QED
  BY <1>1, <1>3, <1>4 DEF CallOK, Same

LEMMA CallKept ==
    ASSUME TInv, Steady, NEW c \in Calls, calls'[c] = calls[c], notes'[c] = notes[c]
    PROVE  CallOK(c)'
BY CallStays DEF Steady, Same, Calls

\* A step of the registry that no call takes part in.
LEMMA SteadyInv ==
    ASSUME TInv, IInv', Steady, UNCHANGED <<calls, notes>>, CallsOK'
    PROVE  TInv'
<1>1. \A c \in Calls : CallOK(c)'
  BY CallKept
<1>2. QED
  BY <1>1 DEF TInv, Calls

\* What CancelNow does.
LEMMA CancelNowSteady ==
    ASSUME TInv, NEW id \in Ids, CancelNow(id)
    PROVE  Steady /\ IInv' /\ ~Running(jobs[id])' /\ [RegistryNext]_registry
<1>0. IInv
  BY DEF TInv
<1>1. CASE Cancel(id)
  BY <1>0, <1>1, CancelSteady, CancelInv DEF RegistryNext
<1>2. CASE ~Running(jobs[id]) /\ UNCHANGED registry
  <2>1. [RegistryNext]_registry
    BY <1>2
  <2>2. IInv'
    BY <1>0, <2>1, NextInv
  <2>3. ~Running(jobs[id])'
    BY <1>2 DEF Running, registry
  <2>4. QED
    BY <1>0, <1>2, <2>1, <2>2, <2>3, UnchangedSteady
<1>3. QED
  BY <1>1, <1>2 DEF CancelNow

\* The step of a call that waits or cancels: only its place and result change.
LEMMA CallInv ==
    ASSUME TInv, IInv', Steady, NEW c \in Calls, NEW at \in CallPlaces \ {"idle"},
           NEW result \in Results,
           calls[c].at # "idle",
           calls' = [calls EXCEPT ![c].at = at, ![c].result = result],
           UNCHANGED <<notes, abort>>,
           at = "waiting" \/ ~Running(c)' \/ active[c].background,
           result = "none" <=> at # "returned",
           result \in {"output", "failed"} => ~active[c].background /\ active[c].status \in Ends,
           result = "background" => active[c].background
    PROVE  TInv'
<1>0. /\ calls \in [Calls -> [at : CallPlaces, id : Ids \cup {None}, result : Results]]
      /\ notes \in [Calls -> [at : NotePlaces, on : Tokens \cup {None}]]
      /\ CallOK(c) /\ Same(c) /\ c \in Tokens /\ c # None
  BY JobType DEF TInv, CallsOK, Steady, Calls
<1>1. CallsOK'
  BY <1>0 DEF TInv, CallsOK
<1>2. \A d \in Calls : d # c => CallOK(d)'
  BY <1>0, CallKept
<1>3. calls'[c].at = at /\ calls'[c].result = result /\ calls'[c].id = calls[c].id
  BY <1>0
<1>4. notes[c].at \in {"silent", "injected"} =>
          active'[notes[c].on].status = active[notes[c].on].status
  <2> SUFFICES ASSUME notes[c].at \in {"silent", "injected"}
               PROVE  active'[notes[c].on].status = active[notes[c].on].status
    OBVIOUS
  <2>1. notes[c].on \in Tokens
    BY <1>0 DEF CallOK
  <2>2. active[notes[c].on].status \in Ends
    BY <1>0 DEF CallOK, Ends
  <2>3. QED
    BY <2>1, <2>2 DEF Steady, Same
<1>5. at # "waiting" => ~(active'[c].status = "running" /\ ~active'[c].background)
  BY <1>0 DEF Same, Running
<1>6. active[c].status \in Ends => active'[c].status \in Ends
  BY <1>0 DEF Same
<1>7. /\ active'[c].status # "unused" /\ active'[c].id = calls'[c].id /\ calls'[c].id \in Ids
      /\ jobs'[calls'[c].id] # None
  BY <1>0, <1>3 DEF CallOK, Same, Steady
<1>8. active'[c].status = "running" /\ ~active'[c].background => active'[c].hook /\ at = "waiting"
  BY <1>0, <1>5 DEF CallOK, Same
<1>9. active'[c].background <=> notes'[c].at # "none"
  BY <1>0 DEF CallOK, Same
<1>10. /\ result \in {"output", "failed"} => ~active'[c].background /\ active'[c].status \in Ends
       /\ result = "background" => active'[c].background
  BY <1>0, <1>6 DEF Same
<1>11. /\ notes'[c].on = None <=> notes'[c].at \in {"none", "meta"}
       /\ notes'[c].at = "silent" => active'[notes'[c].on].status = "cancelled"
       /\ notes'[c].at = "injected" => active'[notes'[c].on].status \in {"completed", "error"}
  BY <1>0, <1>4 DEF CallOK
<1>12. CallOK(c)'
  BY <1>3, <1>7, <1>8, <1>9, <1>10, <1>11 DEF CallOK
<1>13. QED
  BY <1>1, <1>2, <1>12 DEF TInv, Calls

\* The result of a call whose job has ended or is in the background.
LEMMA ResolveInv ==
    ASSUME TInv, NEW c \in Calls, Resolve(c)
    PROVE  TInv'
<1>1. IInv' /\ Steady
  BY UnchangedSteady, NextInv DEF Resolve, TInv
<1>2. c \in Tokens /\ c # None /\ CallOK(c)
  BY JobType DEF TInv, Calls
<1>3. /\ calls[c].at # "idle" /\ UNCHANGED <<notes, abort>>
      /\ calls' = [calls EXCEPT ![c].at = "returned", ![c].result = Outcome(c)]
      /\ active' = active
      /\ active[c].background \/ active[c].status \in Ends
  BY DEF Resolve, Return, Ended, registry
<1>4. Outcome(c) \in Results \ {"none"} /\ "returned" \in CallPlaces \ {"idle"}
  BY DEF Outcome, Results, CallPlaces
<1>5. Outcome(c) \in {"output", "failed"} => ~active[c].background /\ active[c].status \in Ends
  <2>1. CASE active[c].background
    BY <2>1 DEF Outcome
  <2>2. CASE ~active[c].background
    BY <1>3, <2>2
  <2>3. QED
    BY <2>1, <2>2
<1>6. Outcome(c) = "background" => active[c].background
  BY DEF Outcome
<1>7. ~Running(c)' \/ active[c].background
  BY <1>3 DEF Running, Ends
<1>8. QED
  BY <1>1, <1>3, <1>4, <1>5, <1>6, <1>7, CallInv

\* A call that is interrupted ends its own job, if that still runs in the foreground.
LEMMA InterruptInv ==
    ASSUME TInv, NEW c \in Calls, InterruptCall(c)
    PROVE  TInv'
<1>1. c \in Tokens /\ c # None /\ CallOK(c)
  BY JobType DEF TInv, Calls
<1>2. calls[c].at = "waiting" /\ calls[c].id \in Ids /\ active[c].id = calls[c].id
  BY <1>1 DEF InterruptCall, CallOK
<1>3. PICK id \in Ids : id = calls[c].id
  BY <1>2
<1>4. Steady /\ IInv' /\ ~Running(c)'
  <2>1. CancelNow(id)
    BY <1>3 DEF InterruptCall
  <2>2. Steady /\ IInv' /\ ~Running(jobs[id])'
    BY <2>1, CancelNowSteady
  <2> SUFFICES ASSUME Running(c)' PROVE FALSE
    BY <2>2
  <2>3. Running(c) /\ jobs' = jobs
    BY <1>1, <2>2 DEF Running, Steady, Same
  <2>4. jobs[id] = c
    BY <1>1, <1>2, <1>3, <2>3, RunningJob DEF TInv
  <2>5. QED
    BY <2>2, <2>3, <2>4 DEF Running
<1>5. calls' = [calls EXCEPT ![c].at = "cancelling", ![c].result = calls[c].result]
  BY DEF InterruptCall, TInv, CallsOK
<1>6. /\ calls[c].result = "none" /\ calls[c].result \in Results
      /\ "cancelling" \in CallPlaces \ {"idle"}
  BY <1>1, <1>2 DEF CallOK, Results, CallPlaces
<1>7. calls[c].at # "idle" /\ UNCHANGED <<notes, abort>>
  BY <1>2 DEF InterruptCall
<1>8. calls[c].result = "none" <=> "cancelling" # "returned"
  BY <1>6
<1>9. /\ calls[c].result \notin {"output", "failed"}
      /\ calls[c].result # "background"
  BY <1>6
<1>10. QED
  BY <1>4, <1>5, <1>6, <1>7, <1>8, <1>9, CallInv

\* Thereafter it cancels once more and returns.
LEMMA AgainInv ==
    ASSUME TInv, NEW c \in Calls, CancelAgain(c)
    PROVE  TInv'
<1>1. c \in Tokens /\ c # None /\ CallOK(c)
  BY JobType DEF TInv, Calls
<1>2. calls[c].at = "cancelling" /\ calls[c].id \in Ids /\ CancelNow(calls[c].id)
  BY <1>1 DEF CancelAgain, CallOK
<1>3. Steady /\ IInv'
  BY <1>2, CancelNowSteady
<1>4. ~Running(c)' \/ active[c].background
  BY <1>1, <1>2, <1>3 DEF CallOK, Steady, Same, Running
<1>5. calls' = [calls EXCEPT ![c].at = "again", ![c].result = calls[c].result]
  BY DEF CancelAgain, TInv, CallsOK
<1>6. /\ calls[c].result = "none" /\ calls[c].result \in Results
      /\ "again" \in CallPlaces \ {"idle"}
  BY <1>1, <1>2 DEF CallOK, Results, CallPlaces
<1>7. calls[c].at # "idle" /\ UNCHANGED <<notes, abort>>
  BY <1>2 DEF CancelAgain
<1>8. calls[c].result = "none" <=> "again" # "returned"
  BY <1>6
<1>9. /\ calls[c].result \notin {"output", "failed"}
      /\ calls[c].result # "background"
  BY <1>6
<1>10. QED
  BY <1>3, <1>4, <1>5, <1>6, <1>7, <1>8, <1>9, CallInv

LEMMA ReturnInv ==
    ASSUME TInv, NEW c \in Calls, ReturnAborted(c)
    PROVE  TInv'
<1>1. c \in Tokens /\ c # None /\ CallOK(c)
  BY JobType DEF TInv, Calls
<1>2. IInv' /\ Steady
  BY UnchangedSteady, NextInv DEF ReturnAborted, TInv
<1>3. ~Running(c)' \/ active[c].background
  BY <1>1, <1>2 DEF ReturnAborted, CallOK, Steady, Same, Running
<1>4. /\ calls[c].at # "idle" /\ UNCHANGED <<notes, abort>>
      /\ calls' = [calls EXCEPT ![c].at = "returned", ![c].result = "aborted"]
  BY DEF ReturnAborted, Return
<1>5. "aborted" \in Results /\ "returned" \in CallPlaces \ {"idle"}
  BY DEF Results, CallPlaces
<1>6. QED
  BY <1>2, <1>3, <1>4, <1>5, CallInv

-----------------------------------------------------------------------------
(* Starting, promoting and reporting a job.                                *)

\* A call that starts a job becomes the job's token; the others see nothing of it.
LEMMA StartTaskInv ==
    ASSUME TInv, NEW c \in Calls, NEW id \in Ids, NEW b \in BOOLEAN, Start(id, c, b, TRUE),
           calls' = [calls EXCEPT ![c] = [at |-> IF b THEN "returned" ELSE "waiting", id |-> id,
                                          result |-> IF b THEN "background" ELSE "none"]],
           notes' = IF b THEN [notes EXCEPT ![c] = [at |-> "waiting", on |-> jobs'[id]]]
                         ELSE notes,
           UNCHANGED abort
    PROVE  TInv'
<1> DEFINE job == [status |-> "running", id |-> id, pending |-> 1, output |-> 0,
                   background |-> b, hook |-> TRUE]
<1>1. /\ c \in Tokens /\ c # None /\ IInv /\ CallOK(c)
      /\ calls \in [Calls -> [at : CallPlaces, id : Ids \cup {None}, result : Results]]
      /\ notes \in [Calls -> [at : NotePlaces, on : Tokens \cup {None}]]
      /\ jobs \in [Ids -> Tokens \cup {None}] /\ active \in [Tokens -> Active]
  BY JobType DEF TInv, CallsOK, IInv, TypeOK, Calls
<1>2. /\ active' = [active EXCEPT ![c] = job] /\ jobs' = [jobs EXCEPT ![id] = c]
      /\ active[c] = Unused
  BY DEF Start
<1>3. active'[c] = job /\ jobs'[id] = c
  BY <1>1, <1>2
<1>4. IInv'
  BY <1>1, StartInv
<1>5. CallsOK'
  <2>1. [at |-> IF b THEN "returned" ELSE "waiting", id |-> id,
         result |-> IF b THEN "background" ELSE "none"]
            \in [at : CallPlaces, id : Ids \cup {None}, result : Results]
    BY DEF CallPlaces, Results
  <2>2. [at |-> "waiting", on |-> c] \in [at : NotePlaces, on : Tokens \cup {None}]
    BY <1>1 DEF NotePlaces
  <2>3. calls' \in [Calls -> [at : CallPlaces, id : Ids \cup {None}, result : Results]]
    BY <1>1, <2>1
  <2>4. notes' \in [Calls -> [at : NotePlaces, on : Tokens \cup {None}]]
    BY <1>1, <1>3, <2>2
  <2>5. abort' = abort
    OBVIOUS
  <2>6. QED
    BY <2>3, <2>4, <2>5 DEF TInv, CallsOK
<1>6. ASSUME NEW d \in Calls, d # c PROVE CallOK(d)'
  <2>1. calls'[d] = calls[d] /\ notes'[d] = notes[d] /\ active'[d] = active[d]
    BY <1>1, <1>2, <1>6 DEF Calls
  <2>2. Same(d)
    BY <2>1 DEF Same
  <2>3. \A k \in Ids : jobs[k] # None => jobs'[k] # None
    BY <1>1, <1>2
  <2>4. \A t \in Tokens : active[t].status \in Ends => active'[t].status = active[t].status
    BY <1>1, <1>2 DEF Unused, Ends
  <2>5. QED
    BY <2>1, <2>2, <2>3, <2>4, CallStays
<1>7. CallOK(c)'
  <2>1. notes[c].at = "none" /\ notes[c].on = None
    BY <1>1, <1>2 DEF CallOK, Unused
  <2>2. /\ active'[c].status = "running" /\ active'[c].id = id
        /\ active'[c].background = b /\ active'[c].hook = TRUE
    BY <1>3
  <2>3. /\ calls'[c].at = IF b THEN "returned" ELSE "waiting"
        /\ calls'[c].id = id
        /\ calls'[c].result = IF b THEN "background" ELSE "none"
    BY <1>1
  <2>4. CASE b
    <3>1. notes'[c].at = "waiting" /\ notes'[c].on = c
      BY <1>1, <1>3, <2>4
    <3>2. /\ active'[c].status = "running" /\ active'[c].background /\ active'[c].id = id
          /\ calls'[c].at = "returned" /\ calls'[c].result = "background"
          /\ calls'[c].id = id /\ jobs'[id] # None
      BY <1>1, <1>3, <2>2, <2>3, <2>4
    <3>3. QED
      BY <1>1, <3>1, <3>2 DEF CallOK
  <2>5. CASE ~b
    <3>1. notes'[c].at = "none" /\ notes'[c].on = None
      BY <2>1, <2>5
    <3>2. /\ active'[c].status = "running" /\ ~active'[c].background /\ active'[c].id = id
          /\ active'[c].hook
          /\ calls'[c].at = "waiting" /\ calls'[c].result = "none"
          /\ calls'[c].id = id /\ jobs'[id] # None
      BY <1>1, <1>3, <2>2, <2>3, <2>5
    <3>3. QED
      BY <1>1, <3>1, <3>2 DEF CallOK
  <2>6. QED
    BY <2>4, <2>5
<1>8. QED
  BY <1>4, <1>5, <1>6, <1>7 DEF TInv, Calls

\* Promotion finds the hook of a job in the foreground, so it always notifies.
LEMMA PromoteTaskInv ==
    ASSUME TInv, NEW id \in Ids, PromoteTask(id)
    PROVE  TInv'
<1>0. jobs[id] \in Tokens
  BY RunningJob DEF PromoteTask, Promote, TInv
<1> PICK t \in Tokens : t = jobs[id]
  BY <1>0
<1> DEFINE job == [active[t] EXCEPT !.background = TRUE, !.hook = FALSE]
<1>1. Running(t) /\ active[t] \in Active /\ ~active[t].background /\ t # None
  BY JobType DEF PromoteTask, Promote, TInv
<1>2. /\ CallOK(t)
      /\ notes \in [Calls -> [at : NotePlaces, on : Tokens \cup {None}]]
      /\ active \in [Tokens -> Active] /\ t \in Calls
  BY <1>1 DEF TInv, CallsOK, IInv, TypeOK, Calls
<1>3. active[t].hook /\ calls[t].at = "waiting" /\ notes[t].at = "none" /\ notes[t].on = None
  BY <1>1, <1>2 DEF CallOK, Running
<1>4. /\ active' = [active EXCEPT ![t] = job] /\ jobs' = jobs
      /\ notes' = [notes EXCEPT ![t].at = "meta"] /\ calls' = calls /\ abort' = abort
  BY <1>3 DEF PromoteTask, Promote
<1>5. job.id = active[t].id /\ job.status = "running" /\ job.background
  BY <1>1 DEF Active, Running
<1> HIDE DEF job
<1>51. active'[t] = job /\ notes'[t].at = "meta" /\ notes'[t].on = None
  BY <1>2, <1>3, <1>4 DEF Calls
<1>6. IInv'
  BY PromoteInv DEF PromoteTask, TInv
<1>7. CallsOK'
  BY <1>2, <1>4 DEF TInv, CallsOK, NotePlaces
<1>8. \A u \in Tokens : u # t => active'[u] = active[u]
  BY <1>2, <1>4
<1>9. ASSUME NEW d \in Calls, d # t PROVE CallOK(d)'
  <2>1. calls'[d] = calls[d] /\ notes'[d] = notes[d] /\ active'[d] = active[d]
    BY <1>2, <1>4, <1>8, <1>9 DEF Calls
  <2>2. Same(d)
    BY <2>1 DEF Same
  <2>3. \A u \in Tokens : active[u].status \in Ends => active'[u].status = active[u].status
    BY <1>1, <1>8 DEF Running, Ends
  <2>4. QED
    BY <1>4, <2>1, <2>2, <2>3, CallStays
<1>10. CallOK(t)'
  <2>1. /\ calls'[t] = calls[t] /\ active'[t].status = "running" /\ active'[t].background
        /\ active'[t].id = active[t].id
    BY <1>4, <1>5, <1>51
  <2>2. calls[t].result = "none" /\ calls[t].id \in Ids /\ active[t].id = calls[t].id
        /\ jobs[calls[t].id] # None
    BY <1>2, <1>3 DEF CallOK
  <2>3. QED
    BY <1>3, <1>4, <1>51, <2>1, <2>2 DEF CallOK
<1>11. QED
  BY <1>6, <1>7, <1>9, <1>10 DEF TInv, Calls

\* The step of a notification.
LEMMA NoteInv ==
    ASSUME TInv, NEW c \in Calls, UNCHANGED <<registry, calls, abort>>,
           NEW at \in NotePlaces \ {"none", "meta"}, NEW on \in Tokens,
           notes[c].at # "none",
           notes' = [notes EXCEPT ![c] = [at |-> at, on |-> on]],
           at = "silent" => active[on].status = "cancelled",
           at = "injected" => active[on].status \in {"completed", "error"}
    PROVE  TInv'
<1>1. /\ c \in Tokens /\ CallOK(c) /\ IInv
      /\ notes \in [Calls -> [at : NotePlaces, on : Tokens \cup {None}]]
  BY DEF TInv, CallsOK, Calls
<1>2. IInv' /\ Steady /\ calls' = calls /\ active' = active /\ jobs' = jobs
  BY <1>1, UnchangedSteady, NextInv DEF registry
<1>3. CallsOK'
  <2>1. [at |-> at, on |-> on] \in [at : NotePlaces, on : Tokens \cup {None}]
    OBVIOUS
  <2>2. notes' \in [Calls -> [at : NotePlaces, on : Tokens \cup {None}]]
    BY <1>1, <2>1
  <2>3. QED
    BY <1>2, <2>2 DEF TInv, CallsOK
<1>4. \A d \in Calls : d # c => CallOK(d)'
  BY <1>1, <1>2, CallKept
<1>5. notes'[c].at = at /\ notes'[c].on = on /\ on # None
  BY <1>1 DEF Tokens, None
<1>6. CallOK(c)'
  BY <1>1, <1>2, <1>5 DEF CallOK
<1>7. QED
  BY <1>2, <1>3, <1>4, <1>6 DEF TInv, Calls

LEMMA NotifyPromotedInv ==
    ASSUME TInv, NEW c \in Calls, NotifyPromoted(c)
    PROVE  TInv'
<1>1. c \in Tokens /\ CallOK(c) /\ jobs \in [Ids -> Tokens \cup {None}]
  BY DEF TInv, IInv, TypeOK, Calls
<1>2. notes[c].at = "meta" /\ active[c].background
  BY <1>1 DEF NotifyPromoted, CallOK
<1>3. calls[c].at # "idle"
  BY <1>1, <1>2, JobType DEF CallOK, TInv, Unused
<1>4. jobs[calls[c].id] \in Tokens
  BY <1>1, <1>3 DEF CallOK
<1>5. notes' = [notes EXCEPT ![c] = [at |-> "waiting", on |-> jobs[calls[c].id]]]
  BY DEF NotifyPromoted, Notify
<1>6. "waiting" \in NotePlaces \ {"none", "meta"}
  BY DEF NotePlaces
<1>7. UNCHANGED <<registry, calls, abort>> /\ notes[c].at # "none"
  BY <1>2 DEF NotifyPromoted
<1>8. QED
  BY <1>4, <1>5, <1>6, <1>7, NoteInv

LEMMA InjectInv ==
    ASSUME TInv, NEW c \in Calls, Inject(c)
    PROVE  TInv'
<1>1. /\ c \in Tokens /\ CallOK(c)
      /\ notes \in [Calls -> [at : NotePlaces, on : Tokens \cup {None}]]
  BY DEF TInv, CallsOK, Calls
<1> DEFINE on == notes[c].on
           at == IF active[on].status = "cancelled" THEN "silent" ELSE "injected"
<1>2. notes[c].at = "waiting" /\ on \in Tokens
  BY <1>1 DEF Inject, CallOK
<1>3. active[on].status \in Ends
  BY DEF Inject, Ended
<1>4. at \in NotePlaces \ {"none", "meta"}
  BY DEF NotePlaces
<1>5. notes' = [notes EXCEPT ![c].at = at]
  BY DEF Inject
<1>6. UNCHANGED <<registry, calls, abort>> /\ notes[c].at # "none"
  BY <1>2 DEF Inject
<1>7. /\ at = "silent" => active[on].status = "cancelled"
      /\ at = "injected" => active[on].status \in {"completed", "error"}
  BY <1>3 DEF Ends
<1> HIDE DEF at
<1>8. notes' = [notes EXCEPT ![c] = [at |-> at, on |-> on]]
  <2>1. notes[c] \in [at : NotePlaces, on : Tokens \cup {None}]
    BY <1>1 DEF Calls
  <2>2. [notes[c] EXCEPT !.at = at] = [at |-> at, on |-> on]
    BY <2>1
  <2>3. notes' = [notes EXCEPT ![c] = [notes[c] EXCEPT !.at = at]]
    BY <1>5
  <2>4. QED
    BY <2>2, <2>3
<1> HIDE DEF on
<1>9. QED
  BY <1>2, <1>4, <1>6, <1>7, <1>8, NoteInv

-----------------------------------------------------------------------------
(* The invariant.                                                          *)

LEMMA InitTInv == Init => TInv
<1> SUFFICES ASSUME Init PROVE TInv
  OBVIOUS
<1>1. IInv
  BY InitInv DEF Init
<1>2. CallsOK
  <2>1. /\ [at |-> "idle", id |-> None, result |-> "none"]
               \in [at : CallPlaces, id : Ids \cup {None}, result : Results]
        /\ [at |-> "none", on |-> None] \in [at : NotePlaces, on : Tokens \cup {None}]
        /\ [at |-> "idle", left |-> {}, awaits |-> {}]
               \in [at : AbortPlaces, left : SUBSET Ids, awaits : SUBSET Tokens]
    BY DEF CallPlaces, Results, NotePlaces, AbortPlaces
  <2>2. QED
    BY <2>1 DEF Init, CallsOK
<1>3. ASSUME NEW c \in Calls PROVE CallOK(c)
  <2>1. /\ active[c] = Unused
        /\ calls[c] = [at |-> "idle", id |-> None, result |-> "none"]
        /\ notes[c] = [at |-> "none", on |-> None]
    BY DEF Init, RegistryInit, Calls
  <2>2. /\ active[c].status = "unused" /\ ~active[c].background
        /\ calls[c].at = "idle" /\ calls[c].result = "none"
        /\ notes[c].at = "none" /\ notes[c].on = None
    BY <2>1 DEF Unused
  <2>3. QED
    BY <2>2 DEF CallOK
<1>4. QED
  BY <1>1, <1>2, <1>3 DEF TInv

\* The abort only looks at the calls; what it cancels it cancels by id.
LEMMA AbortInv ==
    ASSUME TInv, BeginAbort \/ StopRunner \/ AbortReturns \/ \E id \in Ids : AbortJob(id)
    PROVE  TInv' /\ [RegistryNext]_registry
<1>1. /\ IInv
      /\ abort \in [at : AbortPlaces, left : SUBSET Ids, awaits : SUBSET Tokens]
      /\ jobs \in [Ids -> Tokens \cup {None}]
  BY DEF TInv, CallsOK, IInv, TypeOK
<1>2. CASE BeginAbort \/ StopRunner \/ AbortReturns
  <2>1. UNCHANGED registry /\ UNCHANGED <<calls, notes>>
    BY <1>2 DEF BeginAbort, StopRunner, AbortReturns
  <2>2. IInv' /\ Steady
    BY <1>1, <2>1, UnchangedSteady, NextInv
  <2>3. CallsOK'
    BY <1>1, <1>2, <2>1 DEF TInv, CallsOK, BeginAbort, StopRunner, AbortReturns, AbortPlaces
  <2>4. QED
    BY <2>1, <2>2, <2>3, SteadyInv
<1>3. ASSUME NEW id \in Ids, AbortJob(id) PROVE TInv' /\ [RegistryNext]_registry
  <2>1. CancelNow(id) /\ UNCHANGED <<calls, notes>>
    BY <1>3 DEF AbortJob
  <2>2. Steady /\ IInv' /\ [RegistryNext]_registry
    BY <2>1, CancelNowSteady
  <2>3. Running(jobs[id]) => jobs[id] \in Tokens
    BY <1>1 DEF Running
  <2>4. abort' \in [at : AbortPlaces, left : SUBSET Ids, awaits : SUBSET Tokens]
    BY <1>1, <1>3, <2>3 DEF AbortJob
  <2>5. CallsOK'
    BY <2>1, <2>4 DEF TInv, CallsOK
  <2>6. QED
    BY <2>1, <2>2, <2>5, SteadyInv
<1>4. QED
  BY <1>2, <1>3

\* The steps of the registry that no call takes part in.
LEMMA WorkInv ==
    ASSUME TInv,
           \/ \E id \in Ids : ExtendTask(id) \/ AbortChild(id)
           \/ \E t \in Tokens : \E s \in DOMAIN runs[t] : TaskStep(t, s)
    PROVE  TInv' /\ [RegistryNext]_registry
<1>1. IInv
  BY DEF TInv
<1>2. ASSUME UNCHANGED <<calls, notes, abort>>, Steady, RegistryNext
      PROVE  TInv' /\ [RegistryNext]_registry
  <2>1. IInv'
    BY <1>1, <1>2, NextInv
  <2>2. CallsOK'
    BY <1>2 DEF TInv, CallsOK
  <2>3. QED
    BY <1>2, <2>1, <2>2, SteadyInv
<1>3. ASSUME NEW id \in Ids, Cancel(id), UNCHANGED <<calls, notes, abort>>
      PROVE  TInv' /\ [RegistryNext]_registry
  BY <1>1, <1>2, <1>3, CancelSteady DEF RegistryNext
<1>4. ASSUME NEW id \in Ids, ExtendTask(id) PROVE TInv' /\ [RegistryNext]_registry
  BY <1>1, <1>2, <1>4, ExtendSteady DEF ExtendTask, RegistryNext
<1>5. ASSUME NEW t \in Tokens, NEW s \in DOMAIN runs[t], RunStep(t, s),
             UNCHANGED <<calls, notes, abort>>
      PROVE  TInv' /\ [RegistryNext]_registry
  BY <1>1, <1>2, <1>5, RunSteady DEF RegistryNext
<1>6. ASSUME NEW t \in Tokens, NEW s \in DOMAIN runs[t], TaskStep(t, s)
      PROVE  TInv' /\ [RegistryNext]_registry
  <2>1. UNCHANGED <<calls, notes, abort>> /\ (RunStep(t, s) \/ Cancel(active[t].id))
    BY <1>6 DEF TaskStep, Prompted, Unwind, RunStep
  <2>2. active[t].id \in Ids
    BY <1>1, RunOfJob DEF IInv, JobOK, Open, Shut, Active
  <2>3. QED
    BY <1>3, <1>5, <2>1, <2>2
<1>7. QED
  BY <1>3, <1>4, <1>6 DEF AbortChild

LEMMA NextTInv == TInv /\ [Next]_vars => TInv' /\ [RegistryNext]_registry
<1> SUFFICES ASSUME TInv, [Next]_vars PROVE TInv' /\ [RegistryNext]_registry
  OBVIOUS
<1>1. ASSUME NEW c \in Calls, NEW id \in Ids, StartForeground(c, id)
      PROVE  TInv' /\ [RegistryNext]_registry
  BY <1>1, StartTaskInv DEF StartForeground, RegistryNext, Calls
<1>2. ASSUME NEW c \in Calls, NEW id \in Ids, StartBackground(c, id)
      PROVE  TInv' /\ [RegistryNext]_registry
  BY <1>2, StartTaskInv DEF StartBackground, Notify, RegistryNext, Calls
<1>3. ASSUME NEW id \in Ids, PromoteTask(id) PROVE TInv' /\ [RegistryNext]_registry
  BY <1>3, PromoteTaskInv DEF PromoteTask, RegistryNext
<1>4. ASSUME NEW c \in Calls, InterruptCall(c) \/ CancelAgain(c)
      PROVE  TInv' /\ [RegistryNext]_registry
  <2>1. calls[c].id \in Ids
    BY <1>4 DEF InterruptCall, CancelAgain, TInv, CallOK
  <2>2. CancelNow(calls[c].id)
    BY <1>4 DEF InterruptCall, CancelAgain
  <2>3. QED
    BY <1>4, <2>1, <2>2, CancelNowSteady, InterruptInv, AgainInv
<1>5. ASSUME NEW c \in Calls,
             Resolve(c) \/ ReturnAborted(c) \/ NotifyPromoted(c) \/ Inject(c)
      PROVE  TInv' /\ [RegistryNext]_registry
  <2>1. UNCHANGED registry
    BY <1>5 DEF Resolve, ReturnAborted, NotifyPromoted, Inject
  <2>2. QED
    BY <1>5, <2>1, ResolveInv, ReturnInv, NotifyPromotedInv, InjectInv
<1>6. CASE UNCHANGED vars
  <2>1. UNCHANGED registry /\ UNCHANGED <<calls, notes>> /\ abort' = abort
    BY <1>6 DEF vars, registry
  <2>2. IInv' /\ Steady /\ CallsOK'
    BY <2>1, UnchangedSteady, NextInv DEF TInv, CallsOK
  <2>3. QED
    BY <2>1, <2>2, SteadyInv
<1>7. QED
  BY <1>1, <1>2, <1>3, <1>4, <1>5, <1>6, AbortInv, WorkInv DEF Next, Progress, CallStep

\* The calls, the notifications and the jobs agree, whatever is aborted or promoted when.
THEOREM TaskInvariance == Spec => []TInv
BY InitTInv, NextTInv, PTL DEF Spec

\* Whatever the tool, the user and the runs of the child sessions do is a use of the
\* registry: what holds of every use of it, holds of the tasks.
THEOREM TasksUseTheRegistry == Spec => Registry
<1>1. Init => RegistryInit
  BY DEF Init
<1>2. QED
  BY <1>1, NextTInv, TaskInvariance, PTL DEF Spec, Registry

-----------------------------------------------------------------------------
(* The properties.                                                         *)

\* Whatever is aborted or promoted when, a result that is not aborted is delivered once.
THEOREM OneDelivery == Spec => []ResultsArriveOnce
<1>1. TInv => ResultsArriveOnce
  <2> SUFFICES ASSUME TInv, \A c \in Calls : notes[c].on \in {None, c},
                      NEW t \in Tokens, active[t].status \in {"completed", "error"},
                      Settled(t), calls[t].result # "aborted"
               PROVE  /\ Cardinality(Deliveries(t)) = 1
                      /\ calls[t].result \in {"output", "failed"} => notes[t].at = "none"
    BY DEF ResultsArriveOnce
  <2>1. /\ t \in Calls /\ t # None /\ CallOK(t)
        /\ calls[t].result \in {"output", "failed", "background"}
    BY CallType, JobType DEF TInv, Calls, CallOK, Settled, Results
  <2>2. ASSUME NEW c \in Deliveries(t) PROVE c = t
    BY <2>1, <2>2 DEF Deliveries
  <2>3. calls[t].result \in {"output", "failed"} => notes[t].at = "none"
    BY <2>1 DEF CallOK
  <2>4. t \in Deliveries(t)
    <3>1. CASE calls[t].result \in {"output", "failed"}
      BY <2>1, <3>1 DEF Deliveries
    <3>2. CASE calls[t].result = "background"
      <4>1. notes[t].at \in {"silent", "injected"}
        BY <2>1, <3>2, CallType DEF TInv, CallOK, Settled, NotePlaces
      <4>2. notes[t].on = t
        BY <2>1, <4>1 DEF CallOK
      <4>3. notes[t].at = "injected"
        BY <2>1, <4>1, <4>2 DEF CallOK
      <4>4. QED
        BY <2>1, <4>2, <4>3 DEF Deliveries
    <3>3. QED
      BY <2>1, <3>1, <3>2
  <2>5. Deliveries(t) = {t}
    BY <2>2, <2>4
  <2>6. QED
    BY <2>3, <2>5, FS_Singleton
<1>2. QED
  BY <1>1, TaskInvariance, PTL

\* An abort returns when no call is left to wait, and a job in the foreground has one.
THEOREM AbortIsComplete == Spec => AbortLeavesNoForegroundJob
<1>1. TInv /\ [Next]_vars =>
          [AbortReturns => \A t \in Tokens : Running(t) => active[t].background]_vars
  <2> SUFFICES ASSUME TInv, AbortReturns, NEW t \in Tokens, Running(t)
               PROVE  active[t].background
    OBVIOUS
  <2>1. CallOK(t) /\ calls[t].at \in {"idle", "returned"}
    BY DEF TInv, Calls, AbortReturns
  <2>2. QED
    BY <2>1 DEF CallOK, Running
<1>2. QED
  BY <1>1, TaskInvariance, PTL DEF Spec, AbortLeavesNoForegroundJob

=============================================================================
