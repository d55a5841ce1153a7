------------------------------ MODULE Assistants ------------------------------
(***************************************************************************)
(* Assistants with their versions, and crons with the scheduler that reads *)
(* them: classes Assistants and Crons of ops.py, the start of the store in *)
(* database.py.                                                            *)
(*                                                                         *)
(* A handler runs without interruption between two awaits.  Most handlers  *)
(* await their auth handler first and read the store only after it: they   *)
(* are one step here.  Two are suspended between reading and writing:      *)
(* Assistants.delete, while it cancels runs, and Crons.put, while it asks  *)
(* for access to the thread.  The scheduler (external) creates a run for   *)
(* each cron that Crons.next yields and then sets its next date.           *)
(*                                                                         *)
(* Of an assistant, `content` stands for config, metadata, name and        *)
(* description, `rest` for graph_id and context.  A date is known by what  *)
(* it was computed from, and by whether it has come.  A cron is active if  *)
(* it is enabled and its end_time has not passed.                          *)
(***************************************************************************)
EXTENDS Integers, Sequences, SequencesExt, FiniteSets

CONSTANTS
  Ids,         \* assistants of clients
  SystemIds,   \* assistants of the server's graphs, created_by "system"
  Patched,     \* the assistants that are patched
  Contents,
  Rests,
  CronIds,
  Threads,
  NoThread,
  Schedules,
  Zones,
  Requests,
  MaxVersion,  \* bound: versions of an assistant
  MaxRestarts  \* bound: restarts and truncations

ASSUME MaxAssumption == MaxVersion \in Nat \ {0} /\ MaxRestarts \in Nat
ASSUME IdsAssumption == Ids \cap SystemIds = {} /\ Patched \subseteq Ids \cup SystemIds
                         /\ NoThread \notin Threads /\ IsFiniteSet(SystemIds)
ASSUME ContentsAssumption == Contents # {} /\ Rests # {}

VARIABLES
  assistants,  \* store["assistants"], a list
  versions,    \* store["assistant_versions"]
  crons,       \* the cron objects, in store["crons"] or in the scheduler's hands
  threads,     \* the threads in the store
  request,     \* the suspended requests
  scheduler,   \* what the scheduler works on
  restarts

vars == <<assistants, versions, crons, threads, request, scheduler, restarts>>

-----------------------------------------------------------------------------
Everyone == Ids \cup SystemIds
Assistant == [id : Everyone, version : 1..MaxVersion, content : Contents, rest : Rests]
Version == Assistant

Basis == [schedule : Schedules, zone : Zones]
Cron ==
  [stored : BOOLEAN, assistant : Everyone, thread : Threads \cup {NoThread},
   plan : Basis, date : Basis, due : BOOLEAN, active : BOOLEAN]

Idle == [pc |-> "idle"]
Deleting == [pc : {"delete"}, id : Everyone]
Scheduling == [pc : {"cron"}, cron : CronIds, id : Everyone, thread : Threads, plan : Basis]

Scanning == [pc : {"scan"}, todo : SUBSET CronIds]
Firing == [pc : {"fire"}, todo : SUBSET CronIds, cron : CronIds, plan : Basis]

IdsOf(list) == {a.id : a \in ToSet(list)}
Exists(id) == id \in IdsOf(assistants)
Place(id) == CHOOSE i \in 1..Len(assistants) : assistants[i].id = id
InHand(s) == IF s = Idle THEN {} ELSE s.todo
VersionsOf(id) == {i \in 1..Len(versions) : versions[i].id = id}
Stored == {k \in DOMAIN crons : crons[k].stored}

TypeOK ==
  /\ assistants \in Seq(Assistant) /\ versions \in Seq(Version)
  /\ DOMAIN crons \subseteq CronIds /\ \A k \in DOMAIN crons : crons[k] \in Cron
  /\ threads \subseteq Threads
  /\ request \in [Requests -> {Idle} \cup Deleting \cup Scheduling]
  /\ scheduler \in {Idle} \cup Scanning \cup Firing
  /\ restarts \in 0..MaxRestarts

-----------------------------------------------------------------------------
(* An operator whose name has the form X_Y, placed just before X, is X with  *)
(* a plausible defect; it is never used by the model.                        *)

\* What the list has at the places P, in its order.
At(list, P) ==
  [i \in 1..Cardinality(P) |-> list[CHOOSE p \in P : Cardinality({k \in P : k <= p}) = i]]
Only(list, ids) == At(list, {i \in 1..Len(list) : list[i].id \in ids})

\* start_pool takes system assistants out of the list it iterates over: the one
\* after a removed one is not looked at.
Removed(list) ==
  LET seen[i \in 1..Len(list)] == i = 1 \/ ~(seen[i - 1] /\ list[i - 1].id \in SystemIds)
  IN {i \in 1..Len(list) : seen[i] /\ list[i].id \in SystemIds}
Remaining(list) == At(list, (1..Len(list)) \ Removed(list))

\* The assistants of the graphs G are put at the start (external); one that exists
\* is left alone.
FirstVersion(id, content, rest) ==
  [id |-> id, version |-> 1, content |-> content, rest |-> rest]
Added(list, G) ==
  SetToSeq({FirstVersion(id, content, rest) :
              id \in G \ IdsOf(list), content \in {CHOOSE c \in Contents : TRUE},
              rest \in {CHOOSE r \in Rests : TRUE}})

Start(list, old, G) ==
  /\ assistants' = Remaining(list) \o Added(Remaining(list), G)
  /\ versions' = old \o Added(Remaining(list), G)

Init ==
  /\ \E G \in SUBSET SystemIds : /\ assistants = Added(<<>>, G)
                                 /\ versions = Added(<<>>, G)
  /\ crons = [k \in {} |-> {}]
  /\ threads = Threads
  /\ request = [q \in Requests |-> Idle]
  /\ scheduler = Idle
  /\ restarts = 0

\* The crons in C are taken out of the list; the scheduler may still go through the
\* list it started with.
Without(C) ==
  [k \in (DOMAIN crons \ C) \cup InHand(scheduler) |->
     IF k \in C THEN [crons[k] EXCEPT !.stored = FALSE] ELSE crons[k]]

\* The process stops, and starts on what was flushed, with the graphs G.
Restart(G) ==
  /\ restarts < MaxRestarts /\ restarts' = restarts + 1
  /\ Start(assistants, versions, G)
  /\ crons' = [k \in Stored |-> crons[k]]
  /\ request' = [q \in Requests |-> Idle]
  /\ scheduler' = Idle
  /\ UNCHANGED threads

\* GlobalStore.clear: the system's assistants stay, without their versions.
Truncate ==
  /\ restarts < MaxRestarts /\ restarts' = restarts + 1
  /\ assistants' = Only(assistants, SystemIds)
  /\ versions' = <<>>
  /\ crons' = Without(Stored)
  /\ threads' = {}
  /\ UNCHANGED <<request, scheduler>>

-----------------------------------------------------------------------------
(* Assistants                                                                *)

\* One that exists is an error or left alone, as if_exists says.
Put(id, content, rest) ==
  /\ ~Exists(id)
  /\ assistants' = Append(assistants, FirstVersion(id, content, rest))
  /\ versions' = Append(versions, FirstVersion(id, content, rest))
  /\ UNCHANGED <<crons, threads, request, scheduler, restarts>>

\* max() fails if there are versions but none of this assistant.
NextVersion_AfterCurrent(id) == assistants[Place(id)].version + 1
NextVersion(id) ==
  IF versions = <<>> THEN 1
  ELSE 1 + versions[CHOOSE i \in VersionsOf(id) : \A j \in VersionsOf(id) :
                      versions[j].version <= versions[i].version].version

Patch(id, content, rest) ==
  /\ Exists(id) /\ (versions # <<>> => VersionsOf(id) # {})
  /\ NextVersion(id) <= MaxVersion
  /\ LET entry == [id |-> id, version |-> NextVersion(id), content |-> content, rest |-> rest]
     IN /\ versions' = Append(versions, entry)
        /\ assistants' = [assistants EXCEPT ![Place(id)] = entry]
  /\ UNCHANGED <<crons, threads, request, scheduler, restarts>>

\* The first record of that version; graph_id and context are not set back.
Recorded(a, v) == [a EXCEPT !.version = v.version, !.content = v.content]
SetLatest(id, number) ==
  /\ Exists(id)
  /\ \E i \in VersionsOf(id) :
       /\ versions[i].version = number
       /\ \A j \in VersionsOf(id) : versions[j].version = number => i <= j
       /\ assistants' = [assistants EXCEPT ![Place(id)] = Recorded(@, versions[i])]
  /\ UNCHANGED <<versions, crons, threads, request, scheduler, restarts>>

\* delete: threads and runs of the assistant are dealt with first, which suspends.
DeleteStart(q, id) ==
  /\ request[q] = Idle /\ Exists(id)
  /\ request' = [request EXCEPT ![q] = [pc |-> "delete", id |-> id]]
  /\ UNCHANGED <<assistants, versions, crons, threads, scheduler, restarts>>

CronsOf(id) == {k \in Stored : crons[k].assistant = id}

DeleteFinish_CronsKept(q) ==
  /\ request[q].pc = "delete"
  /\ assistants' = Only(assistants, Everyone \ {request[q].id})
  /\ versions' = Only(versions, Everyone \ {request[q].id})
  /\ request' = [request EXCEPT ![q] = Idle]
  /\ UNCHANGED <<crons, threads, scheduler, restarts>>
DeleteFinish(q) ==
  /\ request[q].pc = "delete"
  /\ assistants' = Only(assistants, Everyone \ {request[q].id})
  /\ versions' = Only(versions, Everyone \ {request[q].id})
  /\ crons' = Without(CronsOf(request[q].id))
  /\ request' = [request EXCEPT ![q] = Idle]
  /\ UNCHANGED <<threads, scheduler, restarts>>

\* Threads.delete takes the thread's crons along.
DeleteThread(t) ==
  /\ t \in threads
  /\ threads' = threads \ {t}
  /\ crons' = Without({k \in Stored : crons[k].thread = t})
  /\ UNCHANGED <<assistants, versions, request, scheduler, restarts>>

-----------------------------------------------------------------------------
(* Crons                                                                     *)

\* An id that is stored is left alone.  Bound: an id that the scheduler is yet to look
\* at is not put again.
NewCron(k, id, t, plan) ==
  /\ k \notin Stored \cup InHand(scheduler)
  /\ \E active \in BOOLEAN : crons' = [j \in DOMAIN crons \cup {k} |->
       IF j # k THEN crons[j]
       ELSE [stored |-> TRUE, assistant |-> id, thread |-> t, plan |-> plan, date |-> plan,
             due |-> FALSE, active |-> active]]

PutCron(k, id, plan) ==
  /\ Exists(id)
  /\ NewCron(k, id, NoThread, plan)
  /\ UNCHANGED <<assistants, versions, threads, request, scheduler, restarts>>

\* With a thread, put is suspended between its check of the assistant and its check
\* of the thread.
PutCronStart(q, k, id, t, plan) ==
  /\ request[q] = Idle /\ Exists(id)
  /\ request' = [request EXCEPT ![q] =
       [pc |-> "cron", cron |-> k, id |-> id, thread |-> t, plan |-> plan]]
  /\ UNCHANGED <<assistants, versions, crons, threads, scheduler, restarts>>
PutCronFinish(q) ==
  /\ request[q].pc = "cron"
  /\ request' = [request EXCEPT ![q] = Idle]
  /\ IF request[q].thread \in threads /\ request[q].cron \notin Stored
     THEN NewCron(request[q].cron, request[q].id, request[q].thread, request[q].plan)
     ELSE UNCHANGED crons
  /\ UNCHANGED <<assistants, versions, threads, scheduler, restarts>>

\* update: the zone is set before the date is computed; without a new schedule or
\* zone the date stays.
Replanned_OldZone(c, plan) == [c EXCEPT !.plan = plan, !.due = FALSE,
                               !.date = [schedule |-> plan.schedule, zone |-> c.plan.zone]]
Replanned(c, plan) == [c EXCEPT !.plan = plan, !.date = plan, !.due = FALSE]
UpdateCron(k, new) ==
  /\ k \in Stored
  /\ crons' = [crons EXCEPT ![k] = new]
  /\ UNCHANGED <<assistants, versions, threads, request, scheduler, restarts>>
Reschedule(k, plan) == UpdateCron(k, Replanned(crons[k], plan))
\* A schedule that is not valid is rejected after the zone has been set.
RescheduleRejected(k, zone) == UpdateCron(k, [crons[k] EXCEPT !.plan.zone = zone])
Switch(k, active) == UpdateCron(k, [crons[k] EXCEPT !.active = active])

DeleteCron(k) ==
  /\ k \in Stored
  /\ crons' = Without({k})
  /\ UNCHANGED <<assistants, versions, threads, request, scheduler, restarts>>

\* Time reaches the next date, or the end.
TimePasses(k) ==
  /\ k \in Stored
  /\ crons' \in {[crons EXCEPT ![k].due = TRUE], [crons EXCEPT ![k].active = FALSE]}
  /\ UNCHANGED <<assistants, versions, threads, request, scheduler, restarts>>

-----------------------------------------------------------------------------
(* The scheduler.  Crons.next goes on with the list it started with, but     *)
(* reads each cron as it is when its turn comes.                             *)

Scan ==
  /\ scheduler = Idle
  /\ scheduler' = [pc |-> "scan", todo |-> Stored]
  /\ UNCHANGED <<assistants, versions, crons, threads, request, restarts>>

\* A cron that has its turn is looked at and, if ready, copied; a removed one is
\* then out of sight.
NextCron ==
  /\ scheduler.pc = "scan"
  /\ \/ scheduler.todo = {} /\ scheduler' = Idle /\ UNCHANGED crons
     \/ \E k \in scheduler.todo :
          LET rest == scheduler.todo \ {k}
              ready == crons[k].active /\ crons[k].due
          IN /\ crons' = [j \in Stored \cup rest |-> crons[j]]
             /\ scheduler' = IF ready THEN [pc |-> "fire", todo |-> rest, cron |-> k,
                                            plan |-> crons[k].plan]
                             ELSE [pc |-> "scan", todo |-> rest]
  /\ UNCHANGED <<assistants, versions, threads, request, restarts>>

\* The scheduler has put a run (RunQueue), and sets the date it computed from its copy.
SetNextRunDate ==
  /\ scheduler.pc = "fire"
  /\ crons' = IF scheduler.cron \in Stored
              THEN [crons EXCEPT ![scheduler.cron].date = scheduler.plan,
                                 ![scheduler.cron].due = FALSE]
              ELSE crons
  /\ scheduler' = [pc |-> "scan", todo |-> scheduler.todo]
  /\ UNCHANGED <<assistants, versions, threads, request, restarts>>

-----------------------------------------------------------------------------
Next ==
  \/ \E id \in Ids, content \in Contents, rest \in Rests : Put(id, content, rest)
  \/ \E id \in Patched, content \in Contents, rest \in Rests : Patch(id, content, rest)
  \/ \E id \in Everyone, number \in 1..MaxVersion : SetLatest(id, number)
  \/ \E q \in Requests : \/ \E id \in Everyone : DeleteStart(q, id)
                         \/ DeleteFinish(q)
                         \/ PutCronFinish(q)
                         \/ \E k \in CronIds, id \in Everyone, t \in Threads, plan \in Basis :
                              PutCronStart(q, k, id, t, plan)
  \/ \E t \in Threads : DeleteThread(t)
  \/ \E k \in CronIds, id \in Everyone, plan \in Basis : PutCron(k, id, plan)
  \/ \E k \in CronIds : \/ \E plan \in Basis : Reschedule(k, plan)
                        \/ \E zone \in Zones : RescheduleRejected(k, zone)
                        \/ \E active \in BOOLEAN : Switch(k, active)
                        \/ DeleteCron(k) \/ TimePasses(k)
  \/ Scan \/ NextCron \/ SetNextRunDate
  \/ Truncate
  \/ \E G \in SUBSET SystemIds : Restart(G)

Spec == Init /\ [][Next]_vars

-----------------------------------------------------------------------------
(* Properties *)

\* The versions of a client's assistant are numbered without gap or repetition,
\* whatever was patched, set back, deleted, put again or restarted in between.
VersionsAreNumbered ==
  \A id \in Ids : {versions[i].version : i \in VersionsOf(id)} = 1..Cardinality(VersionsOf(id))

\* What a client's assistant is, is what the record of its version says (graph_id
\* and context aside, which set_latest leaves as they were), and an assistant that
\* is gone has no records.
AssistantIsItsVersion ==
  \A id \in Ids :
    /\ Exists(id) => \E i \in VersionsOf(id) :
         /\ versions[i].version = assistants[Place(id)].version
         /\ versions[i].content = assistants[Place(id)].content
    /\ ~Exists(id) => VersionsOf(id) = {}

\* A client's assistant is in the list once.
InListOnce ==
  \A id \in Ids : \A i, j \in 1..Len(assistants) :
    assistants[i].id = id /\ assistants[j].id = id => i = j

\* The scheduler can still look at what it has to go through.
HandIsKnown == InHand(scheduler) \subseteq DOMAIN crons

\* What holds of assistants, their versions and the crons in every state.
AssistantsInv ==
  TypeOK /\ InListOnce /\ HandIsKnown /\ VersionsAreNumbered /\ AssistantIsItsVersion

\* A client's assistant, or a thread, that goes away takes all its crons along, also
\* those that were put or moved while the deletion was under way.
NoCronLeftBehind ==
  [][/\ \A id \in Ids : Exists(id) /\ ~Exists(id)' => \A k \in Stored' : crons'[k].assistant # id
     /\ \A t \in threads \ threads' : \A k \in Stored' : crons'[k].thread # t]_vars

\* The next date of a cron follows from its schedule and zone.  This is undone only by
\* the scheduler, when these changed while it had the cron in hand, and by an update
\* that was rejected half-way.
DateFollowsPlan ==
  [][\A k \in Stored \cap Stored' :
       crons[k].date = crons[k].plan /\ crons'[k].date # crons'[k].plan =>
         \/ SetNextRunDate /\ scheduler.cron = k /\ scheduler.plan # crons[k].plan
         \/ \E zone \in Zones : RescheduleRejected(k, zone)]_vars
=============================================================================
