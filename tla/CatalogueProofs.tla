---------------------------- MODULE CatalogueProofs ----------------------------
(* What TLAPS proves of the catalogue shared by the requests and the jobs:   *)
(* for any number of jobs, clients, containers and datasets, jobs hold their *)
(* datasets, datasets keep their containers, no file is forgotten and the    *)
(* parameters last as long as their owners - but for the jobs cancelled by   *)
(* force when their step could not be undone any more.                       *)
EXTENDS Catalogue, TLAPS

(* What a client is adding is not in the catalogue, nor added by another.    *)
ClientInv ==
    \A c \in Client :
        /\ client[c].at \in {"prepareIndexation", "saveContainer"} => client[c].on \in Uri
        /\ client[c].at \in {"ConfigConsolidation", "DeleteVariable"} =>
              client[c].on \in Variable
        /\ \A d \in client[c].new :
              /\ client[c].at \in {"prepareIndexation", "saveContainer"}
              /\ UriOf[d] = client[c].on
              /\ dataset[d] = Absent
              /\ \A b \in Client : d \in client[b].new => b = c

(* The states of each kind of job, those where it is in a transaction or has *)
(* done its step, and those where it ends once it is cancelled by force.     *)
RowInv(j, r) ==
    /\ j \in Deletion => r.state \notin {"CONSOLIDATIONINPROGRESS", "CONSOLIDATIONEFFECTIVE"}
    /\ j \in Consolidation =>
          r.state \notin {"DELETIONINPROGRESS", "DELETIONFAILED", "DELETIONEFFECTIVE"}
    /\ r.reading => r.state \in {Absent, "ABORTED", "DELETIONINPROGRESS"} /\ ~r.done
    /\ r.done => r.state \in {"CONSOLIDATIONINPROGRESS", "CONSOLIDATIONEFFECTIVE",
                             "DELETIONINPROGRESS", "DELETIONEFFECTIVE"}
    /\ r.done /\ r.state = "CONSOLIDATIONEFFECTIVE" => r.chosen = {}
    /\ r.forced => r.state \in {"ABORTED", "ROLLBACKFAILED", "FAILED", "CLEANED"}

JobInv == \A j \in Job : RowInv(j, job[j])

(* A job only locks datasets it has chosen, until it is ended; a             *)
(* consolidation hides them last, and a rollback restores them first.        *)
LockInv ==
    \A d \in Dataset, j \in Job : lock[d] = j =>
        /\ d \in job[j].chosen
        /\ dataset[d] \in {"ACTIVE", "TODELETE"}
        /\ Holds(j) \/ RollsBack(j) \/ (job[j].state = "FAILED" /\ job[j].forced)
        /\ dataset[d] = "TODELETE" =>
              /\ j \in Consolidation =>
                    /\ job[j].state \notin {"CREATED", "INITIALISATIONFAILED"}
                    /\ RollsBack(j) => job[j].forced
              /\ job[j].state = "ABORTED" => ~job[j].reading

(* Tasks exist between the removal of the datasets and the deletion of the   *)
(* files, or in a job cancelled by force after the removal; the files that   *)
(* are deleted were those of removed containers.                             *)
TaskInv ==
    \A j \in Deletion :
        /\ task[j] \subseteq dropped
        /\ job[j].deleting \subseteq dropped
        /\ task[j] # {} =>
              /\ task[j] \subseteq job[j].empty
              /\ \/ job[j].state = "DELETIONINPROGRESS" /\ job[j].done
                 \/ job[j].state \in {"DELETIONEFFECTIVE", "DONEBUTUNTIDY"}
                 \/ job[j].forced

Hold == LockInv /\ JobsHoldTheirDatasets
Files == TaskInv /\ FilesAreKept /\ NoForgottenFile

CatalogueInv == TypeOK /\ ClientInv /\ JobInv /\ Hold /\ Files

-----------------------------------------------------------------------------
LEMMA InitCatalogue == Init => CatalogueInv
<1> SUFFICES ASSUME Init PROVE CatalogueInv
  OBVIOUS
<1> USE ReferencesAssumption, JobAssumption DEF Init, NoJob, NoRequest, Absent
<1>1. TypeOK
  BY DEF TypeOK, JobRow, ClientRow, JobState
<1>2. ClientInv /\ JobInv
  BY DEF ClientInv, JobInv, RowInv, Job
<1>3. Hold
  <2>1. \A j \in Job : ~Holds(j)
    BY DEF Holds
  <2>2. \A d \in Dataset : lock[d] \notin Job /\ dataset[d] # "TODELETE"
    OBVIOUS
  <2> QED
    BY <2>1, <2>2 DEF Hold, LockInv, JobsHoldTheirDatasets
<1>4. Files
  <2>1. \A j \in Deletion : task[j] = {} /\ job[j].deleting = {}
    BY DEF Job
  <2>2. file = Uri /\ dropped = {}
    OBVIOUS
  <2>3. FilesAreKept
    BY <2>2 DEF FilesAreKept, Stored
  <2> QED
    BY <2>1, <2>2, <2>3 DEF Files, TaskInv, NoForgottenFile
<1> QED
  BY <1>1, <1>2, <1>3, <1>4 DEF CatalogueInv

(* The requests on the other tables. *)
LEMMA OtherTables ==
    ASSUME CatalogueInv, UNCHANGED <<container, dataset, lock, job, task, file, dropped>>
    PROVE  JobInv' /\ Hold' /\ Files'
  BY DEF CatalogueInv, JobInv, RowInv, Hold, LockInv, JobsHoldTheirDatasets, Files, TaskInv,
         FilesAreKept,
         NoForgottenFile, Stored, Holds, RollsBack, HeldStatus

(* A request r of c that is still good when it goes on: it is about a container it may write or a *)
(* variable, and the datasets it adds are new, in that container, and nobody else's.             *)
Sound(c, r) ==
    /\ r.at \in {"prepareIndexation", "saveContainer"} => r.on \in Uri
    /\ r.at \in {"ConfigConsolidation", "DeleteVariable"} => r.on \in Variable
    /\ \A d \in r.new : /\ r.at \in {"prepareIndexation", "saveContainer"}
                        /\ UriOf[d] = r.on
                        /\ dataset[d] = Absent
                        /\ \A b \in Client \ {c} : d \notin client[b].new

(* The requests that read, or that give up. *)
LEMMA OneClient ==
    ASSUME TypeOK, ClientInv, NEW c \in Client,
           NEW r, r \in ClientRow, Sound(c, r), client' = [client EXCEPT ![c] = r],
           UNCHANGED dataset
    PROVE  ClientInv'
  BY DEF Sound, ClientInv, TypeOK, ClientRow

LEMMA RequestStep ==
    ASSUME CatalogueInv,
           \/ \E a \in Aoi : CreateAOI(a)
           \/ \E R \in SUBSET Record : CreateRecords(R) \/ DeleteRecords(R)
           \/ \E v \in Variable : CreateVariable(v)
           \/ \E i \in Instance : InstantiateVariable(i) \/ DeleteInstance(i)
    PROVE  CatalogueInv'
<1> USE ReferencesAssumption DEF Request
<1>1. UNCHANGED <<container, dataset, lock, job, task, file, client, dropped>>
  BY DEF CreateAOI, CreateRecords, DeleteRecords, CreateVariable, InstantiateVariable,
         DeleteInstance
<1>2. /\ aoi' \subseteq Aoi /\ record' \subseteq Record /\ variable' \subseteq Variable
      /\ instance' \subseteq Instance /\ params' = params /\ requests' \in Nat
  <2> USE DEF CatalogueInv, TypeOK
  <2>1. CASE \E a \in Aoi : CreateAOI(a)
    BY <2>1 DEF CreateAOI
  <2>2. CASE \E R \in SUBSET Record : CreateRecords(R) \/ DeleteRecords(R)
    BY <2>2 DEF CreateRecords, DeleteRecords
  <2>3. CASE \E v \in Variable : CreateVariable(v)
    BY <2>3 DEF CreateVariable
  <2>4. CASE \E i \in Instance : InstantiateVariable(i) \/ DeleteInstance(i)
    BY <2>4 DEF InstantiateVariable, DeleteInstance
  <2> QED
    BY <2>1, <2>2, <2>3, <2>4
<1>3. TypeOK'
  BY <1>1, <1>2 DEF CatalogueInv, TypeOK
<1>4. ClientInv'
  BY <1>1 DEF CatalogueInv, ClientInv
<1> QED
  BY <1>1, <1>3, <1>4, OtherTables DEF CatalogueInv

(* The requests that read, and those that write variables after reading them. *)
LEMMA ReadStep ==
    ASSUME CatalogueInv, NEW c \in Client,
           \/ \E v \in Variable, q \in {"ConfigConsolidation", "DeleteVariable"} :
                 ReadVariable(c, v, q)
           \/ \E u \in Uri, D \in SUBSET Dataset, m \in BOOLEAN :
                 IndexExternalDatasets(c, u, D, m)
           \/ prepareIndexation(c) \/ RequestFails(c)
           \/ DeleteVariable(c) \/ ConfigConsolidation(c)
    PROVE  CatalogueInv'
<1> USE ReferencesAssumption DEF CatalogueInv
<1>1. UNCHANGED <<aoi, record, container, dataset, lock, job, task, file, dropped>>
  BY DEF ReadVariable, IndexExternalDatasets, prepareIndexation, RequestFails, DeleteVariable,
         ConfigConsolidation, tables
<1> USE DEF Sound
<1> DEFINE Goal ==
      /\ variable' \subseteq Variable /\ instance' \subseteq Instance
      /\ params' \subseteq Variable \cup Job /\ requests' \in Nat
      /\ \E r : r \in ClientRow /\ Sound(c, r) /\ client' = [client EXCEPT ![c] = r]
<1>2. NoRequest \in ClientRow /\ Sound(c, NoRequest)
  BY DEF NoRequest, ClientRow
<1>3. Goal
  <2>1. ASSUME NEW v \in Variable, NEW q \in {"ConfigConsolidation", "DeleteVariable"},
               ReadVariable(c, v, q)
        PROVE  Goal
    <3> DEFINE r == [NoRequest EXCEPT !.at = q, !.on = v, !.seen = OfVariable(v)]
    <3>1. r \in ClientRow /\ Sound(c, r)
      BY DEF NoRequest, OfVariable, TypeOK, ClientRow
    <3>2. client' = [client EXCEPT ![c] = r]
      BY <2>1 DEF ReadVariable
    <3>3. UNCHANGED <<variable, instance, params>>
      BY <2>1 DEF ReadVariable, tables
    <3>4. requests' \in Nat
      <4>1. requests' = requests + 1 /\ requests \in Nat
        BY <2>1 DEF ReadVariable, Request, TypeOK
      <4> QED
        BY <4>1
    <3> HIDE DEF Sound, r
    <3> QED
      BY <3>1, <3>2, <3>3, <3>4 DEF TypeOK
  <2>2. ASSUME NEW u \in Uri, NEW D \in SUBSET Dataset, NEW m \in BOOLEAN,
               IndexExternalDatasets(c, u, D, m)
        PROVE  Goal
    <3> DEFINE r == [NoRequest EXCEPT !.at = "prepareIndexation", !.on = u, !.new = D,
                                      !.managed = m]
    <3>1. r \in ClientRow /\ Sound(c, r)
      BY <2>2 DEF NoRequest, IndexExternalDatasets, Unused, ClientRow
    <3>2. client' = [client EXCEPT ![c] = r]
      BY <2>2 DEF IndexExternalDatasets
    <3>3. UNCHANGED <<variable, instance, params>>
      BY <2>2 DEF IndexExternalDatasets, tables
    <3>4. requests' \in Nat
      <4>1. requests' = requests + 1 /\ requests \in Nat
        BY <2>2 DEF IndexExternalDatasets, Request, TypeOK
      <4> QED
        BY <4>1
    <3> HIDE DEF Sound, r
    <3> QED
      BY <3>1, <3>2, <3>3, <3>4 DEF TypeOK
  <2>3. CASE prepareIndexation(c)
    <3> DEFINE u == client[c].on
               r == [client[c] EXCEPT !.at = "saveContainer", !.known = container[u] # Absent,
                                      !.new = Added(client[c].new, Within(u))]
    <3>1. r \in ClientRow
      <4>1. client[c] \in ClientRow
        BY DEF TypeOK
      <4> QED
        BY <4>1 DEF Added, ClientRow
    <3>2. Sound(c, r)
      BY <2>3 DEF prepareIndexation, ClientInv, Added, TypeOK, ClientRow
    <3>3. client' = [client EXCEPT ![c] = r]
      BY <2>3 DEF prepareIndexation, TypeOK
    <3>4. UNCHANGED <<variable, instance, params, requests>>
      BY <2>3 DEF prepareIndexation, tables
    <3> HIDE DEF Sound, r
    <3> QED
      BY <3>1, <3>2, <3>3, <3>4 DEF TypeOK
  <2>4. CASE RequestFails(c) \/ DeleteVariable(c) \/ ConfigConsolidation(c)
    <3>1. client' = [client EXCEPT ![c] = NoRequest]
      BY <2>4 DEF RequestFails, DeleteVariable, ConfigConsolidation, Answered
    <3>2. /\ variable' \subseteq Variable /\ instance' \subseteq Instance
          /\ params' \subseteq Variable \cup Job /\ requests' = requests
      BY <2>4 DEF RequestFails, DeleteVariable, ConfigConsolidation, TypeOK, ClientInv, tables
    <3> HIDE DEF Sound
    <3> QED
      BY <1>2, <3>1, <3>2 DEF TypeOK
  <2> HIDE DEF Goal
  <2> QED
    BY <2>1, <2>2, <2>3, <2>4
<1>4. ClientInv'
  <2>1. PICK r \in ClientRow : Sound(c, r) /\ client' = [client EXCEPT ![c] = r]
    BY <1>3
  <2>2. TypeOK /\ ClientInv /\ UNCHANGED dataset
    BY <1>1
  <2> HIDE DEF CatalogueInv, Sound
  <2>3. r \in ClientRow /\ Sound(c, r) /\ client' = [client EXCEPT ![c] = r]
    BY <2>1
  <2> QED
    BY <2>2, <2>3, OneClient
<1>5. TypeOK'
  BY <1>1, <1>3 DEF TypeOK
<1> QED
  BY <1>1, <1>4, <1>5, OtherTables

(* Datasets are added to the container the client has read or creates. *)
LEMMA SaveContainerStep ==
    ASSUME CatalogueInv, NEW c \in Client, saveContainer(c)
    PROVE  CatalogueInv'
<1> USE ReferencesAssumption, JobAssumption DEF CatalogueInv, saveContainer
<1> DEFINE new == client[c].new
           u == client[c].on
<1>1. /\ client' = [client EXCEPT ![c] = NoRequest]
      /\ dataset' = [d \in Dataset |-> IF d \in new THEN "ACTIVE" ELSE dataset[d]]
      /\ UNCHANGED <<lock, job, task, file, dropped>>
      /\ new \subseteq Dataset /\ u \in Uri
  BY DEF Answered, TypeOK, ClientInv, ClientRow
<1>2. \A d \in new : UriOf[d] = u /\ dataset[d] = Absent
  BY DEF ClientInv
<1>3. \A x \in Uri : container[x] # Absent => container'[x] # Absent
  BY DEF TypeOK, Absent
<1>4. new # {} => container'[u] # Absent
  BY <1>1 DEF TypeOK, Absent
<1>5. TypeOK'
  BY <1>1 DEF TypeOK, ClientRow, NoRequest, Absent
<1>6. ClientInv'
  BY <1>1, <1>2 DEF ClientInv, NoRequest, TypeOK, ClientRow
<1>7. JobInv' /\ TaskInv' /\ NoForgottenFile'
  BY <1>1 DEF JobInv, RowInv, Files, TaskInv, NoForgottenFile
<1>8. LockInv'
  BY <1>1, <1>2 DEF Hold, LockInv, TypeOK, Absent, Holds, RollsBack
<1>9. JobsHoldTheirDatasets'
  BY <1>1, <1>2 DEF Hold, JobsHoldTheirDatasets, TypeOK, JobRow, HeldStatus, Holds, RollsBack,
                    Absent
<1>10. FilesAreKept'
  BY <1>1, <1>2, <1>3, <1>4 DEF Files, FilesAreKept, Stored, TypeOK
<1> QED
  BY <1>5, <1>6, <1>7, <1>8, <1>9, <1>10 DEF Hold, Files

(* What nothing refers to. *)
LEMMA TidyStep ==
    ASSUME CatalogueInv, NEW kinds \in SUBSET Kinds, TidyPending(kinds)
    PROVE  CatalogueInv'
<1> USE ReferencesAssumption DEF CatalogueInv, TidyPending
<1>1. TypeOK'
  BY DEF TypeOK, Request, Absent
<1>2. ClientInv' /\ JobInv'
  BY DEF ClientInv, JobInv, RowInv
<1>3. Hold'
  BY DEF Hold, LockInv, JobsHoldTheirDatasets, Holds, RollsBack, HeldStatus
<1>4. TaskInv' /\ NoForgottenFile'
  BY DEF Files, TaskInv, NoForgottenFile
<1>5. FilesAreKept'
  BY DEF Files, FilesAreKept, Stored, PendingContainers, Within, TypeOK
<1> QED
  BY <1>1, <1>2, <1>3, <1>4, <1>5 DEF Files

(* The rows of the jobs stay rows. *)
LEMMA JobChanges ==
    ASSUME job \in [Job -> JobRow], NEW j \in Job
    PROVE  /\ [job EXCEPT ![j].reading = TRUE] \in [Job -> JobRow]
           /\ \A U \in SUBSET Uri :
                 [job EXCEPT ![j].reading = TRUE, ![j].empty = U] \in [Job -> JobRow]
           /\ \A s \in JobState, D \in SUBSET Dataset :
                 [job EXCEPT ![j].state = s, ![j].chosen = D] \in [Job -> JobRow]
           /\ \A U \in SUBSET Uri : [job EXCEPT ![j].deleting = U] \in [Job -> JobRow]
           /\ [job EXCEPT ![j].done = TRUE, ![j].deleting = {}] \in [Job -> JobRow]
<1>1. job[j] \in JobRow
  OBVIOUS
<1>2. [job[j] EXCEPT !.reading = TRUE] \in JobRow
  BY <1>1 DEF JobRow
<1>3. \A U \in SUBSET Uri : [job[j] EXCEPT !.reading = TRUE, !.empty = U] \in JobRow
  BY <1>1 DEF JobRow
<1>4. \A s \in JobState, D \in SUBSET Dataset :
         [job[j] EXCEPT !.state = s, !.chosen = D] \in JobRow
  BY <1>1 DEF JobRow
<1>5. \A U \in SUBSET Uri : [job[j] EXCEPT !.deleting = U] \in JobRow
  BY <1>1 DEF JobRow
<1>6. [job[j] EXCEPT !.done = TRUE, !.deleting = {}] \in JobRow
  BY <1>1 DEF JobRow
<1> QED
  BY <1>2, <1>3, <1>4, <1>5, <1>6

LEMMA JobEnters ==
    ASSUME job \in [Job -> JobRow], NEW j \in Job, NEW s \in JobState, Enter(j, s)
    PROVE  job' \in [Job -> JobRow]
<1>1. job[j] \in JobRow
  OBVIOUS
<1>2. [job[j] EXCEPT !.state = s, !.reading = FALSE, !.done = FALSE] \in JobRow
  BY <1>1 DEF JobRow
<1> QED
  BY <1>2 DEF Enter

LEMMA JobCommits ==
    ASSUME job \in [Job -> JobRow], NEW j \in Job, Commit(j)
    PROVE  job' \in [Job -> JobRow]
<1>1. job[j] \in JobRow
  OBVIOUS
<1>2. [job[j] EXCEPT !.reading = FALSE, !.done = TRUE] \in JobRow
  BY <1>1 DEF JobRow
<1> QED
  BY <1>2 DEF Commit

(* Only the row of j changes: j goes on holding what it held, or holds       *)
(* nothing any more, and what it has still to delete stays known.            *)
LEMMA OneRow ==
    ASSUME CatalogueInv, NEW j \in Job, NEW r, r \in JobRow, job' = [job EXCEPT ![j] = r],
           UNCHANGED <<container, dataset, lock, task, file, dropped>>,
           job[j].state # "CLEANED", RowInv(j, r),
           r.chosen = job[j].chosen, r.empty = job[j].empty, job[j].forced => r.forced,
           j \in Deletion => r.deleting \subseteq dropped,
           Holds(j)' => Holds(j) /\ HeldStatus(j) \subseteq HeldStatus(j)',
           \A d \in Dataset : lock[d] = j =>
              /\ Holds(j)' \/ RollsBack(j)' \/ (r.state = "FAILED" /\ r.forced)
              /\ dataset[d] = "TODELETE" =>
                    /\ j \in Consolidation =>
                          /\ r.state \notin {"CREATED", "INITIALISATIONFAILED"}
                          /\ RollsBack(j)' => r.forced
                    /\ r.state = "ABORTED" => ~r.reading,
           j \in Deletion /\ task[j] # {} =>
              \/ r.state = "DELETIONINPROGRESS" /\ r.done
              \/ r.state \in {"DELETIONEFFECTIVE", "DONEBUTUNTIDY"}
              \/ r.forced
    PROVE  job' \in [Job -> JobRow] /\ JobInv' /\ Hold' /\ Files'
<1> USE DEF CatalogueInv
<1>1. job'[j] = r /\ \A i \in Job : i # j => job'[i] = job[i]
  BY DEF TypeOK
<1>2. \A i \in Job : i # j => /\ Holds(i)' = Holds(i) /\ RollsBack(i)' = RollsBack(i)
                             /\ HeldStatus(i)' = HeldStatus(i)
  BY <1>1 DEF Holds, RollsBack, HeldStatus
<1>3. LockInv'
  BY <1>1, <1>2 DEF Hold, LockInv
<1>4. \A i \in Job : Holds(i)' =>
         \A d \in job'[i].chosen : lock'[d] = i /\ dataset'[d] \in HeldStatus(i)'
  BY <1>1, <1>2 DEF Hold, JobsHoldTheirDatasets
<1>5. ASSUME NEW d \in Dataset, dataset'[d] = "TODELETE"
      PROVE  \E i \in Job : /\ d \in job'[i].chosen
                            /\ job'[i].forced \/ (lock'[d] = i /\ (Holds(i)' \/ RollsBack(i)'))
  <2>1. PICK i \in Job :
           /\ d \in job[i].chosen
           /\ job[i].forced \/ (lock[d] = i /\ (Holds(i) \/ RollsBack(i)))
    BY <1>5 DEF Hold, JobsHoldTheirDatasets
  <2>2. d \in job'[i].chosen
    BY <1>1, <2>1
  <2>3. job'[i].forced \/ (lock'[d] = i /\ (Holds(i)' \/ RollsBack(i)'))
    BY <1>1, <1>2, <2>1
  <2> QED
    BY <2>2, <2>3
<1>6. JobsHoldTheirDatasets'
  BY <1>4, <1>5 DEF JobsHoldTheirDatasets
<1>7. TaskInv'
  BY <1>1 DEF Files, TaskInv, Job
<1>8. FilesAreKept'
  BY DEF Files, FilesAreKept, Stored
<1>9. NoForgottenFile'
  <2> SUFFICES ASSUME NEW x \in dropped' \cap file'
               PROVE  \E i \in Deletion :
                         \/ x \in task'[i]
                         \/ job'[i].state = "CLEANED" /\ job'[i].forced /\ x \in job'[i].empty
    BY DEF NoForgottenFile
  <2>1. PICK i \in Deletion :
           \/ x \in task[i]
           \/ job[i].state = "CLEANED" /\ job[i].forced /\ x \in job[i].empty
    BY DEF Files, NoForgottenFile
  <2> QED
    BY <1>1, <2>1 DEF Job
<1>10. job' \in [Job -> JobRow] /\ JobInv'
  BY <1>1 DEF TypeOK, JobInv
<1> QED
  BY <1>3, <1>6, <1>7, <1>8, <1>9, <1>10 DEF Hold, Files

(* The moves of a job from state to state that change nothing else. *)
Moves(j, s) ==
    LET from == job[j].state
    IN  \/ from = "CREATED" /\ s = "INITIALISATIONFAILED"
        \/ from = "INITIALISATIONFAILED" /\ s = "CREATED"
        \/ from = "DELETIONINPROGRESS" /\ ~job[j].done /\ s = "DELETIONFAILED"
        \/ from = "DELETIONFAILED" /\ s = "DELETIONINPROGRESS"
        \/ from = "CONSOLIDATIONINPROGRESS" /\ job[j].done /\ s = "CONSOLIDATIONEFFECTIVE"
        \/ from = "CONSOLIDATIONEFFECTIVE" /\ ~job[j].done /\ s = "DONEBUTUNTIDY"
        \/ from = "DONEBUTUNTIDY" /\ j \in Consolidation /\ s = "CONSOLIDATIONEFFECTIVE"
        \/ /\ from = "CONSOLIDATIONEFFECTIVE" /\ (job[j].done \/ Hidden(j) = {})
           /\ s = "DONE"
        \/ from = "DELETIONEFFECTIVE" /\ s = "DONEBUTUNTIDY"
        \/ from = "DELETIONEFFECTIVE" /\ task[j] = {} /\ s = "DONE"
        \/ from = "ABORTED" /\ s = "ROLLBACKFAILED"
        \/ from = "ROLLBACKFAILED" /\ s = "ABORTED"

LEMMA MoveStep ==
    ASSUME CatalogueInv, NEW j \in Job, NEW s \in JobState, Enter(j, s), Moves(j, s),
           UNCHANGED <<container, dataset, lock, task, file, dropped>>
    PROVE  job' \in [Job -> JobRow] /\ JobInv' /\ Hold' /\ Files'
<1> USE JobAssumption DEF CatalogueInv
<1> DEFINE r == [job[j] EXCEPT !.state = s, !.reading = FALSE, !.done = FALSE]
<1>1. job[j] \in JobRow /\ job \in [Job -> JobRow]
  BY DEF TypeOK
<1>2. /\ r \in JobRow /\ r.state = s /\ r.reading = FALSE /\ r.done = FALSE
      /\ r.chosen = job[j].chosen /\ r.empty = job[j].empty /\ r.deleting = job[j].deleting
      /\ r.forced = job[j].forced
  BY <1>1 DEF JobRow
<1>3. job' = [job EXCEPT ![j] = r]
  BY <1>1 DEF Enter
<1> HIDE DEF r
<1>4. job'[j] = r
  BY <1>1, <1>3
<1>5. RowInv(j, job[j])
  BY DEF JobInv
<1>6. job[j].state # "CLEANED" /\ RowInv(j, r)
  BY <1>2, <1>5 DEF Moves, RowInv, Job, Absent
<1>7. Holds(j)' => Holds(j) /\ HeldStatus(j) \subseteq HeldStatus(j)'
  BY <1>2, <1>4, <1>5 DEF Moves, RowInv, Holds, HeldStatus, Job
<1>8. ASSUME NEW d \in Dataset, lock[d] = j
      PROVE  /\ Holds(j)' \/ RollsBack(j)' \/ (r.state = "FAILED" /\ r.forced)
             /\ dataset[d] = "TODELETE" =>
                    /\ j \in Consolidation =>
                          /\ r.state \notin {"CREATED", "INITIALISATIONFAILED"}
                          /\ RollsBack(j)' => r.forced
                    /\ r.state = "ABORTED" => ~r.reading
  <2>1. /\ d \in job[j].chosen /\ dataset[d] \in {"ACTIVE", "TODELETE"}
        /\ Holds(j) \/ RollsBack(j) \/ (job[j].state = "FAILED" /\ job[j].forced)
        /\ dataset[d] = "TODELETE" /\ j \in Consolidation =>
              /\ job[j].state \notin {"CREATED", "INITIALISATIONFAILED"}
              /\ RollsBack(j) => job[j].forced
    BY <1>8 DEF Hold, LockInv
  <2>2. Holds(j) => dataset[d] \in HeldStatus(j)
    BY <2>1 DEF Hold, JobsHoldTheirDatasets
  <2>3. s # "DONE"
    <3>1. job[j].state # "DELETIONEFFECTIVE"
      BY <2>1 DEF Holds, RollsBack
    <3>2. CASE job[j].state = "CONSOLIDATIONEFFECTIVE"
      <4>1. dataset[d] = "TODELETE"
        BY <2>2, <3>2 DEF Holds, HeldStatus
      <4>2. d \in Hidden(j)
        BY <1>8, <4>1 DEF Hidden, LockedBy, Stored
      <4> QED
        BY <1>5, <2>1, <3>2, <4>2 DEF Moves, RowInv
    <3> QED
      BY <3>1, <3>2 DEF Moves
  <2>4. Holds(j)' \/ RollsBack(j)'
    BY <1>2, <1>4, <1>5, <2>1, <2>3 DEF Moves, RowInv, Holds, RollsBack, Job
  <2>5. ASSUME dataset[d] = "TODELETE", j \in Consolidation
        PROVE  /\ r.state \notin {"CREATED", "INITIALISATIONFAILED"}
               /\ RollsBack(j)' => r.forced
    <3>1. r.state \notin {"CREATED", "INITIALISATIONFAILED"}
      BY <1>2, <2>1, <2>5 DEF Moves
    <3>2. RollsBack(j)' => RollsBack(j)
      BY <1>2, <1>4 DEF Moves, RollsBack
    <3> QED
      BY <1>2, <2>1, <2>5, <3>1, <3>2
  <2> QED
    BY <1>2, <2>4, <2>5
<1>9. j \in Deletion /\ task[j] # {} =>
         \/ r.state = "DELETIONINPROGRESS" /\ r.done
         \/ r.state \in {"DELETIONEFFECTIVE", "DONEBUTUNTIDY"}
         \/ r.forced
  BY <1>2, <1>5 DEF Files, TaskInv, Moves, RowInv
<1>10. j \in Deletion => r.deleting \subseteq dropped
  BY <1>2 DEF Files, TaskInv
<1> QED
  BY <1>2, <1>3, <1>6, <1>7, <1>8, <1>9, <1>10, OneRow

(* A step of a job that touches neither the clients nor the other tables. *)
LEMMA JobStep ==
    ASSUME CatalogueInv, job' \in [Job -> JobRow], JobInv', Hold', Files', requests' \in Nat,
           UNCHANGED <<tables, task, file, client, dropped>>
    PROVE  CatalogueInv'
  BY DEF CatalogueInv, TypeOK, ClientInv, tables

(* The jobs that were cleaned stay as they are, and the others keep their    *)
(* tasks.                                                                    *)
LEMMA TasksStay ==
    ASSUME NoForgottenFile, dropped' = dropped, file' \subseteq file,
           \A i \in Deletion :
              /\ task[i] \cap file' \subseteq task'[i]
              /\ job[i].state = "CLEANED" =>
                    /\ job'[i].state = "CLEANED"
                    /\ job'[i].forced = job[i].forced /\ job'[i].empty = job[i].empty
    PROVE  NoForgottenFile'
<1> SUFFICES ASSUME NEW x \in dropped' \cap file'
             PROVE  \E i \in Deletion :
                       \/ x \in task'[i]
                       \/ job'[i].state = "CLEANED" /\ job'[i].forced /\ x \in job'[i].empty
  BY DEF NoForgottenFile
<1>1. PICK i \in Deletion :
         \/ x \in task[i]
         \/ job[i].state = "CLEANED" /\ job[i].forced /\ x \in job[i].empty
  BY DEF NoForgottenFile
<1> QED
  BY <1>1

(* The datasets are chosen, and may be locked by another job. *)
LEMMA FindDatasetsStep ==
    ASSUME CatalogueInv, NEW j \in Job, NEW D \in SUBSET Dataset, FindDatasets(j, D)
    PROVE  CatalogueInv'
<1> USE ReferencesAssumption, JobAssumption
      DEF CatalogueInv, FindDatasets, Request, NoJob, tables, Absent
<1>1. TypeOK'
  <2>1. job' \in [Job -> JobRow]
    BY DEF TypeOK, JobRow, JobState, Job
  <2> QED
    BY <2>1 DEF TypeOK, Job
<1>2. ClientInv'
  BY DEF ClientInv, TypeOK, ClientRow
<1>3. JobInv'
  BY DEF JobInv, RowInv, TypeOK, JobRow, Job
<1>4. LockInv'
  BY DEF Hold, LockInv, JobsHoldTheirDatasets, TypeOK, JobRow, Holds, RollsBack, HeldStatus, Job,
         JobInv, RowInv
<1>5. JobsHoldTheirDatasets'
  BY DEF Hold, LockInv, JobsHoldTheirDatasets, TypeOK, JobRow, Holds, RollsBack, HeldStatus, Job,
         JobInv, RowInv
<1>6. TaskInv'
  BY DEF Files, TaskInv, TypeOK, JobRow, Job
<1>7. FilesAreKept'
  BY DEF Files, TaskInv, FilesAreKept, Stored, TypeOK, JobRow
<1>8. NoForgottenFile'
  BY TasksStay DEF Files, TypeOK, JobRow, Job
<1> QED
  BY <1>1, <1>2, <1>3, <1>4, <1>5, <1>6, <1>7, <1>8 DEF Hold, Files

(* The datasets chosen are locked if they can be. *)
LEMMA DelInitStep ==
    ASSUME CatalogueInv, NEW j \in Job, delInit(j)
    PROVE  CatalogueInv'
<1> USE ReferencesAssumption, JobAssumption
      DEF CatalogueInv, delInit, Lock, Enter, CanLock, Stored, Absent
<1>1. TypeOK'
  <2> HIDE DEF Enter
  <2>1. job' \in [Job -> JobRow]
    BY JobEnters DEF TypeOK, JobState, Job
  <2> QED
    BY <2>1 DEF TypeOK, Job
<1>2. ClientInv'
  BY DEF ClientInv, TypeOK, ClientRow
<1>3. JobInv'
  BY DEF JobInv, RowInv, TypeOK, JobRow, Job
<1>4. LockInv'
  BY DEF Hold, LockInv, JobsHoldTheirDatasets, TypeOK, JobRow, Holds, RollsBack, HeldStatus, Job,
         JobInv, RowInv
<1>5. JobsHoldTheirDatasets'
  BY DEF Hold, LockInv, JobsHoldTheirDatasets, TypeOK, JobRow, Holds, RollsBack, HeldStatus, Job,
         JobInv, RowInv
<1>6. TaskInv'
  BY DEF Files, TaskInv, TypeOK, JobRow, Job
<1>7. FilesAreKept'
  BY DEF Files, TaskInv, FilesAreKept, Stored, TypeOK, JobRow
<1>8. NoForgottenFile'
  BY TasksStay DEF Files, TypeOK, JobRow, Job
<1> QED
  BY <1>1, <1>2, <1>3, <1>4, <1>5, <1>6, <1>7, <1>8 DEF Hold, Files

(* The parameters of the variable are copied for the job. *)
LEMMA CsldInitStep ==
    ASSUME CatalogueInv, NEW j \in Consolidation, NEW v \in Variable, csldInit(j, v)
    PROVE  CatalogueInv'
<1> USE ReferencesAssumption, JobAssumption
      DEF CatalogueInv, csldInit, Lock, Enter, CanLock, Stored, Absent
<1>1. TypeOK'
  <2> HIDE DEF Enter
  <2>1. job' \in [Job -> JobRow]
    BY JobEnters DEF TypeOK, JobState, Job
  <2> QED
    BY <2>1 DEF TypeOK, Job
<1>2. ClientInv'
  BY DEF ClientInv, TypeOK, ClientRow
<1>3. JobInv'
  BY DEF JobInv, RowInv, TypeOK, JobRow, Job
<1>4. LockInv'
  BY DEF Hold, LockInv, JobsHoldTheirDatasets, TypeOK, JobRow, Holds, RollsBack, HeldStatus, Job,
         JobInv, RowInv
<1>5. JobsHoldTheirDatasets'
  BY DEF Hold, LockInv, JobsHoldTheirDatasets, TypeOK, JobRow, Holds, RollsBack, HeldStatus, Job,
         JobInv, RowInv
<1>6. TaskInv'
  BY DEF Files, TaskInv, TypeOK, JobRow, Job
<1>7. FilesAreKept'
  BY DEF Files, TaskInv, FilesAreKept, Stored, TypeOK, JobRow
<1>8. NoForgottenFile'
  BY TasksStay DEF Files, TypeOK, JobRow, Job
<1> QED
  BY <1>1, <1>2, <1>3, <1>4, <1>5, <1>6, <1>7, <1>8 DEF Hold, Files

(* Nothing is written, and the job waits for a command. *)
LEMMA TransactionFailsStep ==
    ASSUME CatalogueInv, NEW j \in Job, TransactionFails(j)
    PROVE  CatalogueInv'
<1> USE ReferencesAssumption, JobAssumption DEF CatalogueInv, Absent
<1>1. /\ UNCHANGED <<tables, task, file, client, dropped>> /\ requests' \in Nat
      /\ UNCHANGED <<container, dataset, lock, task, file, dropped>>
  BY DEF TransactionFails, tables, TypeOK
<1>2. job \in [Job -> JobRow] /\ RowInv(j, job[j])
  BY DEF TypeOK, JobInv
<1>3. CASE job[j].state = Absent /\ job' = [job EXCEPT ![j] = NoJob]
  <2>1. job' \in [Job -> JobRow]
    BY <1>2, <1>3 DEF NoJob, JobRow, JobState
  <2>2. JobInv'
    BY <1>2, <1>3 DEF JobInv, RowInv, NoJob
  <2>3. \A d \in Dataset : lock[d] # j
    BY <1>2, <1>3 DEF Hold, LockInv, Holds, RollsBack
  <2>4. LockInv'
    BY <1>1, <1>2, <1>3, <2>3 DEF Hold, LockInv, NoJob, Holds, RollsBack
  <2>5. JobsHoldTheirDatasets'
    BY <1>1, <1>2, <1>3, <2>3
    DEF Hold, JobsHoldTheirDatasets, NoJob, Holds, RollsBack, HeldStatus, RowInv
  <2>6. Files'
    BY <1>1, <1>2, <1>3
    DEF Files, TaskInv, FilesAreKept, NoForgottenFile, Stored, NoJob, Job, RowInv
  <2> QED
    BY <1>1, <2>1, <2>2, <2>4, <2>5, <2>6, JobStep DEF Hold
<1>4. CASE /\ ~job[j].done
           /\ \/ job[j].state = "CREATED" /\ Enter(j, "INITIALISATIONFAILED")
              \/ job[j].state = "DELETIONINPROGRESS" /\ Enter(j, "DELETIONFAILED")
              \/ job[j].state = "CONSOLIDATIONEFFECTIVE" /\ Enter(j, "DONEBUTUNTIDY")
              \/ job[j].state = "ABORTED" /\ Enter(j, "ROLLBACKFAILED")
  <2>1. PICK t \in {"INITIALISATIONFAILED", "DELETIONFAILED", "DONEBUTUNTIDY",
                    "ROLLBACKFAILED"} : Enter(j, t) /\ Moves(j, t)
    BY <1>4 DEF Moves
  <2>2. t \in JobState
    BY DEF JobState
  <2> QED
    BY <1>1, <2>1, <2>2, MoveStep, JobStep
<1>5. CASE /\ job[j].state = "DELETIONEFFECTIVE"
           /\ job' = [job EXCEPT ![j].state = "DONEBUTUNTIDY", ![j].deleting = {}]
           /\ ~job[j].done
  <2> DEFINE r == [job[j] EXCEPT !.state = "DONEBUTUNTIDY", !.deleting = {}]
  <2>1. /\ r \in JobRow /\ job' = [job EXCEPT ![j] = r] /\ job'[j] = r
        /\ r.state = "DONEBUTUNTIDY" /\ r.chosen = job[j].chosen /\ r.empty = job[j].empty
        /\ r.forced = job[j].forced /\ r.deleting = {} /\ r.done = job[j].done
        /\ r.reading = job[j].reading
    <3>1. job[j] \in JobRow /\ "DONEBUTUNTIDY" \in JobState
      BY <1>2 DEF JobState
    <3>2. r \in JobRow
      BY <3>1 DEF JobRow
    <3>3. job' = [job EXCEPT ![j] = r]
      BY <1>2, <1>5
    <3>4. /\ r.state = "DONEBUTUNTIDY" /\ r.chosen = job[j].chosen /\ r.empty = job[j].empty
          /\ r.forced = job[j].forced /\ r.deleting = {} /\ r.done = job[j].done
          /\ r.reading = job[j].reading
      BY <3>1 DEF JobRow
    <3> HIDE DEF r
    <3> QED
      BY <1>2, <3>2, <3>3, <3>4
  <2> HIDE DEF r
  <2>2. j \in Deletion /\ RowInv(j, r) /\ job[j].state # "CLEANED"
    BY <1>2, <1>5, <2>1 DEF RowInv, Job
  <2>3. ~Holds(j)' /\ \A d \in Dataset : lock[d] # j
    BY <1>5, <2>1, <2>2 DEF Hold, LockInv, Holds, RollsBack
  <2>4. /\ j \in Deletion => r.deleting \subseteq dropped
        /\ job[j].forced => r.forced
    BY <2>1
  <2>5. JobInv' /\ Hold' /\ Files' /\ job' \in [Job -> JobRow]
    <3>1. \A d \in Dataset : lock[d] = j =>
             /\ Holds(j)' \/ RollsBack(j)' \/ (r.state = "FAILED" /\ r.forced)
             /\ dataset[d] = "TODELETE" =>
                   /\ j \in Consolidation =>
                         /\ r.state \notin {"CREATED", "INITIALISATIONFAILED"}
                         /\ RollsBack(j)' => r.forced
                   /\ r.state = "ABORTED" => ~r.reading
      BY <2>3
    <3> HIDE DEF CatalogueInv
    <3> QED
      BY <1>1, <2>1, <2>2, <2>3, <2>4, <3>1, OneRow
  <2> QED
    BY <1>1, <2>5, JobStep
<1> QED
  BY <1>3, <1>4, <1>5 DEF TransactionFails

(* The files to delete are read with the tasks. *)
LEMMA EnterDeletionStep ==
    ASSUME CatalogueInv, NEW j \in Deletion, EnterDeletion(j),
           \/ job[j].state = "DELETIONINPROGRESS" /\ job[j].done
           \/ job[j].state = "DONEBUTUNTIDY",
           UNCHANGED <<container, dataset, lock, task, file, dropped>>
    PROVE  job' \in [Job -> JobRow] /\ JobInv' /\ Hold' /\ Files'
<1> USE JobAssumption DEF CatalogueInv
<1> DEFINE r == [job[j] EXCEPT !.state = "DELETIONEFFECTIVE", !.done = FALSE,
                               !.deleting = task[j]]
<1>1. job \in [Job -> JobRow] /\ j \in Job /\ task[j] \in SUBSET Uri /\ RowInv(j, job[j])
  BY DEF TypeOK, JobInv, Job
<1>2. /\ r \in JobRow /\ job' = [job EXCEPT ![j] = r] /\ job'[j] = r
      /\ r.state = "DELETIONEFFECTIVE" /\ r.chosen = job[j].chosen /\ r.empty = job[j].empty
      /\ r.forced = job[j].forced /\ r.deleting = task[j] /\ r.done = FALSE
      /\ r.reading = job[j].reading
  BY <1>1 DEF JobRow, JobState, EnterDeletion
<1> HIDE DEF r
<1>3. RowInv(j, r) /\ job[j].state # "CLEANED" /\ (job[j].forced => r.forced)
  BY <1>1, <1>2 DEF RowInv, Absent
<1>4. ~Holds(j)' /\ \A d \in Dataset : lock[d] # j
  BY <1>1, <1>2 DEF Hold, LockInv, Holds, RollsBack
<1>5. j \in Deletion => r.deleting \subseteq dropped
  BY <1>2 DEF Files, TaskInv
<1>6. \A d \in Dataset : lock[d] = j =>
         /\ Holds(j)' \/ RollsBack(j)' \/ (r.state = "FAILED" /\ r.forced)
         /\ dataset[d] = "TODELETE" =>
               /\ j \in Consolidation =>
                     /\ r.state \notin {"CREATED", "INITIALISATIONFAILED"}
                     /\ RollsBack(j)' => r.forced
               /\ r.state = "ABORTED" => ~r.reading
  BY <1>4
<1> HIDE DEF CatalogueInv
<1> QED
  BY <1>1, <1>2, <1>3, <1>4, <1>5, <1>6, OneRow

(* The step of the state is committed, the job enters the next one. *)
LEMMA HandleJobEvtStep ==
    ASSUME CatalogueInv, NEW j \in Job, handleJobEvt(j)
    PROVE  CatalogueInv'
<1> USE ReferencesAssumption, JobAssumption DEF CatalogueInv
<1>1. /\ UNCHANGED <<tables, task, file, client, dropped>> /\ requests' \in Nat
      /\ UNCHANGED <<container, dataset, lock, task, file, dropped>>
  BY DEF handleJobEvt, tables, TypeOK
<1>2. CASE j \in Deletion /\ job[j].done /\ job[j].state = "DELETIONINPROGRESS" /\ EnterDeletion(j)
  <2>1. job' \in [Job -> JobRow] /\ JobInv' /\ Hold' /\ Files'
    BY <1>1, <1>2, EnterDeletionStep
  <2> QED
    BY <1>1, <2>1, JobStep
<1>3. CASE \/ /\ j \in Consolidation /\ job[j].done
              /\ job[j].state = "CONSOLIDATIONINPROGRESS" /\ Enter(j, "CONSOLIDATIONEFFECTIVE")
           \/ /\ j \in Consolidation /\ (job[j].done \/ Hidden(j) = {})
              /\ job[j].state = "CONSOLIDATIONEFFECTIVE" /\ Enter(j, "DONE")
           \/ /\ j \in Deletion /\ job[j].done
              /\ job[j].state = "DELETIONEFFECTIVE"
              /\ Enter(j, IF task[j] = {} THEN "DONE" ELSE "DONEBUTUNTIDY")
  <2>1. PICK t \in {"CONSOLIDATIONEFFECTIVE", "DONE", "DONEBUTUNTIDY"} :
                Enter(j, t) /\ Moves(j, t)
    BY <1>3 DEF Moves
  <2>2. t \in JobState
    BY DEF JobState
  <2> QED
    BY <1>1, <2>1, <2>2, MoveStep, JobStep
<1> QED
  BY <1>2, <1>3 DEF handleJobEvt

(* The datasets that are not consolidated are released. *)
LEMMA PrepareOrdersStep ==
    ASSUME CatalogueInv, NEW j \in Consolidation, NEW D \in SUBSET Dataset, csldPrepareOrders(j, D)
    PROVE  CatalogueInv'
<1> USE ReferencesAssumption, JobAssumption DEF CatalogueInv, csldPrepareOrders, Absent
<1>1. TypeOK'
  <2>1. job \in [Job -> JobRow] /\ j \in Job
    BY DEF TypeOK, Job
  <2>2. job' \in [Job -> JobRow]
    BY <2>1, JobChanges DEF JobState
  <2> QED
    BY <2>2 DEF TypeOK, Job
<1>2. ClientInv'
  BY DEF ClientInv, TypeOK, ClientRow
<1>3. JobInv'
  BY DEF JobInv, RowInv, TypeOK, JobRow, Job
<1>4. LockInv'
  BY DEF Hold, LockInv, JobsHoldTheirDatasets, TypeOK, JobRow, Holds, RollsBack, HeldStatus, Job,
         JobInv, RowInv
<1>5. JobsHoldTheirDatasets'
  <2>1. \A i \in Job : Holds(i)' =>
           \A d \in job'[i].chosen : lock'[d] = i /\ dataset'[d] \in HeldStatus(i)'
    BY DEF Hold, LockInv, JobsHoldTheirDatasets, TypeOK, JobRow, Holds, HeldStatus, Job, JobInv,
           RowInv
  <2>2. ASSUME NEW d \in Dataset, dataset'[d] = "TODELETE"
        PROVE  \E i \in Job : /\ d \in job'[i].chosen
                              /\ job'[i].forced \/ (lock'[d] = i /\ (Holds(i)' \/ RollsBack(i)'))
    <3>1. PICK i \in Job :
             /\ d \in job[i].chosen
             /\ job[i].forced \/ (lock[d] = i /\ (Holds(i) \/ RollsBack(i)))
      BY <2>2 DEF Hold, JobsHoldTheirDatasets, TypeOK
    <3>2. i # j
      BY <2>2, <3>1 DEF Hold, LockInv, JobInv, RowInv, Job
    <3>3. d \in job'[i].chosen
      BY <3>1, <3>2 DEF TypeOK
    <3>4. job'[i].forced \/ (lock'[d] = i /\ (Holds(i)' \/ RollsBack(i)'))
      BY <2>2, <3>1, <3>2 DEF TypeOK, Holds, RollsBack
    <3> QED
      BY <3>3, <3>4
  <2> QED
    BY <2>1, <2>2 DEF JobsHoldTheirDatasets
<1>6. TaskInv'
  BY DEF Files, TaskInv, TypeOK, JobRow, Job
<1>7. FilesAreKept'
  BY DEF Files, TaskInv, FilesAreKept, Stored, TypeOK, JobRow
<1>8. NoForgottenFile'
  BY TasksStay DEF Files, TypeOK, JobRow, Job
<1> QED
  BY <1>1, <1>2, <1>3, <1>4, <1>5, <1>6, <1>7, <1>8 DEF Hold, Files

(* A consolidation hides the datasets it holds. *)
LEMMA SwapDatasetsStep ==
    ASSUME CatalogueInv, NEW j \in Job, csldSwapDatasets(j)
    PROVE  CatalogueInv'
<1> USE ReferencesAssumption, JobAssumption
      DEF CatalogueInv, csldSwapDatasets, ChangeStatus, Commit, LockedBy, Stored, Hidden, Absent
<1>1. TypeOK'
  <2> HIDE DEF Commit
  <2>1. job' \in [Job -> JobRow]
    BY JobCommits DEF TypeOK, Job
  <2> QED
    BY <2>1 DEF TypeOK, Job
<1>2. ClientInv'
  BY DEF ClientInv, TypeOK, ClientRow
<1>3. JobInv'
  BY DEF JobInv, RowInv, TypeOK, JobRow, Job
<1>4. LockInv'
  BY DEF Hold, LockInv, JobsHoldTheirDatasets, TypeOK, JobRow, Holds, RollsBack, HeldStatus, Job,
         JobInv, RowInv
<1>5. JobsHoldTheirDatasets'
  BY DEF Hold, LockInv, JobsHoldTheirDatasets, TypeOK, JobRow, Holds, RollsBack, HeldStatus, Job,
         JobInv, RowInv
<1>6. TaskInv'
  BY DEF Files, TaskInv, TypeOK, JobRow, Job
<1>7. FilesAreKept'
  BY DEF Files, TaskInv, FilesAreKept, Stored, TypeOK, JobRow
<1>8. NoForgottenFile'
  BY TasksStay DEF Files, TypeOK, JobRow, Job
<1> QED
  BY <1>1, <1>2, <1>3, <1>4, <1>5, <1>6, <1>7, <1>8 DEF Hold, Files

(* A deletion job takes the datasets over. *)
LEMMA DeleteDatasetsStep ==
    ASSUME CatalogueInv, NEW j \in Consolidation, NEW k \in Deletion, csldDeleteDatasets(j, k)
    PROVE  CatalogueInv'
<1> USE ReferencesAssumption, JobAssumption
      DEF CatalogueInv, csldDeleteDatasets, NoJob, LockedBy, Stored, Hidden, Absent
<1>1. TypeOK'
  <2>1. job \in [Job -> JobRow] /\ j \in Job /\ k \in Job /\ j # k
    BY DEF TypeOK, Job
  <2>2. Hidden(j) \subseteq Dataset
    OBVIOUS
  <2>3. job' \in [Job -> JobRow]
    <3> DEFINE done == [job[j] EXCEPT !.done = TRUE, !.chosen = {}]
               created == [job[k] EXCEPT !.state = "CREATED", !.chosen = Hidden(j)]
    <3>1. job' = [job EXCEPT ![j] = done, ![k] = created]
      BY <2>1
    <3>2. job[j] \in JobRow /\ job[k] \in JobRow
      BY <2>1
    <3> HIDE DEF Hidden, CatalogueInv, csldDeleteDatasets
    <3>3. done \in JobRow
      BY <3>2 DEF JobRow, JobState
    <3>4. created \in JobRow
      BY <2>2, <3>2 DEF JobRow, JobState
    <3> HIDE DEF done, created
    <3> QED
      BY <2>1, <3>1, <3>3, <3>4
  <2> QED
    BY <2>3 DEF TypeOK, Job
<1>2. ClientInv'
  BY DEF ClientInv, TypeOK, ClientRow
<1>3. JobInv'
  <2>1. /\ job[j] \in JobRow /\ job[k] \in JobRow /\ j # k /\ j \in Job /\ k \in Job
        /\ RowInv(j, job[j]) /\ RowInv(k, job[k])
    BY DEF TypeOK, Job, JobInv
  <2>2. \A i \in Job : i # j /\ i # k => job'[i] = job[i]
    BY DEF TypeOK
  <2>3. /\ job'[j].state = job[j].state /\ job'[j].reading = job[j].reading
        /\ job'[j].done = TRUE /\ job'[j].chosen = {} /\ job'[j].forced = job[j].forced
    BY <2>1 DEF TypeOK, JobRow
  <2>4. /\ job'[k].state = "CREATED" /\ job'[k].reading = FALSE
        /\ job'[k].done = FALSE /\ job'[k].forced = FALSE
    BY <2>1 DEF TypeOK, JobRow
  <2>5. RowInv(j, job'[j])
    BY <2>1, <2>3 DEF RowInv
  <2>6. RowInv(k, job'[k])
    BY <2>1, <2>4 DEF RowInv
  <2> QED
    BY <2>2, <2>5, <2>6 DEF JobInv
<1>4. LockInv'
  BY DEF Hold, LockInv, JobsHoldTheirDatasets, TypeOK, JobRow, Holds, RollsBack, HeldStatus, Job,
         JobInv, RowInv
<1>5. JobsHoldTheirDatasets'
  <2>1. \A i \in Job : Holds(i)' =>
           \A d \in job'[i].chosen : lock'[d] = i /\ dataset'[d] \in HeldStatus(i)'
    <3>1. j # k /\ j \in Job /\ k \in Job /\ job[j] \in JobRow /\ job[k] \in JobRow
      BY DEF Job, TypeOK
    <3>2. job'[j].chosen = {}
      BY <3>1 DEF TypeOK, JobRow
    <3>3. job'[k].chosen = Hidden(j) /\ job'[k].state = "CREATED"
      BY <3>1 DEF TypeOK, JobRow
    <3>4. ASSUME NEW d \in job'[k].chosen
          PROVE  lock'[d] = k /\ dataset'[d] \in HeldStatus(k)'
      BY <3>3, <3>4 DEF HeldStatus
    <3>5. ASSUME NEW i \in Job, i # j, i # k, Holds(i)', NEW d \in job'[i].chosen
          PROVE  lock'[d] = i /\ dataset'[d] \in HeldStatus(i)'
      <4>1. job'[i] = job[i]
        BY <3>5 DEF TypeOK
      <4>2. lock[d] = i /\ dataset[d] \in HeldStatus(i) /\ d \in Dataset
        BY <3>5, <4>1 DEF Hold, JobsHoldTheirDatasets, Holds, TypeOK, JobRow
      <4> QED
        BY <3>5, <4>1, <4>2 DEF HeldStatus
    <3> QED
      BY <3>2, <3>4, <3>5
  <2>2. ASSUME NEW d \in Dataset, dataset'[d] = "TODELETE"
        PROVE  \E i \in Job : /\ d \in job'[i].chosen
                              /\ job'[i].forced \/ (lock'[d] = i /\ (Holds(i)' \/ RollsBack(i)'))
    <3>1. PICK i \in Job :
             /\ d \in job[i].chosen
             /\ job[i].forced \/ (lock[d] = i /\ (Holds(i) \/ RollsBack(i)))
      BY <2>2 DEF Hold, JobsHoldTheirDatasets, TypeOK
    <3>2. j # k /\ j \in Job /\ k \in Job /\ ~job[j].forced /\ ~job[k].forced
      BY DEF Job, JobInv, RowInv, TypeOK
    <3>3. CASE i = j
      <4>1. d \in Hidden(j)
        BY <2>2, <3>1, <3>2, <3>3
      <4> QED
        BY <3>2, <3>3, <4>1 DEF TypeOK, JobRow, Holds
    <3>4. CASE i # j
      <4>1. i # k
        BY <3>1, <3>2, <3>4 DEF Hold, LockInv, TypeOK, Holds, RollsBack
      <4>2. job'[i] = job[i]
        BY <3>4, <4>1 DEF TypeOK
      <4>3. lock[d] = i => lock'[d] = i
        BY <3>4 DEF TypeOK
      <4> QED
        BY <3>1, <4>2, <4>3 DEF Holds, RollsBack
    <3> QED
      BY <3>3, <3>4
  <2> QED
    BY <2>1, <2>2 DEF JobsHoldTheirDatasets
<1>6. TaskInv'
  <2>1. job[k] \in JobRow /\ j # k /\ k \in Job
    BY DEF TypeOK, Job
  <2>2. job'[k].deleting = {}
    BY <2>1 DEF TypeOK, JobRow
  <2>3. task[k] = {}
    BY DEF Files, TaskInv
  <2>4. \A i \in Deletion : i # k => job'[i] = job[i]
    BY DEF TypeOK, Job
  <2> QED
    BY <2>2, <2>3, <2>4 DEF Files, TaskInv
<1>7. FilesAreKept'
  BY DEF Files, TaskInv, FilesAreKept, Stored, TypeOK, JobRow
<1>8. NoForgottenFile'
  BY TasksStay DEF Files, TypeOK, JobRow, Job
<1> QED
  BY <1>1, <1>2, <1>3, <1>4, <1>5, <1>6, <1>7, <1>8 DEF Hold, Files

(* A deletion hides the datasets it holds. *)
LEMMA SetToDeleteStep ==
    ASSUME CatalogueInv, NEW j \in Job, delSetToDelete(j)
    PROVE  CatalogueInv'
<1> USE ReferencesAssumption, JobAssumption
      DEF CatalogueInv, delSetToDelete, ChangeStatus, Enter, LockedBy, Stored, Hidden, Absent
<1>1. TypeOK'
  <2> HIDE DEF Enter
  <2>1. job' \in [Job -> JobRow]
    BY JobEnters DEF TypeOK, JobState, Job
  <2> QED
    BY <2>1 DEF TypeOK, Job
<1>2. ClientInv'
  BY DEF ClientInv, TypeOK, ClientRow
<1>3. JobInv'
  BY DEF JobInv, RowInv, TypeOK, JobRow, Job
<1>4. LockInv'
  BY DEF Hold, LockInv, JobsHoldTheirDatasets, TypeOK, JobRow, Holds, RollsBack, HeldStatus, Job,
         JobInv, RowInv
<1>5. JobsHoldTheirDatasets'
  <2>1. \A i \in Job : Holds(i)' =>
           \A d \in job'[i].chosen : lock'[d] = i /\ dataset'[d] \in HeldStatus(i)'
    BY DEF Hold, LockInv, JobsHoldTheirDatasets, TypeOK, JobRow, Holds, HeldStatus, Job, JobInv,
           RowInv
  <2>2. ASSUME NEW d \in Dataset, dataset'[d] = "TODELETE"
        PROVE  \E i \in Job : /\ d \in job'[i].chosen
                              /\ job'[i].forced \/ (lock'[d] = i /\ (Holds(i)' \/ RollsBack(i)'))
    <3>1. CASE lock[d] = j
      BY <2>2, <3>1 DEF Hold, LockInv, TypeOK, JobRow, Holds, RowInv, JobInv
    <3>2. CASE lock[d] # j
      <4>1. PICK i \in Job :
               /\ d \in job[i].chosen
               /\ job[i].forced \/ (lock[d] = i /\ (Holds(i) \/ RollsBack(i)))
        BY <2>2, <3>2 DEF Hold, JobsHoldTheirDatasets, TypeOK
      <4> QED
        BY <3>2, <4>1 DEF TypeOK, JobRow, Holds, RollsBack, JobInv, RowInv
    <3> QED
      BY <3>1, <3>2
  <2> QED
    BY <2>1, <2>2 DEF JobsHoldTheirDatasets
<1>6. TaskInv'
  BY DEF Files, TaskInv, TypeOK, JobRow, Job
<1>7. FilesAreKept'
  BY DEF Files, TaskInv, FilesAreKept, Stored, TypeOK, JobRow
<1>8. NoForgottenFile'
  BY TasksStay DEF Files, TypeOK, JobRow, Job
<1> QED
  BY <1>1, <1>2, <1>3, <1>4, <1>5, <1>6, <1>7, <1>8 DEF Hold, Files

(* What is read may be stale when it is used. *)
LEMMA ReadContainersStep ==
    ASSUME CatalogueInv, NEW j \in Job, ReadContainers(j)
    PROVE  CatalogueInv'
<1> USE ReferencesAssumption, JobAssumption
      DEF CatalogueInv, ReadContainers, Emptied, tables, Absent
<1>1. TypeOK'
  <2>1. job \in [Job -> JobRow] /\ j \in Job
    BY DEF TypeOK, Job
  <2>2. job' \in [Job -> JobRow]
    BY <2>1, JobChanges DEF JobState
  <2> QED
    BY <2>2 DEF TypeOK, Job
<1>2. ClientInv'
  BY DEF ClientInv, TypeOK, ClientRow
<1>3. JobInv'
  BY DEF JobInv, RowInv, TypeOK, JobRow, Job
<1>4. LockInv'
  BY DEF Hold, LockInv, JobsHoldTheirDatasets, TypeOK, JobRow, Holds, RollsBack, HeldStatus, Job,
         JobInv, RowInv
<1>5. JobsHoldTheirDatasets'
  <2>1. \A i \in Job : Holds(i)' =>
           \A d \in job'[i].chosen : lock'[d] = i /\ dataset'[d] \in HeldStatus(i)'
    BY DEF Hold, LockInv, JobsHoldTheirDatasets, TypeOK, JobRow, Holds, HeldStatus, Job, JobInv,
           RowInv
  <2>2. ASSUME NEW d \in Dataset, dataset'[d] = "TODELETE"
        PROVE  \E i \in Job : /\ d \in job'[i].chosen
                              /\ job'[i].forced \/ (lock'[d] = i /\ (Holds(i)' \/ RollsBack(i)'))
    <3>1. PICK i \in Job :
             /\ d \in job[i].chosen
             /\ job[i].forced \/ (lock[d] = i /\ (Holds(i) \/ RollsBack(i)))
      BY <2>2 DEF Hold, JobsHoldTheirDatasets, TypeOK
    <3>2. d \in job'[i].chosen
      BY <3>1 DEF TypeOK, JobRow
    <3>3. job'[i].forced \/ (lock'[d] = i /\ (Holds(i)' \/ RollsBack(i)'))
      BY <2>2, <3>1 DEF Hold, LockInv, TypeOK, JobRow, Holds, RollsBack, JobInv, RowInv, Job
    <3> QED
      BY <3>2, <3>3
  <2> QED
    BY <2>1, <2>2 DEF JobsHoldTheirDatasets
<1>6. TaskInv'
  BY DEF Files, TaskInv, TypeOK, JobRow, Job
<1>7. FilesAreKept'
  BY DEF Files, TaskInv, FilesAreKept, Stored, TypeOK, JobRow
<1>8. NoForgottenFile'
  BY TasksStay DEF Files, TypeOK, JobRow, Job
<1> QED
  BY <1>1, <1>2, <1>3, <1>4, <1>5, <1>6, <1>7, <1>8 DEF Hold, Files

(* A container is removed only with the last of its datasets. *)
LEMMA RemoveDatasetsStep ==
    ASSUME CatalogueInv, NEW j \in Job, delRemoveDatasets(j)
    PROVE  CatalogueInv'
<1> USE ReferencesAssumption, JobAssumption
      DEF CatalogueInv, delRemoveDatasets, StillEmpty, Within, ToDelete, Release,
          ChangeStatus, Commit, LockedBy, Stored, Hidden, Absent
<1>1. TypeOK'
  <2> HIDE DEF Commit
  <2>1. job' \in [Job -> JobRow]
    BY JobCommits DEF TypeOK, Job
  <2>2. /\ container' \in [Uri -> {Absent, "managed", "unmanaged"}]
        /\ task' \in [Deletion -> SUBSET Uri]
        /\ dropped' \subseteq Uri
    BY DEF TypeOK, JobRow, Job
  <2>3. /\ dataset' \in [Dataset -> {Absent, "ACTIVE", "TODELETE", "GONE"}]
        /\ lock' \in [Dataset -> Job \cup {Absent}]
    BY DEF TypeOK
  <2> QED
    BY <2>1, <2>2, <2>3 DEF TypeOK
<1>2. ClientInv'
  BY DEF ClientInv, TypeOK, ClientRow
<1>3. JobInv'
  BY DEF JobInv, RowInv, TypeOK, JobRow, Job
<1>4. LockInv'
  BY DEF Hold, LockInv, JobsHoldTheirDatasets, TypeOK, JobRow, Holds, RollsBack, HeldStatus, Job,
         JobInv, RowInv
<1>5. JobsHoldTheirDatasets'
  <2>1. \A i \in Job : Holds(i)' =>
           \A d \in job'[i].chosen : lock'[d] = i /\ dataset'[d] \in HeldStatus(i)'
    BY DEF Hold, LockInv, JobsHoldTheirDatasets, TypeOK, JobRow, Holds, HeldStatus, Job, JobInv,
           RowInv
  <2>2. ASSUME NEW d \in Dataset, dataset'[d] = "TODELETE"
        PROVE  \E i \in Job : /\ d \in job'[i].chosen
                              /\ job'[i].forced \/ (lock'[d] = i /\ (Holds(i)' \/ RollsBack(i)'))
    <3>1. PICK i \in Job :
             /\ d \in job[i].chosen
             /\ job[i].forced \/ (lock[d] = i /\ (Holds(i) \/ RollsBack(i)))
      BY <2>2 DEF Hold, JobsHoldTheirDatasets, TypeOK
    <3>2. d \in job'[i].chosen
      BY <3>1 DEF TypeOK, JobRow
    <3>3. job'[i].forced \/ (lock'[d] = i /\ (Holds(i)' \/ RollsBack(i)'))
      BY <2>2, <3>1 DEF Hold, LockInv, TypeOK, JobRow, Holds, RollsBack, JobInv, RowInv, Job
    <3> QED
      BY <3>2, <3>3
  <2> QED
    BY <2>1, <2>2 DEF JobsHoldTheirDatasets
<1>6. TaskInv'
  BY DEF Files, TaskInv, TypeOK, JobRow, Job
<1>7. FilesAreKept'
  BY DEF Files, TaskInv, FilesAreKept, Stored, TypeOK, JobRow
<1>8. NoForgottenFile'
  <2> SUFFICES ASSUME NEW x \in dropped' \cap file'
               PROVE  \E i \in Deletion :
                         \/ x \in task'[i]
                         \/ job'[i].state = "CLEANED" /\ job'[i].forced /\ x \in job'[i].empty
    BY DEF NoForgottenFile
  <2>1. CASE x \in dropped
    <3>1. PICK i \in Deletion :
             \/ x \in task[i]
             \/ job[i].state = "CLEANED" /\ job[i].forced /\ x \in job[i].empty
      BY <2>1 DEF Files, NoForgottenFile
    <3> QED
      BY <3>1 DEF TypeOK, Job
  <2>2. CASE x \notin dropped
    <3>1. x \in task'[j]
      BY <2>2 DEF TypeOK
    <3> QED
      BY <3>1
  <2> QED
    BY <2>1, <2>2
<1> QED
  BY <1>1, <1>2, <1>3, <1>4, <1>5, <1>6, <1>7, <1>8 DEF Hold, Files

(* A file is deleted for one of the tasks. *)
LEMMA DeleteContainerStep ==
    ASSUME CatalogueInv, NEW j \in Deletion, NEW u \in Uri, DeleteContainer(j, u)
    PROVE  CatalogueInv'
<1> USE ReferencesAssumption, JobAssumption DEF CatalogueInv, DeleteContainer, tables, Absent
<1>1. TypeOK'
  <2>1. job \in [Job -> JobRow] /\ j \in Job /\ job[j].deleting \ {u} \in SUBSET Uri
    BY DEF TypeOK, JobRow, Job
  <2>2. job' \in [Job -> JobRow]
    BY <2>1, JobChanges
  <2> QED
    BY <2>2 DEF TypeOK, Job
<1>2. ClientInv'
  BY DEF ClientInv, TypeOK, ClientRow
<1>3. JobInv'
  BY DEF JobInv, RowInv, TypeOK, JobRow, Job
<1>4. LockInv'
  BY DEF Hold, LockInv, JobsHoldTheirDatasets, TypeOK, JobRow, Holds, RollsBack, HeldStatus, Job,
         JobInv, RowInv
<1>5. JobsHoldTheirDatasets'
  BY DEF Hold, LockInv, JobsHoldTheirDatasets, TypeOK, JobRow, Holds, RollsBack, HeldStatus, Job,
         JobInv, RowInv
<1>6. TaskInv'
  BY DEF Files, TaskInv, TypeOK, JobRow, Job
<1>7. FilesAreKept'
  BY DEF Files, TaskInv, FilesAreKept, Stored, TypeOK, JobRow
<1>8. NoForgottenFile'
  <2>1. \A i \in Deletion : job[i].state = "CLEANED" =>
           job'[i].state = "CLEANED" /\ job'[i].forced = job[i].forced /\ job'[i].empty = job[i].empty
    BY DEF TypeOK, JobRow, Job
  <2>2. file' \subseteq file /\ dropped' = dropped /\ task' = task
    OBVIOUS
  <2> QED
    BY <2>1, <2>2, TasksStay DEF Files
<1> QED
  BY <1>1, <1>2, <1>3, <1>4, <1>5, <1>6, <1>7, <1>8 DEF Hold, Files

(* The tasks that remain are those of the files that remain. *)
LEMMA DeleteContainersStep ==
    ASSUME CatalogueInv, NEW j \in Job, delDeleteContainers(j)
    PROVE  CatalogueInv'
<1> USE ReferencesAssumption, JobAssumption
      DEF CatalogueInv, delDeleteContainers, Remaining, tables, Absent
<1>1. TypeOK'
  <2>1. job' \in [Job -> JobRow]
    BY JobChanges DEF TypeOK, Job
  <2> QED
    BY <2>1 DEF TypeOK, Job
<1>2. ClientInv'
  BY DEF ClientInv, TypeOK, ClientRow
<1>3. JobInv'
  BY DEF JobInv, RowInv, TypeOK, JobRow, Job
<1>4. LockInv'
  BY DEF Hold, LockInv, JobsHoldTheirDatasets, TypeOK, JobRow, Holds, RollsBack, HeldStatus, Job,
         JobInv, RowInv
<1>5. JobsHoldTheirDatasets'
  <2>1. \A i \in Job : Holds(i)' =>
           \A d \in job'[i].chosen : lock'[d] = i /\ dataset'[d] \in HeldStatus(i)'
    BY DEF Hold, LockInv, JobsHoldTheirDatasets, TypeOK, JobRow, Holds, HeldStatus, Job, JobInv,
           RowInv
  <2>2. ASSUME NEW d \in Dataset, dataset'[d] = "TODELETE"
        PROVE  \E i \in Job : /\ d \in job'[i].chosen
                              /\ job'[i].forced \/ (lock'[d] = i /\ (Holds(i)' \/ RollsBack(i)'))
    <3>1. PICK i \in Job :
             /\ d \in job[i].chosen
             /\ job[i].forced \/ (lock[d] = i /\ (Holds(i) \/ RollsBack(i)))
      BY <2>2 DEF Hold, JobsHoldTheirDatasets, TypeOK
    <3>2. d \in job'[i].chosen
      BY <3>1 DEF TypeOK, JobRow
    <3>3. job'[i].forced \/ (lock'[d] = i /\ (Holds(i)' \/ RollsBack(i)'))
      BY <2>2, <3>1 DEF Hold, LockInv, TypeOK, JobRow, Holds, RollsBack, JobInv, RowInv, Job
    <3> QED
      BY <3>2, <3>3
  <2> QED
    BY <2>1, <2>2 DEF JobsHoldTheirDatasets
<1>6. TaskInv'
  BY DEF Files, TaskInv, TypeOK, JobRow, Job
<1>7. FilesAreKept'
  BY DEF Files, TaskInv, FilesAreKept, Stored, TypeOK, JobRow
<1>8. NoForgottenFile'
  BY TasksStay DEF Files, TypeOK, JobRow, Job
<1> QED
  BY <1>1, <1>2, <1>3, <1>4, <1>5, <1>6, <1>7, <1>8 DEF Hold, Files

(* A command sends the job back to its last step. *)
LEMMA RetryStep ==
    ASSUME CatalogueInv, NEW j \in Job, RetryJob(j)
    PROVE  CatalogueInv'
<1> USE ReferencesAssumption, JobAssumption DEF CatalogueInv
<1>1. /\ UNCHANGED <<tables, task, file, client, dropped>> /\ requests' \in Nat
      /\ UNCHANGED <<container, dataset, lock, task, file, dropped>>
  BY DEF RetryJob, Request, tables, TypeOK
<1>2. CASE j \in Deletion /\ job[j].state = "DONEBUTUNTIDY" /\ EnterDeletion(j)
  <2>1. job' \in [Job -> JobRow] /\ JobInv' /\ Hold' /\ Files'
    BY <1>1, <1>2, EnterDeletionStep
  <2> QED
    BY <1>1, <2>1, JobStep
<1>3. CASE \/ job[j].state = "INITIALISATIONFAILED" /\ Enter(j, "CREATED")
           \/ job[j].state = "DELETIONFAILED" /\ Enter(j, "DELETIONINPROGRESS")
           \/ job[j].state = "ROLLBACKFAILED" /\ Enter(j, "ABORTED")
           \/ /\ job[j].state = "DONEBUTUNTIDY" /\ j \in Consolidation
              /\ Enter(j, "CONSOLIDATIONEFFECTIVE")
  <2>1. PICK t \in {"CREATED", "DELETIONINPROGRESS", "ABORTED", "CONSOLIDATIONEFFECTIVE"} :
                Enter(j, t) /\ Moves(j, t)
    BY <1>3 DEF Moves
  <2>2. t \in JobState
    BY DEF JobState
  <2> QED
    BY <1>1, <2>1, <2>2, MoveStep, JobStep
<1> QED
  BY <1>2, <1>3 DEF RetryJob, Job

(* A job that is cancelled holds nothing but what its rollback restores,     *)
(* unless it is forced.                                                      *)
LEMMA CancelStep ==
    ASSUME CatalogueInv, NEW j \in Job, CancelJob(j)
    PROVE  CatalogueInv'
<1> USE ReferencesAssumption, JobAssumption DEF CatalogueInv
<1>1. /\ UNCHANGED <<tables, task, file, client, dropped>> /\ requests' \in Nat
      /\ UNCHANGED <<container, dataset, lock, task, file, dropped>>
  BY DEF CancelJob, Request, tables, TypeOK
<1>2. job \in [Job -> JobRow] /\ job[j] \in JobRow /\ RowInv(j, job[j])
  BY DEF TypeOK, JobInv
<1>3. j \in Deletion => job[j].deleting \subseteq dropped
  BY DEF Files, TaskInv
<1>4. CASE /\ \/ job[j].state \in {"CREATED", "CONSOLIDATIONINPROGRESS", "DELETIONINPROGRESS",
                                   "DELETIONFAILED", "DELETIONEFFECTIVE"}
              \/ job[j].state = "INITIALISATIONFAILED" /\ j \in Consolidation
           /\ job' = [job EXCEPT ![j].state = "ABORTED", ![j].reading = FALSE,
                                 ![j].done = FALSE, ![j].forced = TooLate(j)]
  <2> DEFINE r == [job[j] EXCEPT !.state = "ABORTED", !.reading = FALSE, !.done = FALSE,
                                 !.forced = TooLate(j)]
  <2>1. TooLate(j) \in BOOLEAN
    BY <1>2 DEF TooLate, JobRow
  <2>2. /\ r \in JobRow /\ job' = [job EXCEPT ![j] = r] /\ job'[j] = r
        /\ r.state = "ABORTED" /\ r.chosen = job[j].chosen /\ r.empty = job[j].empty
        /\ r.forced = TooLate(j) /\ r.deleting = job[j].deleting /\ r.done = FALSE
        /\ r.reading = FALSE
    BY <1>2, <1>4, <2>1 DEF JobRow, JobState
  <2> HIDE DEF r
  <2>3. RowInv(j, r) /\ job[j].state # "CLEANED" /\ ~job[j].forced
    BY <1>2, <1>4, <2>2 DEF RowInv
  <2>4. ~Holds(j)' /\ RollsBack(j)'
    BY <2>2 DEF Holds, RollsBack
  <2>5. ASSUME NEW d \in Dataset, lock[d] = j, dataset[d] = "TODELETE", j \in Consolidation
        PROVE  r.forced
    <3>1. /\ d \in job[j].chosen
          /\ job[j].state \notin {"CREATED", "INITIALISATIONFAILED"}
      BY <2>5 DEF Hold, LockInv
    <3>2. job[j].state = "CONSOLIDATIONINPROGRESS"
      BY <1>2, <1>4, <2>5, <3>1 DEF RowInv
    <3>3. dataset[d] \in HeldStatus(j)
      BY <3>1, <3>2 DEF Hold, JobsHoldTheirDatasets, Holds
    <3> QED
      BY <2>2, <2>5, <3>2, <3>3 DEF HeldStatus, TooLate
  <2>6. j \in Deletion /\ task[j] # {} => r.forced
    BY <1>4, <2>2, <2>3 DEF Files, TaskInv, TooLate
  <2>7. job' \in [Job -> JobRow] /\ JobInv' /\ Hold' /\ Files'
    <3>1. /\ j \in Deletion => r.deleting \subseteq dropped
          /\ job[j].forced => r.forced
      BY <1>3, <2>2, <2>3
    <3>2. ASSUME NEW d \in Dataset, lock[d] = j
          PROVE  /\ Holds(j)' \/ RollsBack(j)' \/ (r.state = "FAILED" /\ r.forced)
                 /\ dataset[d] = "TODELETE" =>
                        /\ j \in Consolidation =>
                              /\ r.state \notin {"CREATED", "INITIALISATIONFAILED"}
                              /\ RollsBack(j)' => r.forced
                        /\ r.state = "ABORTED" => ~r.reading
      BY <2>2, <2>4, <2>5, <3>2
    <3> HIDE DEF CatalogueInv
    <3> QED
      BY <1>1, <2>2, <2>3, <2>4, <2>6, <3>1, <3>2, OneRow
  <2> QED
    BY <1>1, <2>7, JobStep
<1>5. CASE /\ \/ job[j].state = "ROLLBACKFAILED"
              \/ job[j].state = "INITIALISATIONFAILED" /\ j \in Deletion
           /\ job' = [job EXCEPT ![j].state = "FAILED", ![j].forced = TRUE]
  <2> DEFINE r == [job[j] EXCEPT !.state = "FAILED", !.forced = TRUE]
  <2>1. /\ r \in JobRow /\ job' = [job EXCEPT ![j] = r] /\ job'[j] = r
        /\ r.state = "FAILED" /\ r.chosen = job[j].chosen /\ r.empty = job[j].empty
        /\ r.forced = TRUE /\ r.deleting = job[j].deleting /\ r.done = job[j].done
        /\ r.reading = job[j].reading
    BY <1>2, <1>5 DEF JobRow, JobState
  <2> HIDE DEF r
  <2>2. RowInv(j, r) /\ job[j].state # "CLEANED"
    BY <1>2, <1>5, <2>1 DEF RowInv, Absent
  <2>3. ~Holds(j)'
    BY <2>1 DEF Holds
  <2>4. job' \in [Job -> JobRow] /\ JobInv' /\ Hold' /\ Files'
    BY <1>1, <1>3, <2>1, <2>2, <2>3, OneRow DEF RollsBack
  <2> QED
    BY <1>1, <2>4, JobStep
<1> QED
  BY <1>4, <1>5 DEF CancelJob

(* The datasets are restored before they are released. *)
LEMMA RestoreStep ==
    ASSUME CatalogueInv, NEW j \in Job, restoreDatasets(j)
    PROVE  CatalogueInv'
<1> USE ReferencesAssumption, JobAssumption
      DEF CatalogueInv, restoreDatasets, ChangeStatus, LockedBy, Stored, Hidden, Absent
<1>1. TypeOK'
  <2>1. job \in [Job -> JobRow] /\ j \in Job
    BY DEF TypeOK, Job
  <2>2. job' \in [Job -> JobRow]
    BY <2>1, JobChanges DEF JobState
  <2> QED
    BY <2>2 DEF TypeOK, Job
<1>2. ClientInv'
  BY DEF ClientInv, TypeOK, ClientRow
<1>3. JobInv'
  BY DEF JobInv, RowInv, TypeOK, JobRow, Job
<1>4. LockInv'
  BY DEF Hold, LockInv, JobsHoldTheirDatasets, TypeOK, JobRow, Holds, RollsBack, HeldStatus, Job,
         JobInv, RowInv
<1>5. JobsHoldTheirDatasets'
  <2>1. \A i \in Job : Holds(i)' =>
           \A d \in job'[i].chosen : lock'[d] = i /\ dataset'[d] \in HeldStatus(i)'
    BY DEF Hold, LockInv, JobsHoldTheirDatasets, TypeOK, JobRow, Holds, HeldStatus, Job, JobInv,
           RowInv
  <2>2. ASSUME NEW d \in Dataset, dataset'[d] = "TODELETE"
        PROVE  \E i \in Job : /\ d \in job'[i].chosen
                              /\ job'[i].forced \/ (lock'[d] = i /\ (Holds(i)' \/ RollsBack(i)'))
    <3>1. PICK i \in Job :
             /\ d \in job[i].chosen
             /\ job[i].forced \/ (lock[d] = i /\ (Holds(i) \/ RollsBack(i)))
      BY <2>2 DEF Hold, JobsHoldTheirDatasets, TypeOK
    <3>2. d \in job'[i].chosen
      BY <3>1 DEF TypeOK, JobRow
    <3>3. job'[i].forced \/ (lock'[d] = i /\ (Holds(i)' \/ RollsBack(i)'))
      BY <2>2, <3>1 DEF Hold, LockInv, TypeOK, JobRow, Holds, RollsBack, JobInv, RowInv, Job
    <3> QED
      BY <3>2, <3>3
  <2> QED
    BY <2>1, <2>2 DEF JobsHoldTheirDatasets
<1>6. TaskInv'
  BY DEF Files, TaskInv, TypeOK, JobRow, Job
<1>7. FilesAreKept'
  BY DEF Files, TaskInv, FilesAreKept, Stored, TypeOK, JobRow
<1>8. NoForgottenFile'
  BY TasksStay DEF Files, TypeOK, JobRow, Job
<1> QED
  BY <1>1, <1>2, <1>3, <1>4, <1>5, <1>6, <1>7, <1>8 DEF Hold, Files

(* The rollback ends with no dataset hidden. *)
LEMMA ReleaseStep ==
    ASSUME CatalogueInv, NEW j \in Job, ReleaseDatasets(j)
    PROVE  CatalogueInv'
<1> USE ReferencesAssumption, JobAssumption
      DEF CatalogueInv, ReleaseDatasets, Release, Enter, Absent
<1>1. TypeOK'
  <2> HIDE DEF Enter
  <2>1. job' \in [Job -> JobRow]
    BY JobEnters DEF TypeOK, JobState, Job
  <2> QED
    BY <2>1 DEF TypeOK, Job
<1>2. ClientInv'
  BY DEF ClientInv, TypeOK, ClientRow
<1>3. JobInv'
  BY DEF JobInv, RowInv, TypeOK, JobRow, Job
<1>4. LockInv'
  BY DEF Hold, LockInv, JobsHoldTheirDatasets, TypeOK, JobRow, Holds, RollsBack, HeldStatus, Job,
         JobInv, RowInv
<1>5. JobsHoldTheirDatasets'
  <2>1. \A i \in Job : Holds(i)' =>
           \A d \in job'[i].chosen : lock'[d] = i /\ dataset'[d] \in HeldStatus(i)'
    BY DEF Hold, LockInv, JobsHoldTheirDatasets, TypeOK, JobRow, Holds, HeldStatus, Job, JobInv,
           RowInv
  <2>2. ASSUME NEW d \in Dataset, dataset'[d] = "TODELETE"
        PROVE  \E i \in Job : /\ d \in job'[i].chosen
                              /\ job'[i].forced \/ (lock'[d] = i /\ (Holds(i)' \/ RollsBack(i)'))
    <3>1. PICK i \in Job :
             /\ d \in job[i].chosen
             /\ job[i].forced \/ (lock[d] = i /\ (Holds(i) \/ RollsBack(i)))
      BY <2>2 DEF Hold, JobsHoldTheirDatasets, TypeOK
    <3>2. d \in job'[i].chosen
      BY <3>1 DEF TypeOK, JobRow
    <3>3. job'[i].forced \/ (lock'[d] = i /\ (Holds(i)' \/ RollsBack(i)'))
      BY <2>2, <3>1 DEF Hold, LockInv, TypeOK, JobRow, Holds, RollsBack, JobInv, RowInv, Job
    <3> QED
      BY <3>2, <3>3
  <2> QED
    BY <2>1, <2>2 DEF JobsHoldTheirDatasets
<1>6. TaskInv'
  BY DEF Files, TaskInv, TypeOK, JobRow, Job
<1>7. FilesAreKept'
  BY DEF Files, TaskInv, FilesAreKept, Stored, TypeOK, JobRow
<1>8. NoForgottenFile'
  BY TasksStay DEF Files, TypeOK, JobRow, Job
<1> QED
  BY <1>1, <1>2, <1>3, <1>4, <1>5, <1>6, <1>7, <1>8 DEF Hold, Files

(* A job is cleaned when it holds nothing and has no task. *)
LEMMA CleanStep ==
    ASSUME CatalogueInv, NEW j \in Job, CleanJobs(j)
    PROVE  CatalogueInv'
<1> USE ReferencesAssumption, JobAssumption
      DEF CatalogueInv, CleanJobs, Cleanable, Request, Release, Enter, Absent
<1>1. TypeOK'
  <2> HIDE DEF Enter
  <2>1. job' \in [Job -> JobRow]
    BY JobEnters DEF TypeOK, JobState, Job
  <2> QED
    BY <2>1 DEF TypeOK, Job
<1>2. ClientInv'
  BY DEF ClientInv, TypeOK, ClientRow
<1>3. JobInv'
  BY DEF JobInv, RowInv, TypeOK, JobRow, Job
<1>4. LockInv'
  BY DEF Hold, LockInv, JobsHoldTheirDatasets, TypeOK, JobRow, Holds, RollsBack, HeldStatus, Job,
         JobInv, RowInv
<1>5. JobsHoldTheirDatasets'
  <2>1. \A i \in Job : Holds(i)' =>
           \A d \in job'[i].chosen : lock'[d] = i /\ dataset'[d] \in HeldStatus(i)'
    BY DEF Hold, LockInv, JobsHoldTheirDatasets, TypeOK, JobRow, Holds, HeldStatus, Job, JobInv,
           RowInv
  <2>2. ASSUME NEW d \in Dataset, dataset'[d] = "TODELETE"
        PROVE  \E i \in Job : /\ d \in job'[i].chosen
                              /\ job'[i].forced \/ (lock'[d] = i /\ (Holds(i)' \/ RollsBack(i)'))
    <3>1. PICK i \in Job :
             /\ d \in job[i].chosen
             /\ job[i].forced \/ (lock[d] = i /\ (Holds(i) \/ RollsBack(i)))
      BY <2>2 DEF Hold, JobsHoldTheirDatasets, TypeOK
    <3>2. d \in job'[i].chosen
      BY <3>1 DEF TypeOK, JobRow
    <3>3. job'[i].forced \/ (lock'[d] = i /\ (Holds(i)' \/ RollsBack(i)'))
      BY <2>2, <3>1 DEF Hold, LockInv, TypeOK, JobRow, Holds, RollsBack, JobInv, RowInv, Job
    <3> QED
      BY <3>2, <3>3
  <2> QED
    BY <2>1, <2>2 DEF JobsHoldTheirDatasets
<1>6. TaskInv'
  BY DEF Files, TaskInv, TypeOK, JobRow, Job
<1>7. FilesAreKept'
  BY DEF Files, TaskInv, FilesAreKept, Stored, TypeOK, JobRow
<1>8. NoForgottenFile'
  <2> SUFFICES ASSUME NEW x \in dropped' \cap file'
               PROVE  \E i \in Deletion :
                         \/ x \in task'[i]
                         \/ job'[i].state = "CLEANED" /\ job'[i].forced /\ x \in job'[i].empty
    BY DEF NoForgottenFile
  <2>1. PICK i \in Deletion :
           \/ x \in task[i]
           \/ job[i].state = "CLEANED" /\ job[i].forced /\ x \in job[i].empty
    BY DEF Files, NoForgottenFile
  <2>2. CASE i # j
    BY <2>1, <2>2 DEF TypeOK, Job
  <2>3. CASE i = j
    <3>1. x \in task[j] /\ job[j].forced /\ x \in job[j].empty
      BY <2>1, <2>3 DEF Files, TaskInv
    <3> QED
      BY <2>3, <3>1 DEF TypeOK, JobRow
  <2> QED
    BY <2>2, <2>3
<1> QED
  BY <1>1, <1>2, <1>3, <1>4, <1>5, <1>6, <1>7, <1>8 DEF Hold, Files

-----------------------------------------------------------------------------
(* Nothing happens to the catalogue. *)
LEMMA StutteringStep ==
    ASSUME CatalogueInv, UNCHANGED vars
    PROVE  CatalogueInv'
<1>1. UNCHANGED <<aoi, record, variable, instance, params, container, dataset, lock, job, task,
                  file, client, dropped, requests>>
  BY DEF vars, tables
<1> QED
  BY <1>1, OtherTables DEF CatalogueInv, TypeOK, ClientInv

LEMMA CatalogueStep == CatalogueInv /\ [Next]_vars => CatalogueInv'
<1> SUFFICES ASSUME CatalogueInv, [Next]_vars PROVE CatalogueInv'
  OBVIOUS
<1>1. CASE UNCHANGED vars
  BY <1>1, StutteringStep
<1>2. CASE \/ \E a \in Aoi : CreateAOI(a)
           \/ \E R \in SUBSET Record : CreateRecords(R) \/ DeleteRecords(R)
           \/ \E v \in Variable : CreateVariable(v)
           \/ \E i \in Instance : InstantiateVariable(i) \/ DeleteInstance(i)
  BY <1>2, RequestStep
<1>3. CASE \/ \E c \in Client, v \in Variable, r \in {"ConfigConsolidation", "DeleteVariable"} :
                 ReadVariable(c, v, r)
           \/ \E c \in Client, u \in Uri, D \in SUBSET Dataset, m \in BOOLEAN :
                 IndexExternalDatasets(c, u, D, m)
  BY <1>3, ReadStep
<1>4. CASE \E c \in Client : \/ DeleteVariable(c) \/ ConfigConsolidation(c)
                             \/ prepareIndexation(c) \/ saveContainer(c) \/ RequestFails(c)
  BY <1>4, ReadStep, SaveContainerStep
<1>5. CASE \E j \in Job, D \in SUBSET Dataset \ {{}} : FindDatasets(j, D)
  BY <1>5, FindDatasetsStep
<1>6. CASE \E j \in Job : \/ delInit(j) \/ TransactionFails(j) \/ delSetToDelete(j)
                          \/ ReadContainers(j) \/ delRemoveDatasets(j) \/ delDeleteContainers(j)
                          \/ RetryJob(j) \/ CancelJob(j) \/ restoreDatasets(j)
                          \/ ReleaseDatasets(j) \/ CleanJobs(j) \/ csldSwapDatasets(j)
                          \/ handleJobEvt(j)
  BY <1>6, DelInitStep, TransactionFailsStep, SetToDeleteStep, ReadContainersStep,
     RemoveDatasetsStep, DeleteContainersStep, RetryStep, CancelStep, RestoreStep, ReleaseStep,
     CleanStep, SwapDatasetsStep, HandleJobEvtStep
<1>7. CASE \/ \E j \in Consolidation, v \in Variable : csldInit(j, v)
           \/ \E j \in Consolidation, D \in SUBSET Dataset : csldPrepareOrders(j, D)
           \/ \E j \in Consolidation, k \in Deletion : csldDeleteDatasets(j, k)
           \/ \E j \in Deletion, u \in Uri : DeleteContainer(j, u)
  BY <1>7, CsldInitStep, PrepareOrdersStep, DeleteDatasetsStep, DeleteContainerStep
<1>8. CASE \E kinds \in SUBSET Kinds : TidyPending(kinds)
  BY <1>8, TidyStep
<1> QED
  BY <1>1, <1>2, <1>3, <1>4, <1>5, <1>6, <1>7, <1>8 DEF Next

(* The rows of the catalogue and of its jobs stay in their domains, and the  *)
(* jobs, the clients and the tasks keep to what the proofs rest on, whatever *)
(* the interleaving of the requests and of the transactions of the jobs.     *)
THEOREM SharedCatalogueCorrect == Spec => []CatalogueInv
<1>1. Init => CatalogueInv
  BY InitCatalogue
<1>2. CatalogueInv /\ [Next]_vars => CatalogueInv'
  BY CatalogueStep
<1> QED
  BY <1>1, <1>2, PTL DEF Spec

(* Every dataset is in a container of the catalogue and the file of a        *)
(* container is only deleted after a job has removed the container: indexing *)
(* in a container from which jobs remove datasets, and removing the last     *)
(* datasets of a container by several jobs, lose no file (saveContainer,     *)
(* opSubFncRemoveDatasets).                                                  *)
THEOREM FilesKept == Spec => []FilesAreKept
<1>1. CatalogueInv => FilesAreKept
  BY DEF CatalogueInv, Files
<1> QED
  BY <1>1, SharedCatalogueCorrect, PTL

(* The file of a managed container removed by a job is deleted or has a task *)
(* in a job, whatever fails, is cancelled, is retried or is cleaned; the     *)
(* only files that are forgotten were removed by a job cancelled by force    *)
(* after its removal, then cleaned (delRemoveDatasets, delDeleteContainers,  *)
(* triggerDeletion, CleanJobs).                                              *)
THEOREM FilesRemembered == Spec => []NoForgottenFile
<1>1. CatalogueInv => NoForgottenFile
  BY DEF CatalogueInv, Files
<1> QED
  BY <1>1, SharedCatalogueCorrect, PTL

(* A job has all its datasets from its creation to its end, in the status it *)
(* gave them, and the only datasets that stay hidden without a job are those *)
(* of a job cancelled by force after it hid them (LockDatasets,              *)
(* ReleaseDatasets, ChangeDatasetsStatus, CleanJobs, triggerConsolidation).  *)
THEOREM DatasetsHeld == Spec => []JobsHoldTheirDatasets
<1>1. CatalogueInv => JobsHoldTheirDatasets
  BY DEF CatalogueInv, Hold
<1> QED
  BY <1>1, SharedCatalogueCorrect, PTL

(* Only the deletion of a variable and TidyPending remove parameters. *)
LEMMA ParamsStep ==
    ASSUME CatalogueInv, Next
    PROVE  \A o \in params \ params' : o \notin variable' \cup JobRows'
<1> SUFFICES ASSUME NEW o \in params \ params'
             PROVE  o \notin variable' \cup JobRows'
  OBVIOUS
<1>1. \/ \E c \in Client : DeleteVariable(c)
      \/ \E kinds \in SUBSET Kinds : TidyPending(kinds)
  <2>1. ~ (params \subseteq params')
    OBVIOUS
  <2>2. CASE \/ \E x \in Aoi : CreateAOI(x)
             \/ \E R \in SUBSET Record : CreateRecords(R) \/ DeleteRecords(R)
             \/ \E v \in Variable : CreateVariable(v)
             \/ \E i \in Instance : InstantiateVariable(i) \/ DeleteInstance(i)
    BY <2>1, <2>2 DEF CreateAOI, CreateRecords, DeleteRecords, CreateVariable,
                      InstantiateVariable, DeleteInstance
  <2>3. CASE \/ \E c \in Client, v \in Variable, r \in {"ConfigConsolidation", "DeleteVariable"} :
                   ReadVariable(c, v, r)
             \/ \E c \in Client, u \in Uri, D \in SUBSET Dataset, m \in BOOLEAN :
                   IndexExternalDatasets(c, u, D, m)
             \/ \E c \in Client : \/ ConfigConsolidation(c)
                                  \/ prepareIndexation(c) \/ saveContainer(c) \/ RequestFails(c)
    BY <2>1, <2>3 DEF ReadVariable, IndexExternalDatasets, ConfigConsolidation,
                      prepareIndexation, saveContainer, RequestFails, tables
  <2>4. CASE \/ \E j \in Job, D \in SUBSET Dataset \ {{}} : FindDatasets(j, D)
             \/ \E j \in Job : \/ delInit(j) \/ TransactionFails(j) \/ delSetToDelete(j)
                               \/ ReadContainers(j) \/ delRemoveDatasets(j)
                               \/ delDeleteContainers(j)
    BY <2>1, <2>4 DEF FindDatasets, delInit, TransactionFails, delSetToDelete, ReadContainers,
                      delRemoveDatasets, delDeleteContainers, tables
  <2>5. CASE \E j \in Job : \/ RetryJob(j) \/ CancelJob(j) \/ restoreDatasets(j)
                            \/ ReleaseDatasets(j) \/ CleanJobs(j) \/ csldSwapDatasets(j)
                            \/ handleJobEvt(j)
    BY <2>1, <2>5 DEF RetryJob, CancelJob, restoreDatasets, ReleaseDatasets, CleanJobs,
                      csldSwapDatasets, handleJobEvt, tables
  <2>6. CASE \/ \E j \in Consolidation, v \in Variable : csldInit(j, v)
             \/ \E j \in Consolidation, D \in SUBSET Dataset : csldPrepareOrders(j, D)
             \/ \E j \in Consolidation, k \in Deletion : csldDeleteDatasets(j, k)
             \/ \E j \in Deletion, u \in Uri : DeleteContainer(j, u)
    BY <2>1, <2>6 DEF csldInit, csldPrepareOrders, csldDeleteDatasets, DeleteContainer, tables
  <2> QED
    BY <2>2, <2>3, <2>4, <2>5, <2>6 DEF Next
<1>2. CASE \E c \in Client : DeleteVariable(c)
  <2>1. PICK c \in Client : DeleteVariable(c)
    BY <1>2
  <2>2. o = client[c].on /\ o \notin variable' /\ o \in Variable
    BY <2>1 DEF DeleteVariable, CatalogueInv, ClientInv
  <2>3. JobRows' \subseteq Job
    BY DEF JobRows
  <2> QED
    BY <2>2, <2>3, JobAssumption
<1>3. CASE \E kinds \in SUBSET Kinds : TidyPending(kinds)
  BY <1>3 DEF TidyPending, PendingParams, JobRows
<1> QED
  BY <1>1, <1>2, <1>3

(* Consolidation parameters disappear only with the variable or the job they *)
(* belong to, although no reference protects them (saveVariable,             *)
(* DeletePendingConsolidationParams).                                        *)
THEOREM ParamsKept == Spec => ParamsAreKept
<1>1. CatalogueInv /\ [Next]_vars =>
        [\A o \in params \ params' : o \notin variable' \cup JobRows']_vars
  BY ParamsStep
<1> QED
  BY <1>1, SharedCatalogueCorrect, PTL DEF Spec, ParamsAreKept
=============================================================================
