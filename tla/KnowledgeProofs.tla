-------------------------- MODULE KnowledgeProofs ---------------------------
(***************************************************************************)
(* Proofs about Knowledge, and so about the Organizations it extends: the  *)
(* documents have their types, an organizer has one organization, and the  *)
(* chunks of a document are all there or all gone.                         *)
(***************************************************************************)
EXTENDS Knowledge, TLAPS

\* The organizations of an organizer.
Own(u) == {o \in DOMAIN organizations : organizations[o].owner = u}

-----------------------------------------------------------------------------
(* Types                                                                   *)

\* The request nobody makes is a task of its type.
LEMMA NoTaskType ==
  /\ NoTask \in Task
  /\ NoTask.pc = "idle" /\ NoTask.user \in Organizers
  /\ NoTask.organization = 0 /\ NoTask.document = 0 /\ NoTask.size = 0
<1>1. AnyOrganizer \in Organizers  BY SomebodyAssumption DEF AnyOrganizer
<1>2. (CHOOSE n \in Names : TRUE) \in Names  BY SomebodyAssumption
<1>3. <<CHOOSE n \in Names : TRUE, 1>> \in Slugs  BY <1>2 DEF Slugs
<1> QED  BY <1>1, <1>3 DEF NoTask, Task, TaskStages

\* A step of one request leaves the tasks of the others alone.
LEMMA PutTask ==
  ASSUME task \in [Requests -> Task], NEW r \in Requests, NEW q \in Task,
         task' = [task EXCEPT ![r] = q]
  PROVE  /\ task' \in [Requests -> Task]
         /\ \A s \in Requests : task'[s] = IF s = r THEN q ELSE task[s]
OBVIOUS

LEMMA PutNoTask ==
  ASSUME task \in [Requests -> Task], NEW r \in Requests, Answer(r)
  PROVE  /\ task' \in [Requests -> Task]
         /\ \A s \in Requests : task'[s] = IF s = r THEN NoTask ELSE task[s]
BY NoTaskType, PutTask DEF Answer

\* What a document appended to a list of documents leaves in it.
LEMMA Appended ==
  ASSUME NEW S, NEW list \in Seq(S), NEW e \in S, NEW new, new = Append(list, e)
  PROVE  /\ new \in Seq(S)
         /\ Len(new) = Len(list) + 1 /\ Len(list) \in Nat
         /\ DOMAIN new = 1 .. Len(new) /\ DOMAIN list = 1 .. Len(list)
         /\ new[Len(list) + 1] = e
         /\ \A o \in DOMAIN list : new[o] = list[o]
OBVIOUS

(* What each step does to the task of its request.                         *)

LEMMA CreateEffect ==
  ASSUME task \in [Requests -> Task], NEW r \in Requests,
         NEW u \in Organizers, NEW name \in Names, Create(r, u, name)
  PROVE  \E q \in Task :
           /\ q.pc = "probe" /\ q.user = u /\ q.document = 0
           /\ task' \in [Requests -> Task]
           /\ \A s \in Requests : task'[s] = IF s = r THEN q ELSE task[s]
<1> DEFINE q == [NoTask EXCEPT !.pc = "probe", !.user = u, !.slug = <<name, 1>>]
<1>1. <<name, 1>> \in Slugs  BY DEF Slugs
<1>2. q \in Task /\ q.pc = "probe" /\ q.user = u /\ q.document = 0
  BY <1>1, NoTaskType DEF Task, TaskStages
<1>3. task' = [task EXCEPT ![r] = q]  BY DEF Create
<1> HIDE DEF q
<1> QED  BY <1>2, <1>3, PutTask

LEMMA ProbeEffect ==
  ASSUME task \in [Requests -> Task], NEW r \in Requests, Probe(r)
  PROVE  \E q \in Task :
           /\ q.pc \in {"probe", "insert"} /\ q.user = task[r].user
           /\ q.document = task[r].document
           /\ task' \in [Requests -> Task]
           /\ \A s \in Requests : task'[s] = IF s = r THEN q ELSE task[s]
<1> DEFINE slug == <<task[r].slug[1], task[r].slug[2] + 1>>
           q == IF Taken(task[r].slug) THEN [task[r] EXCEPT !.slug = slug]
                ELSE [task[r] EXCEPT !.pc = "insert"]
<1>1. task[r] \in Task /\ task[r].pc = "probe"  BY DEF Probe
<1>2. task[r].slug \in Names \X (Nat \ {0})  BY <1>1 DEF Task, Slugs
<1>3. slug \in Slugs  BY <1>2 DEF Slugs
<1>4. q \in Task /\ q.pc \in {"probe", "insert"} /\ q.user = task[r].user
      /\ q.document = task[r].document
  <2> HIDE DEF slug
  <2> QED  BY <1>1, <1>3 DEF Task, TaskStages
<1>5. task' = [task EXCEPT ![r] = q]
  <2>1. CASE Taken(task[r].slug)  BY <2>1 DEF Probe
  <2>2. CASE ~Taken(task[r].slug)  BY <2>2 DEF Probe
  <2> QED  BY <2>1, <2>2
<1> HIDE DEF q
<1> QED  BY <1>4, <1>5, PutTask

LEMMA InsertEffect ==
  ASSUME KnowledgeTypeOK, NEW r \in Requests, Insert(r)
  PROVE  /\ task' \in [Requests -> Task]
         /\ \/ /\ \A s \in Requests : task'[s] = IF s = r THEN NoTask ELSE task[s]
               /\ organizations' = organizations
            \/ /\ organizations' = Append(organizations, [slug |-> task[r].slug,
                                                          owner |-> task[r].user])
               /\ \E q \in Task :
                    /\ q.pc = "link" /\ q.user = task[r].user
                    /\ q.organization = Len(organizations) + 1
                    /\ q.document = task[r].document
                    /\ \A s \in Requests : task'[s] = IF s = r THEN q ELSE task[s]
<1>1. task \in [Requests -> Task] /\ task[r] \in Task /\ Len(organizations) \in Nat
  BY DEF KnowledgeTypeOK, OrganizationTypeOK
<1>2. CASE Taken(task[r].slug)
  BY <1>1, <1>2, PutNoTask DEF Insert
<1>3. CASE ~Taken(task[r].slug)
  <2> DEFINE q == [task[r] EXCEPT !.pc = "link",
                                  !.organization = Len(organizations) + 1]
  <2>1. q \in Task /\ q.pc = "link" /\ q.user = task[r].user
        /\ q.organization = Len(organizations) + 1 /\ q.document = task[r].document
    BY <1>1, Len(organizations) + 1 \in Nat DEF Task, TaskStages
  <2>2. task' = [task EXCEPT ![r] = q]  BY <1>3 DEF Insert
  <2>3. organizations' = Append(organizations, [slug |-> task[r].slug,
                                                owner |-> task[r].user])
    BY <1>3 DEF Insert
  <2> HIDE DEF q
  <2> QED  BY <1>1, <2>1, <2>2, <2>3, PutTask
<1> QED  BY <1>2, <1>3

LEMMA IngestEffect ==
  ASSUME KnowledgeTypeOK, NEW r \in Requests, NEW u \in Organizers,
         NEW size \in 0 .. MaxChunks, Ingest(r, u, size)
  PROVE  /\ task' \in [Requests -> Task]
         /\ \E q \in Task :
              /\ q.pc = "createDocument" /\ q.document = 0
              /\ \A s \in Requests : task'[s] = IF s = r THEN q ELSE task[s]
<1> DEFINE q == [NoTask EXCEPT !.pc = "createDocument", !.size = size,
                               !.organization = belongs[u]]
<1>1. task \in [Requests -> Task] /\ belongs[u] \in Nat /\ size \in Nat
  BY DEF KnowledgeTypeOK, OrganizationTypeOK
<1>2. q \in Task /\ q.pc = "createDocument" /\ q.document = 0
  BY <1>1, NoTaskType DEF Task, TaskStages
<1>3. task' = [task EXCEPT ![r] = q]  BY DEF Ingest
<1> HIDE DEF q
<1> QED  BY <1>1, <1>2, <1>3, PutTask

LEMMA CreateDocumentEffect ==
  ASSUME KnowledgeTypeOK, NEW r \in Requests,
         NEW status \in DocumentStatuses, CreateDocument(r, status)
  PROVE  /\ task' \in [Requests -> Task]
         /\ \/ /\ task[r].size = 0
               /\ \A s \in Requests : task'[s] = IF s = r THEN NoTask ELSE task[s]
            \/ /\ task[r].size > 0
               /\ \E q \in Task :
                    /\ q.pc = "insertChunks" /\ q.size = task[r].size
                    /\ q.document = Len(documents) + 1
                    /\ \A s \in Requests : task'[s] = IF s = r THEN q ELSE task[s]
<1>1. /\ task \in [Requests -> Task] /\ task[r] \in Task /\ task[r].size \in Nat
      /\ Len(documents) \in Nat
  BY DEF KnowledgeTypeOK, OrganizationTypeOK, Task
<1>2. CASE task[r].size = 0
  BY <1>1, <1>2, PutNoTask DEF CreateDocument
<1>3. CASE task[r].size # 0
  <2> DEFINE q == [task[r] EXCEPT !.pc = "insertChunks",
                                  !.document = Len(documents) + 1]
  <2>1. q \in Task /\ q.pc = "insertChunks" /\ q.size = task[r].size
        /\ q.document = Len(documents) + 1
    BY <1>1, Len(documents) + 1 \in Nat DEF Task, TaskStages
  <2>2. task' = [task EXCEPT ![r] = q]  BY <1>3 DEF CreateDocument
  <2> HIDE DEF q
  <2> QED  BY <1>1, <1>3, <2>1, <2>2, PutTask
<1> QED  BY <1>2, <1>3

LEMMA InsertChunkEffect ==
  ASSUME KnowledgeTypeOK, NEW r \in Requests, InsertChunk(r), task[r].size > 0
  PROVE  /\ task' \in [Requests -> Task] /\ task[r].size \in Nat
         /\ \/ /\ task[r].size = 1
               /\ \A s \in Requests : task'[s] = IF s = r THEN NoTask ELSE task[s]
            \/ \E q \in Task :
                 /\ q.pc = "insertChunks" /\ q.size = task[r].size - 1 /\ q.size > 0
                 /\ q.document = task[r].document
                 /\ \A s \in Requests : task'[s] = IF s = r THEN q ELSE task[s]
<1>1. /\ task \in [Requests -> Task] /\ task[r] \in Task /\ task[r].size \in Nat
      /\ task[r].pc = "insertChunks"
  BY DEF KnowledgeTypeOK, OrganizationTypeOK, Task, InsertChunk
<1>2. CASE task[r].size = 1
  BY <1>1, <1>2, PutNoTask DEF InsertChunk
<1>3. CASE task[r].size # 1
  <2> DEFINE left == task[r].size - 1
             q == [task[r] EXCEPT !.size = left]
  <2>1. left \in Nat /\ left > 0  BY <1>1, <1>3
  <2>2. q \in Task  BY <1>1, <2>1 DEF Task
  <2>3. q.pc = "insertChunks" /\ q.size = left /\ q.document = task[r].document
    BY <1>1 DEF Task
  <2>4. task' = [task EXCEPT ![r] = q]
    BY <1>1, <2>1 DEF InsertChunk
  <2>5. /\ task' \in [Requests -> Task]
        /\ \A s \in Requests : task'[s] = IF s = r THEN q ELSE task[s]
    <3> HIDE DEF q
    <3> QED  BY <1>1, <2>2, <2>4, PutTask
  <2> HIDE DEF q
  <2> QED  BY <1>1, <2>1, <2>2, <2>3, <2>5
<1> QED  BY <1>2, <1>3

LEMMA RemoveEffect ==
  ASSUME task \in [Requests -> Task], NEW r \in Requests, NEW u \in Organizers,
         NEW d \in Nat, Remove(r, u, d)
  PROVE  \E q \in Task :
           /\ q.pc = "markDeleted" /\ q.document = d
           /\ task' \in [Requests -> Task]
           /\ \A s \in Requests : task'[s] = IF s = r THEN q ELSE task[s]
<1> DEFINE q == [NoTask EXCEPT !.pc = "markDeleted", !.document = d]
<1>1. q \in Task /\ q.pc = "markDeleted" /\ q.document = d
  BY NoTaskType DEF Task, TaskStages
<1>2. task' = [task EXCEPT ![r] = q]  BY DEF Remove
<1> HIDE DEF q
<1> QED  BY <1>1, <1>2, PutTask

LEMMA MarkDeletedEffect ==
  ASSUME task \in [Requests -> Task], NEW r \in Requests, MarkDeleted(r)
  PROVE  \E q \in Task :
           /\ q.pc = "deleteChunks" /\ q.document = task[r].document
           /\ task' \in [Requests -> Task]
           /\ \A s \in Requests : task'[s] = IF s = r THEN q ELSE task[s]
<1> DEFINE q == [task[r] EXCEPT !.pc = "deleteChunks"]
<1>1. q \in Task /\ q.pc = "deleteChunks" /\ q.document = task[r].document
  BY DEF Task, TaskStages
<1>2. task' = [task EXCEPT ![r] = q]  BY DEF MarkDeleted
<1> HIDE DEF q
<1> QED  BY <1>1, <1>2, PutTask

-----------------------------------------------------------------------------
(* The inductive invariant                                                 *)

\* Whoever has one creation under way at a time: it finds no organization of
\* theirs until it inserts one, and then the one that it links.
CreationInv ==
  /\ \A r \in Requests :
       task[r].pc = "link" => task[r].organization \in 1 .. Len(organizations)
  /\ \A u \in Organizers \ torn :
       /\ \A q1, q2 \in Creating(u) : q1 = q2
       /\ \A r \in Creating(u) :
            /\ belongs[u] = 0
            /\ Own(u) = IF task[r].pc = "link" THEN {task[r].organization} ELSE {}
       /\ Creating(u) = {} => Own(u) = {belongs[u]} \ {0}

\* The requests that work on a document find it; one at most inserts its chunks.
WorkInv ==
  /\ \A r \in Requests :
       /\ task[r].pc \in {"insertChunks", "markDeleted", "deleteChunks"} =>
            task[r].document \in 1 .. Len(documents)
       /\ task[r].pc = "insertChunks" => task[r].size > 0
       /\ task[r].pc = "deleteChunks" => documents[task[r].document].status = "deleted"
       /\ \A s \in Requests :
            /\ task[r].pc = "insertChunks" /\ task[s].pc = "insertChunks"
            /\ task[r].document = task[s].document
            => r = s

\* Of a document that is not spoiled, the chunks that are missing are the ones
\* its ingest still has to insert, and the ones that should be gone are those
\* that a removal still has to delete.
Accounted(d) ==
  /\ documents[d].status = "ready" =>
       /\ \A r \in At("insertChunks", d) :
            chunks[d] + task[r].size = documents[d].size
       /\ At("insertChunks", d) = {} => chunks[d] = documents[d].size
  /\ documents[d].status = "deleted" =>
       /\ At("insertChunks", d) = {}
       /\ At("deleteChunks", d) = {} => chunks[d] = 0
  /\ At("markDeleted", d) # {} => At("insertChunks", d) = {}

ChunksInv == \A d \in (1 .. Len(documents)) \ spoiled : Accounted(d)

KnowledgeInv == KnowledgeTypeOK /\ CreationInv /\ WorkInv /\ ChunksInv

LEMMA InitInv == KnowledgeInit => KnowledgeInv
<1> SUFFICES ASSUME KnowledgeInit PROVE KnowledgeInv
  OBVIOUS
<1>1. \A r \in Requests : task[r] = NoTask
  BY DEF KnowledgeInit, OrganizationInit
<1>2. KnowledgeTypeOK
  BY NoTaskType DEF KnowledgeInit, OrganizationInit, KnowledgeTypeOK,
     OrganizationTypeOK
<1>3. CreationInv
  BY <1>1, NoTaskType DEF KnowledgeInit, OrganizationInit, CreationInv, Creating, Own
<1>4. WorkInv
  BY <1>1, NoTaskType DEF WorkInv
<1>5. ChunksInv
  BY DEF KnowledgeInit, ChunksInv
<1> QED  BY <1>2, <1>3, <1>4, <1>5 DEF KnowledgeInv


-----------------------------------------------------------------------------
(* Steps that do not concern one half of the module                        *)

LEMMA CreationKept ==
  ASSUME CreationInv, UNCHANGED creationVars,
         \A s \in Requests :
           (task[s].pc \in {"probe", "insert", "link"}
              \/ task'[s].pc \in {"probe", "insert", "link"}) => task'[s] = task[s]
  PROVE  CreationInv'
<1>1. \A u \in Organizers :
        /\ Creating(u)' = Creating(u)
        /\ Own(u)' = Own(u)
        /\ \A r \in Creating(u) : task'[r] = task[r]
  BY DEF Creating, Own, creationVars
<1>2. \A r \in Requests :
        task'[r].pc = "link" => task'[r].organization \in 1 .. Len(organizations')
  BY DEF CreationInv, creationVars
<1> QED  BY <1>1, <1>2 DEF CreationInv, creationVars

LEMMA AccountedKept ==
  ASSUME NEW d, Accounted(d),
         documents'[d] = documents[d], chunks'[d] = chunks[d],
         At("insertChunks", d)' = At("insertChunks", d),
         \A s \in At("insertChunks", d) : task'[s] = task[s],
         At("markDeleted", d)' # {} =>
           At("markDeleted", d) # {} \/ At("insertChunks", d) = {},
         At("deleteChunks", d)' = At("deleteChunks", d)
  PROVE  Accounted(d)'
BY DEF Accounted

LEMMA WorkKept ==
  ASSUME WorkInv, ChunksInv, UNCHANGED <<documents, chunks, spoiled>>,
         \A s \in Requests :
           (task[s].pc \in {"insertChunks", "markDeleted", "deleteChunks"}
              \/ task'[s].pc \in {"insertChunks", "markDeleted", "deleteChunks"})
           => task'[s] = task[s]
  PROVE  WorkInv' /\ ChunksInv'
<1>1. \A d : \A pc \in {"insertChunks", "markDeleted", "deleteChunks"} :
        At(pc, d)' = At(pc, d) /\ \A r \in At(pc, d) : task'[r] = task[r]
  BY DEF At
<1>2. WorkInv'  BY DEF WorkInv
<1>3. ChunksInv'  BY <1>1, AccountedKept DEF ChunksInv
<1> QED  BY <1>2, <1>3

-----------------------------------------------------------------------------
(* The steps of a creation                                                 *)

LEMMA CreateRequestStep ==
  ASSUME KnowledgeInv, NEW r \in Requests, NEW u \in Organizers, NEW name \in Names,
         Create(r, u, name), UNCHANGED <<documents, chunks, spoiled>>
  PROVE  KnowledgeInv'
<1> USE DEF KnowledgeInv
<1>1. task \in [Requests -> Task]  BY DEF KnowledgeTypeOK, OrganizationTypeOK
<1>2. PICK q \in Task :
           /\ q.pc = "probe" /\ q.user = u /\ q.document = 0
           /\ task' \in [Requests -> Task]
           /\ \A s \in Requests : task'[s] = IF s = r THEN q ELSE task[s]
  BY <1>1, CreateEffect
<1>3. /\ task[r].pc = "idle" /\ belongs[u] = 0
      /\ torn' = IF Creating(u) = {} THEN torn ELSE torn \cup {u}
      /\ UNCHANGED <<organizations, belongs>>
  BY DEF Create
<1>4. KnowledgeTypeOK'
  BY <1>2, <1>3 DEF KnowledgeTypeOK, OrganizationTypeOK
<1>5. CreationInv'
  <2>1. \A v \in Organizers : Own(v)' = Own(v)  BY <1>3 DEF Own
  <2>2. \A v \in Organizers : Creating(v)' = Creating(v) \cup (IF v = u THEN {r} ELSE {})
    BY <1>2, <1>3 DEF Creating
  <2>3. \A s \in Requests : task'[s].pc = "link" =>
          task'[s].organization \in 1 .. Len(organizations')
    BY <1>2, <1>3 DEF CreationInv
  <2>4. ASSUME NEW v \in Organizers \ torn'
        PROVE  /\ \A q1, q2 \in Creating(v)' : q1 = q2
               /\ \A s \in Creating(v)' :
                    /\ belongs'[v] = 0
                    /\ Own(v)' = IF task'[s].pc = "link" THEN {task'[s].organization}
                                 ELSE {}
               /\ Creating(v)' = {} => Own(v)' = {belongs'[v]} \ {0}
    <3>1. v \in Organizers \ torn  BY <1>3
    <3>2. CASE v = u
      <4>1. Creating(u) = {} /\ Creating(v)' = {r}  BY <1>3, <2>2, <2>4, <3>2
      <4>2. Own(v) = {}  BY <4>1, <3>1, <3>2, <1>3 DEF CreationInv
      <4> QED  BY <4>1, <4>2, <2>1, <1>2, <1>3, <3>2
    <3>3. CASE v # u
      <4>1. \A s \in Creating(v) : s # r  BY <1>3 DEF Creating
      <4> QED  BY <4>1, <2>1, <2>2, <1>2, <1>3, <3>1, <3>3 DEF CreationInv, Creating
    <3> QED  BY <3>2, <3>3
  <2> QED  BY <2>3, <2>4 DEF CreationInv
<1>6. WorkInv' /\ ChunksInv'
  BY <1>2, <1>3, WorkKept
<1> QED  BY <1>4, <1>5, <1>6

LEMMA ProbeStep ==
  ASSUME KnowledgeInv, NEW r \in Requests, Probe(r),
         UNCHANGED <<documents, chunks, spoiled>>
  PROVE  KnowledgeInv'
<1> USE DEF KnowledgeInv
<1>1. task \in [Requests -> Task]  BY DEF KnowledgeTypeOK, OrganizationTypeOK
<1>2. PICK q \in Task :
           /\ q.pc \in {"probe", "insert"} /\ q.user = task[r].user
           /\ q.document = task[r].document
           /\ task' \in [Requests -> Task]
           /\ \A s \in Requests : task'[s] = IF s = r THEN q ELSE task[s]
  BY <1>1, ProbeEffect
<1>3. task[r].pc = "probe" /\ UNCHANGED <<organizations, belongs, torn>>
  BY DEF Probe
<1>4. KnowledgeTypeOK'
  BY <1>2, <1>3 DEF KnowledgeTypeOK, OrganizationTypeOK
<1>5. CreationInv'
  <2>1. \A v \in Organizers : Own(v)' = Own(v) /\ Creating(v)' = Creating(v)
    BY <1>2, <1>3 DEF Own, Creating
  <2>2. \A s \in Requests : (task'[s].pc = "link" \/ task[s].pc = "link") =>
          task'[s] = task[s]
    BY <1>2, <1>3
  <2> QED  BY <2>1, <2>2, <1>3 DEF CreationInv, Creating
<1>6. WorkInv' /\ ChunksInv'
  BY <1>2, <1>3, WorkKept
<1> QED  BY <1>4, <1>5, <1>6

LEMMA InsertStep ==
  ASSUME KnowledgeInv, NEW r \in Requests, Insert(r),
         UNCHANGED <<documents, chunks, spoiled>>
  PROVE  KnowledgeInv'
<1> USE DEF KnowledgeInv
<1> DEFINE n == Len(organizations) + 1
           new == [slug |-> task[r].slug, owner |-> task[r].user]
<1>1. /\ task \in [Requests -> Task] /\ task[r] \in Task
      /\ task[r].user \in Organizers /\ task[r].slug \in Slugs
      /\ task[r].pc = "insert" /\ UNCHANGED <<belongs, torn>>
      /\ Len(organizations) \in Nat /\ DOMAIN organizations = 1 .. Len(organizations)
  BY DEF KnowledgeTypeOK, OrganizationTypeOK, Insert, Task
<1> DEFINE u == task[r].user
<1>2. u \notin torn => Creating(u) = {r} /\ Own(u) = {} /\ belongs[u] = 0
  BY <1>1 DEF CreationInv, Creating
<1>3. task' \in [Requests -> Task]  BY InsertEffect
<1>4. CASE /\ \A s \in Requests : task'[s] = IF s = r THEN NoTask ELSE task[s]
           /\ organizations' = organizations
  <2>1. KnowledgeTypeOK'
    BY <1>1, <1>3, <1>4 DEF KnowledgeTypeOK, OrganizationTypeOK
  <2>2. \A v \in Organizers : /\ Own(v)' = Own(v)
                              /\ Creating(v)' = Creating(v) \ {r}
    BY <1>4, NoTaskType DEF Own, Creating
  <2>3. CreationInv'
    <3>1. \A s \in Requests : task'[s].pc = "link" => s # r
      BY <1>4, NoTaskType
    <3>2. \A v \in Organizers \ torn : v # u => Creating(v)' = Creating(v)
      BY <2>2 DEF Creating
    <3>3. \A v \in Organizers \ torn : v = u => Creating(v)' = {}
      BY <1>1, <1>2, <2>2
    <3> QED  BY <3>1, <3>2, <3>3, <1>1, <1>2, <1>4, <2>2 DEF CreationInv, Creating
  <2>4. WorkInv' /\ ChunksInv'
    BY <1>1, <1>4, NoTaskType, WorkKept
  <2> QED  BY <2>1, <2>3, <2>4
<1>5. CASE /\ organizations' = Append(organizations, new)
           /\ \E q \in Task :
                    /\ q.pc = "link" /\ q.user = task[r].user
                    /\ q.organization = n
                    /\ q.document = task[r].document
                    /\ \A s \in Requests : task'[s] = IF s = r THEN q ELSE task[s]
  <2>1. PICK q \in Task :
                    /\ q.pc = "link" /\ q.user = task[r].user
                    /\ q.organization = n
                    /\ q.document = task[r].document
                    /\ \A s \in Requests : task'[s] = IF s = r THEN q ELSE task[s]
    BY <1>5
  <2>2. new \in Organization /\ new.owner = u  BY <1>1 DEF Organization
  <2>3. /\ organizations' \in Seq(Organization)
        /\ Len(organizations') = n
        /\ DOMAIN organizations' = 1 .. n
        /\ organizations'[n] = new
        /\ \A o \in DOMAIN organizations : organizations'[o] = organizations[o]
    <3> HIDE DEF new
    <3> QED  BY <1>1, <1>5, <2>2, Appended DEF KnowledgeTypeOK, OrganizationTypeOK
  <2> HIDE DEF new
  <2>4. KnowledgeTypeOK'
    BY <1>1, <1>3, <2>3 DEF KnowledgeTypeOK, OrganizationTypeOK
  <2>5. \A v \in Organizers : /\ Own(v)' = Own(v) \cup (IF v = u THEN {n} ELSE {})
                              /\ Creating(v)' = Creating(v)
    BY <1>1, <2>1, <2>2, <2>3 DEF Own, Creating
  <2>6. CreationInv'
    <3>1. \A s \in Requests : task'[s].pc = "link" =>
            task'[s].organization \in 1 .. Len(organizations')
      BY <1>1, <2>1, <2>3 DEF CreationInv
    <3>2. ASSUME NEW v \in Organizers \ torn'
        PROVE  /\ \A q1, q2 \in Creating(v)' : q1 = q2
               /\ \A s \in Creating(v)' :
                    /\ belongs'[v] = 0
                    /\ Own(v)' = IF task'[s].pc = "link" THEN {task'[s].organization}
                                 ELSE {}
               /\ Creating(v)' = {} => Own(v)' = {belongs'[v]} \ {0}
      <4>1. CASE v = u
        <5>1. Creating(v) = {r} /\ Own(v) = {} /\ belongs'[v] = 0
          BY <4>1, <1>1, <1>2
        <5>2. Creating(v)' = {r} /\ Own(v)' = {n}  BY <5>1, <4>1, <2>5
        <5>3. task'[r].pc = "link" /\ task'[r].organization = n  BY <2>1
        <5> QED  BY <5>1, <5>2, <5>3
      <4>2. CASE v # u
        <5>1. \A s \in Creating(v) : s # r  BY <4>2 DEF Creating
        <5> QED  BY <5>1, <4>2, <1>1, <2>1, <2>5 DEF CreationInv, Creating
      <4> QED  BY <4>1, <4>2
    <3> QED  BY <3>1, <3>2 DEF CreationInv
  <2>7. WorkInv' /\ ChunksInv'
    BY <1>1, <2>1, WorkKept
  <2> QED  BY <2>4, <2>6, <2>7
<1> QED  BY <1>4, <1>5, InsertEffect

LEMMA LinkStep ==
  ASSUME KnowledgeInv, NEW r \in Requests, Link(r),
         UNCHANGED <<documents, chunks, spoiled>>
  PROVE  KnowledgeInv'
<1> USE DEF KnowledgeInv
<1> DEFINE u == task[r].user
           n == task[r].organization
<1>1. /\ task \in [Requests -> Task] /\ u \in Organizers
      /\ task[r].pc = "link" /\ UNCHANGED <<organizations, torn>>
      /\ belongs' = [belongs EXCEPT ![u] = n]
      /\ belongs \in [Organizers -> 0 .. Len(organizations)]
      /\ Len(organizations) \in Nat
      /\ n \in 1 .. Len(organizations)
  BY DEF KnowledgeTypeOK, OrganizationTypeOK, Link, Task, CreationInv
<1>2. /\ task' \in [Requests -> Task]
      /\ \A s \in Requests : task'[s] = IF s = r THEN NoTask ELSE task[s]
  BY <1>1, PutNoTask DEF Link
<1>3. u \notin torn => Creating(u) = {r} /\ Own(u) = {n}
  BY <1>1 DEF CreationInv, Creating
<1>4. KnowledgeTypeOK'
  BY <1>1, <1>2 DEF KnowledgeTypeOK, OrganizationTypeOK
<1>5. \A v \in Organizers : /\ Own(v)' = Own(v)
                            /\ Creating(v)' = Creating(v) \ {r}
                            /\ belongs'[v] = IF v = u THEN n ELSE belongs[v]
  BY <1>1, <1>2, NoTaskType DEF Own, Creating
<1>6. CreationInv'
  <2>1. \A s \in Requests : task'[s].pc = "link" => s # r
    BY <1>2, NoTaskType
  <2>2. \A s \in Requests : task'[s].pc = "link" =>
          task'[s].organization \in 1 .. Len(organizations')
    BY <2>1, <1>1, <1>2 DEF CreationInv
  <2>3. ASSUME NEW v \in Organizers \ torn'
        PROVE  /\ \A q1, q2 \in Creating(v)' : q1 = q2
               /\ \A s \in Creating(v)' :
                    /\ belongs'[v] = 0
                    /\ Own(v)' = IF task'[s].pc = "link" THEN {task'[s].organization}
                                 ELSE {}
               /\ Creating(v)' = {} => Own(v)' = {belongs'[v]} \ {0}
    <3>1. CASE v = u  BY <3>1, <1>1, <1>3, <1>5
    <3>2. CASE v # u
      <4>1. \A s \in Creating(v) : s # r  BY <3>2 DEF Creating
      <4> QED  BY <4>1, <3>2, <1>1, <1>2, <1>5 DEF CreationInv, Creating
    <3> QED  BY <3>1, <3>2
  <2> QED  BY <2>2, <2>3 DEF CreationInv
<1>7. WorkInv' /\ ChunksInv'
  BY <1>1, <1>2, NoTaskType, WorkKept
<1> QED  BY <1>4, <1>6, <1>7

-----------------------------------------------------------------------------
(* The steps of an ingest and of a removal                                 *)

LEMMA IngestStep ==
  ASSUME KnowledgeInv, NEW r \in Requests, NEW u \in Organizers,
         NEW size \in 0 .. MaxChunks, Ingest(r, u, size)
  PROVE  KnowledgeInv'
<1> USE DEF KnowledgeInv
<1>1. PICK q \in Task :
        /\ q.pc = "createDocument" /\ q.document = 0
        /\ task' \in [Requests -> Task]
        /\ \A s \in Requests : task'[s] = IF s = r THEN q ELSE task[s]
  BY IngestEffect
<1>2. /\ task[r].pc = "idle"
      /\ UNCHANGED <<creationVars, documents, chunks, spoiled>>
  BY DEF Ingest
<1>3. KnowledgeTypeOK'
  BY <1>1, <1>2 DEF KnowledgeTypeOK, OrganizationTypeOK, creationVars
<1>4. CreationInv'  BY <1>1, <1>2, CreationKept
<1>5. WorkInv' /\ ChunksInv'  BY <1>1, <1>2, WorkKept
<1> QED  BY <1>3, <1>4, <1>5

LEMMA CreateDocumentStep ==
  ASSUME KnowledgeInv, NEW r \in Requests,
         NEW status \in DocumentStatuses, CreateDocument(r, status)
  PROVE  KnowledgeInv'
<1> USE DEF KnowledgeInv
<1>0. PICK n : n = Len(documents) + 1  OBVIOUS
<1> DEFINE new == [organization |-> task[r].organization, size |-> task[r].size,
                   status |-> status]
<1>1. /\ task \in [Requests -> Task] /\ task[r] \in Task
      /\ task[r].organization \in Nat /\ task[r].size \in Nat
      /\ task[r].pc = "createDocument" /\ UNCHANGED creationVars
      /\ spoiled' = IF status = "ready" THEN spoiled
                    ELSE spoiled \cup {Len(documents) + 1}
      /\ documents' = Append(documents, new) /\ chunks' = Append(chunks, 0)
      /\ Len(documents) \in Nat /\ DOMAIN documents = 1 .. Len(documents)
      /\ documents \in Seq(Document) /\ chunks \in Seq(Nat)
      /\ Len(chunks) = Len(documents) /\ spoiled \subseteq 1 .. Len(documents)
  BY DEF KnowledgeTypeOK, OrganizationTypeOK, CreateDocument, Task
<1>2. new \in Document /\ new.status = status /\ new.size = task[r].size
  BY <1>1 DEF Document
<1> HIDE DEF new
<1>3. /\ documents' \in Seq(Document) /\ Len(documents') = n
      /\ DOMAIN documents' = 1 .. n /\ documents'[n] = new
      /\ \A d \in 1 .. Len(documents) : documents'[d] = documents[d]
  BY <1>0, <1>1, <1>2, Appended
<1>4. /\ chunks' \in Seq(Nat) /\ Len(chunks') = n /\ chunks'[n] = 0
      /\ \A d \in 1 .. Len(documents) : chunks'[d] = chunks[d]
  <2>1. 0 \in Nat /\ DOMAIN chunks = 1 .. Len(documents)  BY <1>1
  <2> QED  BY <1>0, <1>1, <2>1, Appended
<1>5. n \in Nat /\ n \notin 1 .. Len(documents) /\ n # 0
      /\ 1 .. n = (1 .. Len(documents)) \cup {n}
  BY <1>0, <1>1
<1>5a. /\ spoiled \subseteq spoiled' /\ spoiled' \subseteq 1 .. n
       /\ n \notin spoiled' => status = "ready"
  BY <1>0, <1>1, <1>5
<1>6. task' \in [Requests -> Task]  BY CreateDocumentEffect
<1>7. KnowledgeTypeOK'
  BY <1>1, <1>3, <1>4, <1>5a, <1>6 DEF KnowledgeTypeOK, OrganizationTypeOK, creationVars
<1>8. CASE /\ task[r].size = 0
           /\ \A s \in Requests : task'[s] = IF s = r THEN NoTask ELSE task[s]
  <2>1. CreationInv'  BY <1>1, <1>8, NoTaskType, CreationKept
  <2>2. WorkInv'
    <3>1. \A s \in Requests :
            task'[s].pc \in {"insertChunks", "markDeleted", "deleteChunks"} =>
              task'[s] = task[s]
      BY <1>8, NoTaskType
    <3>2. 1 .. Len(documents) \subseteq 1 .. Len(documents')  BY <1>3, <1>5
    <3> QED  BY <1>3, <3>1, <3>2 DEF WorkInv
  <2>3. \A d \in 1 .. Len(documents) :
          \A pc \in {"insertChunks", "markDeleted", "deleteChunks"} :
            At(pc, d)' = At(pc, d) /\ \A s \in At(pc, d) : task'[s] = task[s]
    BY <1>1, <1>8, NoTaskType DEF At
  <2>4. \A pc \in {"insertChunks", "markDeleted", "deleteChunks"} : At(pc, n)' = {}
    <3>1. \A s \in Requests :
            task'[s].pc \in {"insertChunks", "markDeleted", "deleteChunks"} =>
              task'[s] = task[s]
      BY <1>8, NoTaskType
    <3>2. \A s \in Requests :
            task[s].pc \in {"insertChunks", "markDeleted", "deleteChunks"} =>
              task[s].document # n
      BY <1>5 DEF WorkInv
    <3> QED
      BY ONLY <3>1, <3>2 DEF At
  <2>5. status = "ready" => Accounted(n)'
    BY <1>2, <1>3, <1>4, <1>8, <2>4 DEF Accounted
  <2>6. \A d \in (1 .. Len(documents)) \ spoiled : Accounted(d)'
    BY <1>3, <1>4, <2>3, AccountedKept DEF ChunksInv
  <2>7. ChunksInv'  BY <1>3, <1>5, <1>5a, <2>5, <2>6 DEF ChunksInv
  <2> QED  BY <1>7, <2>1, <2>2, <2>7
<1>9. CASE /\ task[r].size > 0
           /\ \E q \in Task :
                /\ q.pc = "insertChunks" /\ q.size = task[r].size
                /\ q.document = n
                /\ \A s \in Requests : task'[s] = IF s = r THEN q ELSE task[s]
  <2>1. PICK q \in Task :
          /\ q.pc = "insertChunks" /\ q.size = task[r].size
          /\ q.document = n
          /\ \A s \in Requests : task'[s] = IF s = r THEN q ELSE task[s]
    BY <1>9
  <2>2. CreationInv'  BY <1>1, <2>1, CreationKept
  <2>3. WorkInv'
    <3>1. \A s \in Requests \ {r} : task'[s] = task[s]  BY <2>1
    <3>2. 1 .. Len(documents) \subseteq 1 .. Len(documents')
          /\ n \in 1 .. Len(documents')
      BY <1>3, <1>5
    <3>3. \A s \in Requests \ {r} :
            task[s].pc \in {"insertChunks", "markDeleted", "deleteChunks"} =>
              task[s].document \in 1 .. Len(documents) /\ task[s].document # n
      BY <1>5 DEF WorkInv
    <3>4. /\ task'[r].pc = "insertChunks" /\ task'[r].size > 0
          /\ task'[r].document = n
      BY <1>9, <2>1
    <3> QED  BY <1>3, <3>1, <3>2, <3>3, <3>4 DEF WorkInv
  <2>4. \A d \in 1 .. Len(documents) :
          \A pc \in {"insertChunks", "markDeleted", "deleteChunks"} :
            At(pc, d)' = At(pc, d) /\ \A s \in At(pc, d) : task'[s] = task[s]
    BY <1>1, <1>5, <2>1 DEF At
  <2>5. /\ At("insertChunks", n)' = {r}
        /\ At("markDeleted", n)' = {} /\ At("deleteChunks", n)' = {}
    <3>1. /\ \A s \in Requests \ {r} : task'[s] = task[s]
          /\ task'[r].pc = "insertChunks" /\ task'[r].document = n
      BY <2>1
    <3>2. \A s \in Requests :
            task[s].pc \in {"insertChunks", "markDeleted", "deleteChunks"} =>
              task[s].document # n
      BY <1>5 DEF WorkInv
    <3>3. At("insertChunks", n)' = {r}
      BY ONLY <3>1, <3>2, r \in Requests DEF At
    <3>4. At("markDeleted", n)' = {} /\ At("deleteChunks", n)' = {}
      BY ONLY <3>1, <3>2, r \in Requests DEF At
    <3> QED
      BY <3>3, <3>4
  <2>6. ASSUME status = "ready" PROVE Accounted(n)'
    <3>1. /\ documents'[n].status = "ready" /\ documents'[n].size = task[r].size
          /\ chunks'[n] = 0 /\ task'[r].size = task[r].size
      BY <1>2, <1>3, <1>4, <2>1, <2>6
    <3>2. chunks'[n] + task'[r].size = documents'[n].size  BY <3>1, <1>1
    <3> QED  BY <3>1, <3>2, <2>5 DEF Accounted
  <2>7. \A d \in (1 .. Len(documents)) \ spoiled : Accounted(d)'
    BY <1>3, <1>4, <2>4, AccountedKept DEF ChunksInv
  <2>8. ChunksInv'  BY <1>3, <1>5, <1>5a, <2>6, <2>7 DEF ChunksInv
  <2> QED  BY <1>7, <2>2, <2>3, <2>8
<1> QED  BY <1>0, <1>8, <1>9, CreateDocumentEffect

LEMMA InsertChunkStep ==
  ASSUME KnowledgeInv, NEW r \in Requests, InsertChunk(r)
  PROVE  KnowledgeInv'
<1> USE DEF KnowledgeInv
<1> DEFINE d == task[r].document
<1>1. /\ task \in [Requests -> Task] /\ task[r] \in Task
      /\ task[r].pc = "insertChunks" /\ UNCHANGED <<creationVars, documents, spoiled>>
      /\ task[r].size \in Nat /\ task[r].size > 0 /\ d \in 1 .. Len(documents)
      /\ chunks' = [chunks EXCEPT ![d] = @ + 1]
      /\ chunks \in Seq(Nat) /\ Len(chunks) = Len(documents)
      /\ DOMAIN chunks = 1 .. Len(documents) /\ Len(documents) \in Nat
      /\ DOMAIN documents = 1 .. Len(documents) /\ documents \in Seq(Document)
  BY DEF KnowledgeTypeOK, OrganizationTypeOK, InsertChunk, Task, WorkInv
<1>2. /\ chunks' \in Seq(Nat) /\ Len(chunks') = Len(documents)
      /\ \A e \in 1 .. Len(documents) :
           chunks'[e] = IF e = d THEN chunks[e] + 1 ELSE chunks[e]
      /\ \A e \in 1 .. Len(documents) : chunks[e] \in Nat
  BY <1>1, SMTT(20)
<1>3. task' \in [Requests -> Task]  BY <1>1, InsertChunkEffect
<1>4. KnowledgeTypeOK'
  BY <1>1, <1>2, <1>3 DEF KnowledgeTypeOK, OrganizationTypeOK, creationVars
<1>5. \A s \in Requests : s # r /\ task[s].pc = "insertChunks" => task[s].document # d
  BY <1>1 DEF WorkInv
<1>6. documents[d].size \in Nat /\ documents[d].status \in {"ready", "deleted"}
  <2>1. documents[d] \in Document  BY <1>1
  <2> QED  BY <2>1 DEF Document, DocumentStatuses
<1>7. CASE /\ task[r].size = 1
           /\ \A s \in Requests : task'[s] = IF s = r THEN NoTask ELSE task[s]
  <2>1. CreationInv'  BY <1>1, <1>7, NoTaskType, CreationKept
  <2>2. WorkInv'
    BY <1>1, <1>7, NoTaskType, ZenonT(40) DEF WorkInv
  <2>3. \A e \in 1 .. Len(documents) :
          /\ At("insertChunks", e)' = IF e = d THEN {} ELSE At("insertChunks", e)
          /\ \A s \in At("insertChunks", e) : s = r \/ task'[s] = task[s]
          /\ At("markDeleted", e)' = At("markDeleted", e)
          /\ At("deleteChunks", e)' = At("deleteChunks", e)
    BY <1>1, <1>5, <1>7, NoTaskType DEF At
  <2>4. \A e \in 1 .. Len(documents) : r \in At("insertChunks", e) <=> e = d
    BY <1>1 DEF At
  <2>5. ASSUME NEW e \in (1 .. Len(documents)) \ spoiled PROVE Accounted(e)'
    <3>1. CASE e # d  BY <3>1, <1>1, <1>2, <2>3, <2>4, AccountedKept DEF ChunksInv
    <3>2. CASE e = d
      <4>1. documents[e].status = "ready" /\ chunks[e] + 1 = documents[e].size
            /\ At("markDeleted", e) = {}
        BY <3>2, <1>6, <1>7, <2>4 DEF ChunksInv, Accounted
      <4> QED  BY <3>2, <4>1, <1>1, <1>2, <2>3 DEF Accounted
    <3> QED  BY <3>1, <3>2
  <2>6. ChunksInv'  BY <1>1, <2>5 DEF ChunksInv
  <2> QED  BY <1>4, <2>1, <2>2, <2>6
<1>8. CASE \E q \in Task :
                 /\ q.pc = "insertChunks" /\ q.size = task[r].size - 1 /\ q.size > 0
                 /\ q.document = task[r].document
                 /\ \A s \in Requests : task'[s] = IF s = r THEN q ELSE task[s]
  <2>1. PICK q \in Task :
                 /\ q.pc = "insertChunks" /\ q.size = task[r].size - 1 /\ q.size > 0
                 /\ q.document = task[r].document
                 /\ \A s \in Requests : task'[s] = IF s = r THEN q ELSE task[s]
    BY <1>8
  <2>2. CreationInv'  BY <1>1, <2>1, CreationKept
  <2>3. WorkInv'
    <3>1. \A s \in Requests :
            /\ task'[s].pc = task[s].pc /\ task'[s].document = task[s].document
            /\ task'[s].pc = "insertChunks" => task'[s].size > 0
      BY <1>1, <2>1 DEF WorkInv
    <3>2. ASSUME NEW s \in Requests
          PROVE  /\ task'[s].pc \in {"insertChunks", "markDeleted", "deleteChunks"} =>
                      task'[s].document \in 1 .. Len(documents')
                 /\ task'[s].pc = "deleteChunks" =>
                      documents'[task'[s].document].status = "deleted"
      BY <1>1, <3>1 DEF WorkInv
    <3>3. \A s, t \in Requests :
            /\ task'[s].pc = "insertChunks" /\ task'[t].pc = "insertChunks"
            /\ task'[s].document = task'[t].document
            => s = t
      BY <3>1 DEF WorkInv
    <3> QED  BY <3>1, <3>2, <3>3 DEF WorkInv
  <2>4. \A e \in 1 .. Len(documents) :
          /\ At("insertChunks", e)' = At("insertChunks", e)
          /\ \A s \in At("insertChunks", e) :
               IF e = d THEN s = r ELSE task'[s] = task[s]
          /\ At("markDeleted", e)' = At("markDeleted", e)
          /\ At("deleteChunks", e)' = At("deleteChunks", e)
    BY <1>1, <1>5, <2>1 DEF At
  <2>5. \A e \in 1 .. Len(documents) : r \in At("insertChunks", e) <=> e = d
    BY <1>1 DEF At
  <2>6. ASSUME NEW e \in (1 .. Len(documents)) \ spoiled PROVE Accounted(e)'
    <3>1. CASE e # d  BY <3>1, <1>1, <1>2, <2>4, AccountedKept DEF ChunksInv
    <3>2. CASE e = d
      <4>1. /\ documents[e].status = "ready" /\ At("markDeleted", e) = {}
            /\ chunks[e] + task[r].size = documents[e].size
        BY <3>2, <1>6, <2>5 DEF ChunksInv, Accounted
      <4>2. chunks'[e] + task'[r].size = documents[e].size
        <5>1. /\ chunks'[e] = chunks[e] + 1 /\ chunks[e] \in Nat
              /\ task'[r].size = task[r].size - 1 /\ task[r].size \in Nat
          BY <3>2, <1>1, <1>2, <2>1
        <5> QED  BY ONLY <5>1, <4>1
      <4>3. At("insertChunks", e)' # {} /\ \A s \in At("insertChunks", e)' : s = r
        BY <3>2, <2>4, <2>5
      <4> QED  BY <3>2, <4>1, <4>2, <4>3, <1>1, <2>4 DEF Accounted
    <3> QED  BY <3>1, <3>2
  <2>7. ChunksInv'  BY <1>1, <2>6 DEF ChunksInv
  <2> QED  BY <1>4, <2>2, <2>3, <2>7
<1> QED  BY <1>1, <1>7, <1>8, InsertChunkEffect

LEMMA RemoveStep ==
  ASSUME KnowledgeInv, NEW r \in Requests, NEW u \in Organizers,
         NEW d \in DOMAIN documents, Remove(r, u, d)
  PROVE  KnowledgeInv'
<1> USE DEF KnowledgeInv
<1>1. /\ task \in [Requests -> Task] /\ task[r].pc = "idle" /\ d \in Nat
      /\ UNCHANGED <<creationVars, documents, chunks>>
      /\ spoiled' = IF At("insertChunks", d) = {} THEN spoiled ELSE spoiled \cup {d}
      /\ DOMAIN documents = 1 .. Len(documents)
  BY DEF KnowledgeTypeOK, OrganizationTypeOK, Remove
<1>2. PICK q \in Task :
        /\ q.pc = "markDeleted" /\ q.document = d
        /\ task' \in [Requests -> Task]
        /\ \A s \in Requests : task'[s] = IF s = r THEN q ELSE task[s]
  BY <1>1, RemoveEffect
<1>3. KnowledgeTypeOK'
  BY <1>1, <1>2 DEF KnowledgeTypeOK, OrganizationTypeOK, creationVars
<1>4. CreationInv'  BY <1>1, <1>2, CreationKept
<1>5. WorkInv'  BY <1>1, <1>2 DEF WorkInv
<1>6. \A e \in 1 .. Len(documents) :
        /\ At("insertChunks", e)' = At("insertChunks", e)
        /\ \A s \in At("insertChunks", e) : task'[s] = task[s]
        /\ At("markDeleted", e)' # {} => e = d \/ At("markDeleted", e) # {}
        /\ At("deleteChunks", e)' = At("deleteChunks", e)
  BY <1>1, <1>2 DEF At
<1>7. ChunksInv'
  <2> SUFFICES ASSUME NEW e \in (1 .. Len(documents)) \ spoiled' PROVE Accounted(e)'
    BY <1>1 DEF ChunksInv
  <2>1. Accounted(e) /\ (e = d => At("insertChunks", e) = {})
    BY <1>1 DEF ChunksInv
  <2> QED  BY <1>1, <1>6, <2>1, AccountedKept
<1> QED  BY <1>3, <1>4, <1>5, <1>7

LEMMA MarkDeletedStep ==
  ASSUME KnowledgeInv, NEW r \in Requests, MarkDeleted(r)
  PROVE  KnowledgeInv'
<1> USE DEF KnowledgeInv
<1> DEFINE d == task[r].document
           new == [documents[d] EXCEPT !.status = "deleted"]
<1>1. /\ task \in [Requests -> Task] /\ task[r].pc = "markDeleted"
      /\ UNCHANGED <<creationVars, chunks, spoiled>>
      /\ d \in 1 .. Len(documents)
      /\ documents' = [documents EXCEPT ![d] = new]
      /\ documents \in Seq(Document) /\ Len(documents) \in Nat
      /\ DOMAIN documents = 1 .. Len(documents)
      /\ documents[d] \in Document
  BY DEF KnowledgeTypeOK, OrganizationTypeOK, MarkDeleted, WorkInv
<1>2. new \in Document /\ new.status = "deleted" /\ new.size = documents[d].size
  BY <1>1 DEF Document, DocumentStatuses
<1> HIDE DEF new
<1>3. /\ documents' \in Seq(Document) /\ Len(documents') = Len(documents)
      /\ DOMAIN documents' = 1 .. Len(documents)
      /\ \A e \in 1 .. Len(documents) :
           documents'[e] = IF e = d THEN new ELSE documents[e]
  BY <1>1, <1>2
<1>4. PICK q \in Task :
        /\ q.pc = "deleteChunks" /\ q.document = d
        /\ task' \in [Requests -> Task]
        /\ \A s \in Requests : task'[s] = IF s = r THEN q ELSE task[s]
  BY <1>1, MarkDeletedEffect
<1>5. KnowledgeTypeOK'
  BY <1>1, <1>3, <1>4 DEF KnowledgeTypeOK, OrganizationTypeOK, creationVars
<1>6. CreationInv'  BY <1>1, <1>4, CreationKept
<1>7. WorkInv'  BY <1>1, <1>2, <1>3, <1>4 DEF WorkInv
<1>8. \A e \in 1 .. Len(documents) :
        /\ At("insertChunks", e)' = At("insertChunks", e)
        /\ \A s \in At("insertChunks", e) : task'[s] = task[s]
        /\ At("markDeleted", e)' \subseteq At("markDeleted", e)
        /\ At("deleteChunks", e)' = At("deleteChunks", e) \cup (IF e = d THEN {r} ELSE {})
  BY <1>1, <1>4 DEF At
<1>9. r \in At("markDeleted", d)  BY <1>1 DEF At
<1>10. ChunksInv'
  <2> SUFFICES ASSUME NEW e \in (1 .. Len(documents)) \ spoiled PROVE Accounted(e)'
    BY <1>1, <1>3 DEF ChunksInv
  <2>1. Accounted(e)  BY DEF ChunksInv
  <2>2. CASE e # d  BY <2>1, <2>2, <1>1, <1>3, <1>8, AccountedKept
  <2>3. CASE e = d
    <3>1. At("insertChunks", e) = {}  BY <2>1, <2>3, <1>9 DEF Accounted
    <3>2. At("insertChunks", e)' = {} /\ At("deleteChunks", e)' # {}
      BY <2>3, <3>1, <1>8
    <3>3. documents'[e].status = "deleted"  BY <2>3, <1>2, <1>3
    <3> QED  BY <3>2, <3>3 DEF Accounted
  <2> QED  BY <2>2, <2>3
<1> QED  BY <1>5, <1>6, <1>7, <1>10

LEMMA DeleteChunksStep ==
  ASSUME KnowledgeInv, NEW r \in Requests, DeleteChunks(r)
  PROVE  KnowledgeInv'
<1> USE DEF KnowledgeInv
<1> DEFINE d == task[r].document
<1>1. /\ task \in [Requests -> Task] /\ task[r].pc = "deleteChunks"
      /\ UNCHANGED <<creationVars, documents>>
      /\ d \in 1 .. Len(documents) /\ documents[d].status = "deleted"
      /\ chunks' = [chunks EXCEPT ![d] = 0]
      /\ chunks \in Seq(Nat) /\ Len(chunks) = Len(documents)
      /\ DOMAIN chunks = 1 .. Len(documents)
      /\ spoiled' = IF At("insertChunks", d) = {} THEN spoiled \ {d} ELSE spoiled
  BY DEF KnowledgeTypeOK, OrganizationTypeOK, DeleteChunks, WorkInv
<1>2. /\ chunks' \in Seq(Nat) /\ Len(chunks') = Len(documents)
      /\ \A e \in 1 .. Len(documents) : chunks'[e] = IF e = d THEN 0 ELSE chunks[e]
  BY <1>1
<1>3. /\ task' \in [Requests -> Task]
      /\ \A s \in Requests : task'[s] = IF s = r THEN NoTask ELSE task[s]
  BY <1>1, PutNoTask DEF DeleteChunks
<1>4. KnowledgeTypeOK'
  BY <1>1, <1>2, <1>3 DEF KnowledgeTypeOK, OrganizationTypeOK, creationVars
<1>5. CreationInv'  BY <1>1, <1>3, NoTaskType, CreationKept
<1>6. WorkInv'  BY <1>1, <1>3, NoTaskType DEF WorkInv
<1>7. \A e \in 1 .. Len(documents) :
        /\ At("insertChunks", e)' = At("insertChunks", e)
        /\ \A s \in At("insertChunks", e) : task'[s] = task[s]
        /\ At("markDeleted", e)' = At("markDeleted", e)
        /\ e # d => At("deleteChunks", e)' = At("deleteChunks", e)
  BY <1>1, <1>3, NoTaskType DEF At
<1>8. ChunksInv'
  <2> SUFFICES ASSUME NEW e \in (1 .. Len(documents)) \ spoiled' PROVE Accounted(e)'
    BY <1>1 DEF ChunksInv
  <2>1. CASE e # d
    BY <2>1, <1>1, <1>2, <1>7, AccountedKept DEF ChunksInv
  <2>2. CASE e = d
    <3>1. At("insertChunks", e) = {}
      BY <2>2, <1>1 DEF ChunksInv, Accounted
    <3>2. /\ At("insertChunks", e)' = {} /\ chunks'[e] = 0
          /\ documents'[e].status = "deleted"
      BY <2>2, <3>1, <1>1, <1>2, <1>7
    <3> QED  BY <3>2 DEF Accounted
  <2> QED  BY <2>1, <2>2
<1> QED  BY <1>4, <1>5, <1>6, <1>8

LEMMA CrashStep == KnowledgeInv /\ Crash => KnowledgeInv'
<1> SUFFICES ASSUME KnowledgeInv, Crash PROVE KnowledgeInv'
  OBVIOUS
<1> USE DEF KnowledgeInv
<1>1. /\ \A s \in Requests : task'[s] = NoTask
      /\ task' \in [Requests -> Task]
      /\ UNCHANGED <<organizations, belongs, documents, chunks>>
      /\ DOMAIN documents = 1 .. Len(documents)
  BY NoTaskType DEF Crash, KnowledgeTypeOK, OrganizationTypeOK
<1>2. torn' \subseteq Organizers
      /\ \A u \in Organizers \ torn' :
           u \notin torn /\ \A r \in Creating(u) : task[r].pc # "link"
  BY DEF Crash, KnowledgeTypeOK, OrganizationTypeOK, Task, Creating
<1>3. spoiled' \subseteq DOMAIN documents
      /\ \A d \in DOMAIN documents \ spoiled' :
           /\ d \notin spoiled
           /\ At("insertChunks", d) = {} /\ At("deleteChunks", d) = {}
  BY <1>1 DEF Crash, KnowledgeTypeOK, At, WorkInv
<1>4. KnowledgeTypeOK'
  BY <1>1, <1>2, <1>3 DEF KnowledgeTypeOK, OrganizationTypeOK
<1>5. \A u \in Organizers : Own(u)' = Own(u) /\ Creating(u)' = {}
  BY <1>1, NoTaskType DEF Own, Creating
<1>6. CreationInv'
  <2>1. \A u \in Organizers \ torn' : Own(u) = {belongs[u]} \ {0}
    <3> SUFFICES ASSUME NEW u \in Organizers \ torn'
                 PROVE  Own(u) = {belongs[u]} \ {0}
      OBVIOUS
    <3>1. CASE Creating(u) = {}  BY <1>2, <3>1 DEF CreationInv
    <3>2. CASE Creating(u) # {}
      <4>1. PICK r \in Creating(u) : TRUE  BY <3>2
      <4>2. Own(u) = {} /\ belongs[u] = 0
        BY <1>2, <4>1 DEF CreationInv
      <4> QED  BY <4>2
    <3> QED  BY <3>1, <3>2
  <2> QED  BY <1>1, <1>5, <2>1, NoTaskType DEF CreationInv
<1>7. WorkInv'  BY <1>1, NoTaskType DEF WorkInv
<1>8. ChunksInv'
  BY <1>1, <1>3, NoTaskType DEF ChunksInv, Accounted, At
<1> QED  BY <1>4, <1>6, <1>7, <1>8

-----------------------------------------------------------------------------
(* The specification                                                       *)

LEMMA KnowledgeStutter ==
  KnowledgeInv /\ UNCHANGED knowledgeVars => KnowledgeInv'
<1> SUFFICES ASSUME KnowledgeInv, UNCHANGED knowledgeVars PROVE KnowledgeInv'
  OBVIOUS
<1>1. UNCHANGED creationVars /\ UNCHANGED <<task, documents, chunks, spoiled>>
  BY DEF knowledgeVars
<1>2. KnowledgeTypeOK'
  BY <1>1 DEF KnowledgeInv, KnowledgeTypeOK, OrganizationTypeOK, creationVars
<1>3. CreationInv'  BY <1>1, CreationKept DEF KnowledgeInv
<1>4. WorkInv' /\ ChunksInv'  BY <1>1, WorkKept DEF KnowledgeInv
<1> QED  BY <1>2, <1>3, <1>4 DEF KnowledgeInv

LEMMA KnowledgeInvStep ==
  KnowledgeInv /\ [KnowledgeNext]_knowledgeVars => KnowledgeInv'
<1> SUFFICES ASSUME KnowledgeInv, [KnowledgeNext]_knowledgeVars PROVE KnowledgeInv'
  OBVIOUS
<1>1. CASE UNCHANGED knowledgeVars  BY <1>1, KnowledgeStutter
<1>2. CASE Crash  BY <1>2, CrashStep
<1>3. ASSUME NEW r \in Requests, NEW u \in Organizers, KnowledgeRequest(r, u)
      PROVE  KnowledgeInv'
  <2>1. CASE \E name \in Names :
               Create(r, u, name) /\ UNCHANGED <<documents, chunks, spoiled>>
    BY <2>1, CreateRequestStep
  <2>2. CASE \E size \in 0 .. MaxChunks : Ingest(r, u, size)  BY <2>2, IngestStep
  <2>3. CASE \E d \in DOMAIN documents : Remove(r, u, d)  BY <2>3, RemoveStep
  <2> QED  BY <1>3, <2>1, <2>2, <2>3 DEF KnowledgeRequest
<1>4. ASSUME NEW r \in Requests, KnowledgeStep(r)
      PROVE  KnowledgeInv'
  <2>1. CASE CreateStep(r) /\ UNCHANGED <<documents, chunks, spoiled>>
    BY <2>1, ProbeStep, InsertStep, LinkStep DEF CreateStep
  <2>2. CASE \E status \in DocumentStatuses : CreateDocument(r, status)
    BY <2>2, CreateDocumentStep
  <2>3. CASE InsertChunk(r)  BY <2>3, InsertChunkStep
  <2>4. CASE MarkDeleted(r)  BY <2>4, MarkDeletedStep
  <2>5. CASE DeleteChunks(r)  BY <2>5, DeleteChunksStep
  <2> QED  BY <1>4, <2>1, <2>2, <2>3, <2>4, <2>5 DEF KnowledgeStep
<1> QED  BY <1>1, <1>2, <1>3, <1>4 DEF KnowledgeNext

LEMMA KnowledgeInvariant == KnowledgeSpec => []KnowledgeInv
<1> QED  BY InitInv, KnowledgeInvStep, PTL DEF KnowledgeSpec

-----------------------------------------------------------------------------
\* Organizations, documents, chunks and requests have their types: an organizer
\* belongs to an organization that exists, a document has its count of chunks
\* (organizationService.js:15-24, ragService.js:10-26).
THEOREM KnowledgeTypeCorrect == KnowledgeSpec => []KnowledgeTypeOK
<1> QED  BY KnowledgeInvariant, PTL DEF KnowledgeInv

\* However many organizers ask for the same names, whoever sends one creation
\* after the other has one organization at most, and belongs to it whenever no
\* creation of theirs is under way (organizationService.js:15, 21-23).
THEOREM OneOrganization == KnowledgeSpec => []OneOrganizationEach
<1>1. KnowledgeInv => OneOrganizationEach
  <2> SUFFICES ASSUME KnowledgeInv, NEW u \in Organizers \ torn
               PROVE  /\ \A o1, o2 \in Own(u) : o1 = o2
                      /\ Creating(u) = {} => Own(u) = {belongs[u]} \ {0}
    BY DEF OneOrganizationEach, Own
  <2>1. CASE Creating(u) = {}  BY <2>1 DEF KnowledgeInv, CreationInv
  <2>2. CASE Creating(u) # {}
    <3>1. PICK r \in Creating(u) : TRUE  BY <2>2
    <3>2. Own(u) = IF task[r].pc = "link" THEN {task[r].organization} ELSE {}
      BY <3>1 DEF KnowledgeInv, CreationInv
    <3> QED  BY <2>2, <3>2
  <2> QED  BY <2>1, <2>2
<1> QED  BY <1>1, KnowledgeInvariant, PTL

\* A document nobody works on has all its chunks, or none when it was removed,
\* whatever the requests on other documents do at the same time and however
\* often the server dies: except a document that was removed during its ingest,
\* that was ingested as removed or that a crash cut off, and those until they are
\* removed again
\* (ragService.js:11-13, 19, 24-26).
THEOREM ChunksFollowDocuments == KnowledgeSpec => []KnowledgeConsistent
<1>1. KnowledgeInv => KnowledgeConsistent
  <2> SUFFICES ASSUME KnowledgeInv, NEW d \in DOMAIN documents \ spoiled,
                      \A r \in Requests : task[r].document # d
               PROVE  chunks[d] = IF documents[d].status = "ready"
                                  THEN documents[d].size ELSE 0
    BY DEF KnowledgeConsistent
  <2>1. At("insertChunks", d) = {} /\ At("deleteChunks", d) = {}  BY DEF At
  <2>2. /\ d \in (1 .. Len(documents)) \ spoiled
        /\ documents[d].status \in {"ready", "deleted"}
    <3>1. documents \in Seq(Document) /\ DOMAIN documents = 1 .. Len(documents)
      BY DEF KnowledgeInv, KnowledgeTypeOK
    <3>2. documents[d] \in Document  BY <3>1
    <3> QED  BY <3>1, <3>2 DEF Document, DocumentStatuses
  <2> QED  BY <2>1, <2>2 DEF KnowledgeInv, ChunksInv, Accounted
<1> QED  BY <1>1, KnowledgeInvariant, PTL
=============================================================================
