----------------------------- MODULE Knowledge ------------------------------
(***************************************************************************)
(* The knowledge base of the organizations (ai/ragService.js): a document  *)
(* and its chunks are two collections.  The assistant retrieves chunks by  *)
(* organization, and does not look at the document.                        *)
(***************************************************************************)
EXTENDS Organizations

CONSTANTS
  MaxDocuments,           \* bound: documents an ingest may start from
  MaxChunks               \* bound: the chunks of a document

VARIABLES
  documents,              \* the KnowledgeDocument documents
  chunks,                 \* how many KnowledgeChunk documents each of them has
  spoiled                 \* see KnowledgeConsistent

creationVars == <<organizations, belongs, torn>>
knowledgeVars == <<creationVars, task, documents, chunks, spoiled>>

-----------------------------------------------------------------------------
DocumentStatuses == {"ready", "deleted"}

Document == [organization : Nat, size : Nat, status : DocumentStatuses]

At(pc, d) == {r \in Requests : task[r].pc = pc /\ task[r].document = d}

\* ingest: a content of so many chunks.  The user is the one of authenticate.
Ingest(r, u, size) ==
  /\ task[r].pc = "idle" /\ Len(documents) < MaxDocuments
  /\ belongs[u] # 0
  /\ task' = [task EXCEPT ![r] =
                [NoTask EXCEPT !.pc = "createDocument", !.size = size,
                               !.organization = belongs[u]]]
  /\ UNCHANGED <<creationVars, documents, chunks, spoiled>>

\* The status is "ready", unless the body of the request names one.
CreateDocument(r, status) ==
  /\ task[r].pc = "createDocument"
  /\ documents' = Append(documents, [organization |-> task[r].organization,
                                     size |-> task[r].size, status |-> status])
  /\ chunks' = Append(chunks, 0)
  /\ IF task[r].size = 0
     THEN Answer(r)
     ELSE task' = [task EXCEPT ![r] = [@ EXCEPT !.pc = "insertChunks",
                                                !.document = Len(documents) + 1]]
  /\ spoiled' = IF status = "ready" THEN spoiled
                ELSE spoiled \cup {Len(documents) + 1}
  /\ UNCHANGED creationVars

\* insertMany inserts them one after the other.
InsertChunk(r) ==
  LET left == task[r].size - 1
  IN  /\ task[r].pc = "insertChunks"
      /\ chunks' = [chunks EXCEPT ![task[r].document] = @ + 1]
      /\ IF left = 0 THEN Answer(r)
                     ELSE task' = [task EXCEPT ![r].size = left]
      /\ UNCHANGED <<creationVars, documents, spoiled>>

\* remove finds a document of the user's organization, removed or not.
Remove(r, u, d) ==
  /\ task[r].pc = "idle"
  /\ belongs[u] # 0 /\ documents[d].organization = belongs[u]
  /\ task' = [task EXCEPT ![r] =
                [NoTask EXCEPT !.pc = "markDeleted", !.document = d]]
  /\ spoiled' = IF At("insertChunks", d) = {} THEN spoiled ELSE spoiled \cup {d}
  /\ UNCHANGED <<creationVars, documents, chunks>>

MarkDeleted(r) ==
  /\ task[r].pc = "markDeleted"
  /\ documents' = [documents EXCEPT ![task[r].document].status = "deleted"]
  /\ task' = [task EXCEPT ![r].pc = "deleteChunks"]
  /\ UNCHANGED <<creationVars, chunks, spoiled>>

\* Mutant: the chunks of the organization are deleted.
DeleteChunks_OfOrganization(r) ==
  LET d == task[r].document
  IN  /\ task[r].pc = "deleteChunks"
      /\ chunks' = [e \in DOMAIN chunks |->
                      IF documents[e].organization = documents[d].organization
                      THEN 0 ELSE chunks[e]]
      /\ spoiled' = IF At("insertChunks", d) = {} THEN spoiled \ {d} ELSE spoiled
      /\ Answer(r)
      /\ UNCHANGED <<creationVars, documents>>

DeleteChunks(r) ==
  LET d == task[r].document
  IN  /\ task[r].pc = "deleteChunks"
      /\ chunks' = [chunks EXCEPT ![d] = 0]
      /\ spoiled' = IF At("insertChunks", d) = {} THEN spoiled \ {d} ELSE spoiled
      /\ Answer(r)
      /\ UNCHANGED <<creationVars, documents>>

-----------------------------------------------------------------------------
\* The server dies; nothing at start-up finishes what was begun.
Crash ==
  /\ \E r \in Requests : task[r].pc # "idle"
  /\ torn' = torn \cup {task[r].user : r \in {q \in Requests : task[q].pc = "link"}}
  /\ spoiled' = spoiled \cup
       {task[r].document : r \in {q \in Requests :
                                    task[q].pc \in {"insertChunks", "deleteChunks"}}}
  /\ task' = [r \in Requests |-> NoTask]
  /\ UNCHANGED <<organizations, belongs, documents, chunks>>

KnowledgeInit ==
  /\ OrganizationInit
  /\ documents = <<>> /\ chunks = <<>>
  /\ spoiled = {}

KnowledgeRequest(r, u) ==
  \/ \E name \in Names :
       Create(r, u, name) /\ UNCHANGED <<documents, chunks, spoiled>>
  \/ \E size \in 0 .. MaxChunks : Ingest(r, u, size)
  \/ \E d \in DOMAIN documents : Remove(r, u, d)

KnowledgeStep(r) ==
  \/ CreateStep(r) /\ UNCHANGED <<documents, chunks, spoiled>>
  \/ \E status \in DocumentStatuses : CreateDocument(r, status)
  \/ InsertChunk(r)
  \/ MarkDeleted(r) \/ DeleteChunks(r)

KnowledgeNext ==
  \/ \E r \in Requests, u \in Organizers : KnowledgeRequest(r, u)
  \/ \E r \in Requests : KnowledgeStep(r)
  \/ Crash

KnowledgeSpec == KnowledgeInit /\ [][KnowledgeNext]_knowledgeVars

\* The database answers.
KnowledgeFairness == \A r \in Requests : WF_knowledgeVars(KnowledgeStep(r))

FairKnowledgeSpec == KnowledgeSpec /\ KnowledgeFairness

-----------------------------------------------------------------------------
KnowledgeTypeOK ==
  /\ OrganizationTypeOK
  /\ documents \in Seq(Document)
  /\ chunks \in Seq(Nat) /\ Len(chunks) = Len(documents)
  /\ spoiled \subseteq DOMAIN documents

\* What the assistant can quote of a document is what the document says of
\* itself: once nobody works on it any more, a ready one has all its chunks and
\* a removed one has none.  Except when it was removed while it was being
\* ingested, or ingested as deleted, or when the server died in the middle;
\* removing it again repairs that (ragService.js:11-13, 19, 24-26).
KnowledgeConsistent ==
  \A d \in DOMAIN documents \ spoiled :
    (\A r \in Requests : task[r].document # d) =>
      chunks[d] = IF documents[d].status = "ready" THEN documents[d].size ELSE 0

\* Every request is answered; the search for a slug ends even though others
\* take the slugs that it tries (organizationService.js:15).
KnowledgeRequestsEnd ==
  \A r \in Requests : (task[r].pc # "idle") ~> (task[r].pc = "idle")
=============================================================================
