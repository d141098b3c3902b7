--------------------------- MODULE Organizations ----------------------------
(***************************************************************************)
(* Organizers who create their organizations                               *)
(* (services/organizationService.js): the search for a free slug, the      *)
(* insert, and the link from the user to the organization are separate     *)
(* database calls.  One action per call, as in QueueEntries.               *)
(*                                                                         *)
(* Elevated users, who may create several, and disabled organizations are  *)
(* left out.                                                               *)
(***************************************************************************)
EXTENDS Naturals, Sequences

CONSTANTS
  Requests,
  Organizers,
  Names,                  \* what names become: the base of a slug
  MaxOrganizations        \* bound: documents a creation may start from

ASSUME MaxOrganizationsAssumption == MaxOrganizations \in Nat
ASSUME SomebodyAssumption == Organizers # {} /\ Names # {}

VARIABLES
  organizations,          \* the Organization documents, in order of insertion
  belongs,                \* User.organizationId; 0: none
  task,                   \* the requests, those of Knowledge included
  torn                    \* organizers whose creations overlapped or were cut off

-----------------------------------------------------------------------------
\* The slug of a suffix of 1 is the base alone.
Slugs == Names \X (Nat \ {0})

Organization == [slug : Slugs, owner : Organizers]

TaskStages ==
  {"idle", "probe", "insert", "link",
   "createDocument", "insertChunks", "markDeleted", "deleteChunks"}

Task ==
  [pc : TaskStages, user : Organizers, slug : Slugs, organization : Nat,
   document : Nat, size : Nat]

AnyOrganizer == CHOOSE u \in Organizers : TRUE

NoTask ==
  [pc |-> "idle", user |-> AnyOrganizer, slug |-> <<CHOOSE n \in Names : TRUE, 1>>,
   organization |-> 0, document |-> 0, size |-> 0]

Answer(r) == task' = [task EXCEPT ![r] = NoTask]

Taken(slug) == \E o \in DOMAIN organizations : organizations[o].slug = slug

\* The creations of a user that have passed the check of line 21.
Creating(u) ==
  {r \in Requests : task[r].pc \in {"probe", "insert", "link"} /\ task[r].user = u}

-----------------------------------------------------------------------------
\* Mutant: whoever belongs to an organization can create another one.
Create_Again(r, u, name) ==
  /\ task[r].pc = "idle" /\ Len(organizations) < MaxOrganizations
  /\ task' = [task EXCEPT ![r] =
                [NoTask EXCEPT !.pc = "probe", !.user = u, !.slug = <<name, 1>>]]
  /\ torn' = IF Creating(u) = {} THEN torn ELSE torn \cup {u}
  /\ UNCHANGED <<organizations, belongs>>

\* authenticate has loaded the user.
Create(r, u, name) ==
  /\ task[r].pc = "idle" /\ Len(organizations) < MaxOrganizations
  /\ belongs[u] = 0
  /\ task' = [task EXCEPT ![r] =
                [NoTask EXCEPT !.pc = "probe", !.user = u, !.slug = <<name, 1>>]]
  /\ torn' = IF Creating(u) = {} THEN torn ELSE torn \cup {u}
  /\ UNCHANGED <<organizations, belongs>>

\* Mutant: the suffix stays 2.
Probe_SameSuffix(r) ==
  LET slug == task[r].slug
  IN  /\ task[r].pc = "probe"
      /\ task' = [task EXCEPT ![r] =
                    IF Taken(slug) THEN [@ EXCEPT !.slug = <<slug[1], 2>>]
                    ELSE [@ EXCEPT !.pc = "insert"]]
      /\ UNCHANGED <<organizations, belongs, torn>>

\* uniqueSlug: the next suffix is 2.
Probe(r) ==
  LET slug == task[r].slug
  IN  /\ task[r].pc = "probe"
      /\ task' = [task EXCEPT ![r] =
                    IF Taken(slug) THEN [@ EXCEPT !.slug = <<slug[1], slug[2] + 1>>]
                    ELSE [@ EXCEPT !.pc = "insert"]]
      /\ UNCHANGED <<organizations, belongs, torn>>

\* Mutant: a duplicate slug is no error.
Insert_Unchecked(r) ==
  /\ task[r].pc = "insert"
  /\ organizations' = IF Taken(task[r].slug) THEN organizations
                      ELSE Append(organizations, [slug |-> task[r].slug,
                                                  owner |-> task[r].user])
  /\ task' = [task EXCEPT ![r] = [@ EXCEPT !.pc = "link",
                                           !.organization = Len(organizations) + 1]]
  /\ UNCHANGED <<belongs, torn>>

\* The unique index refuses a slug that was taken in the meantime.
Insert(r) ==
  /\ task[r].pc = "insert"
  /\ IF Taken(task[r].slug)
     THEN Answer(r) /\ UNCHANGED organizations
     ELSE /\ organizations' = Append(organizations, [slug |-> task[r].slug,
                                                     owner |-> task[r].user])
          /\ task' = [task EXCEPT ![r] =
                        [@ EXCEPT !.pc = "link",
                                  !.organization = Len(organizations) + 1]]
  /\ UNCHANGED <<belongs, torn>>

Link(r) ==
  /\ task[r].pc = "link"
  /\ belongs' = [belongs EXCEPT ![task[r].user] = task[r].organization]
  /\ Answer(r)
  /\ UNCHANGED <<organizations, torn>>

-----------------------------------------------------------------------------
OrganizationInit ==
  /\ organizations = <<>>
  /\ belongs = [u \in Organizers |-> 0]
  /\ task = [r \in Requests |-> NoTask]
  /\ torn = {}

CreateStep(r) == Probe(r) \/ Insert(r) \/ Link(r)

OrganizationTypeOK ==
  /\ organizations \in Seq(Organization)
  /\ belongs \in [Organizers -> 0 .. Len(organizations)]
  /\ task \in [Requests -> Task]
  /\ torn \subseteq Organizers

\* Who sends one creation after the other, and is not cut off between the
\* insert and the link, has one organization at most, and belongs to it as soon
\* as the request is answered, whoever takes the same names in between
\* (organizationService.js:15, 21-23).
OneOrganizationEach ==
  \A u \in Organizers \ torn :
    LET own == {o \in DOMAIN organizations : organizations[o].owner = u}
    IN  /\ \A o1, o2 \in own : o1 = o2
        /\ Creating(u) = {} => own = {belongs[u]} \ {0}
=============================================================================
