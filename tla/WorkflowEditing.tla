-------------------------- MODULE WorkflowEditing --------------------------
(***************************************************************************)
(* One workflow, the history of its versions in the API and the pages in   *)
(* which several users edit, restore and run it.  Source:                  *)
(* apps/api/src/modules/workflows/workflows.service.ts and                 *)
(* apps/web/src/features/workflows/.                                       *)
(*                                                                         *)
(* The service reads the current version and inserts the next number in    *)
(* two statements; (workflowId, version) is unique.  A page works on the   *)
(* cached answer of its query, which other calls of the same page refetch. *)
(* A definition is a model value: two definitions are equal or not, as     *)
(* areDefinitionsEqual sees them.                                          *)
(***************************************************************************)
EXTENDS Naturals, FiniteSetsExt

CONSTANTS Clients,      \* browser tabs whose users may write workflows
          Definitions,  \* definitions the contract accepts
          Default,      \* DEFAULT_WORKFLOW_DEFINITION
          MaxCalls,     \* bound: calls to the API
          MaxVisits,    \* bound: how often a page is opened by its user
          MaxRefetches, \* bound: fetches nobody's call asked for
          MaxFailures   \* bound: requests, statements or publishes that fail

ASSUME EditingAssumption ==
  /\ Default \in Definitions
  /\ {MaxCalls, MaxVisits, MaxRefetches, MaxFailures} \subseteq Nat

VARIABLES versions,  \* WorkflowVersion rows: the definition of version n at n
          page,      \* what each tab shows, and the cache of its workflow query
          fetch,     \* the fetch of that query
          call,      \* the calls of each tab
          spent      \* how much of each bound is used up

vars == <<versions, page, fetch, call, spent>>

Kinds == {"CREATE", "SAVE", "RESTORE", "METADATA", "RUN"}
NewVersion == {"SAVE", "RESTORE"}

Bounds == [calls |-> MaxCalls, visits |-> MaxVisits,
           refetches |-> MaxRefetches, failures |-> MaxFailures]

Spend(kind) == /\ spent[kind] < Bounds[kind]
               /\ spent' = [spent EXCEPT ![kind] = @ + 1]

\* arg: the definition to store.  at: the version the call has read, or made.
\* here: the page that made the call is still the one on the screen.
NoCall == [step |-> "IDLE", arg |-> Default, at |-> 0, here |-> FALSE]
NoFetch == [step |-> "IDLE", read |-> 0]

\* data: the cached version, 0 before the first answer.
Closed == [open |-> FALSE, data |-> 0, draft |-> Default, editing |-> FALSE,
           preview |-> 0, failed |-> FALSE]

Init ==
  /\ versions = <<>>
  /\ page = [c \in Clients |-> Closed]
  /\ fetch = [c \in Clients |-> NoFetch]
  /\ call = [c \in Clients |-> [k \in Kinds |-> NoCall]]
  /\ spent = [kind \in DOMAIN Bounds |-> 0]

\* workflowWithCurrentVersion: orderBy version desc, take 1.
Current == Max(DOMAIN versions \cup {0})

SetCall(c, k, value) == call' = [call EXCEPT ![c][k] = value]
Step(c, k, step) == SetCall(c, k, [call[c][k] EXCEPT !.step = step])

----------------------------------------------------------------------------
(***************************************************************************)
(* The API.                                                                *)
(***************************************************************************)

\* Mutant: the index is not unique.
TakenNever(n) == FALSE

\* The unique index on (workflowId, version).
Taken(n) == n \in DOMAIN versions

Insert(n, definition) ==
  versions' = [i \in DOMAIN versions \cup {n} |->
                 IF i = n THEN definition ELSE versions[i]]

\* create: the workflow and its version 1 in one statement.
CreateWorkflow(c) ==
  /\ call[c]["CREATE"].step = "SENT"
  /\ IF Taken(1)
       THEN Step(c, "CREATE", "REFUSED") /\ UNCHANGED versions
       ELSE Insert(1, Default) /\ Step(c, "CREATE", "STORED")
  /\ UNCHANGED <<page, fetch, spent>>

\* Mutant: the call names the version on the page.
DisplayedVersion(c) == page[c].data

\* What findFirst with workflowWithCurrentVersion reads for a call.
CurrentVersion(c) == Current

\* The first statement of createVersion, restoreVersion and requestExecution.
ReadCurrent(c, k) ==
  /\ k \in NewVersion \cup {"RUN"} /\ call[c][k].step = "SENT"
  /\ SetCall(c, k, [call[c][k] EXCEPT !.step = "READ", !.at = CurrentVersion(c)])
  /\ UNCHANGED <<versions, page, fetch, spent>>

NextVersion(read) == read + 1

\* The second statement of createVersion and restoreVersion: the number after
\* the one read, or a unique violation that nobody catches.
InsertVersion(c, k) ==
  /\ k \in NewVersion /\ call[c][k].step = "READ"
  /\ LET n == NextVersion(call[c][k].at) IN
       IF Taken(n)
         THEN Step(c, k, "REFUSED") /\ UNCHANGED versions
         ELSE /\ Insert(n, call[c][k].arg)
              /\ SetCall(c, k, [call[c][k] EXCEPT !.step = "ANSWERED", !.at = n])
  /\ UNCHANGED <<page, fetch, spent>>

\* requestExecution: the row of the execution, before its message.
StoreExecution(c) ==
  /\ call[c]["RUN"].step = "READ"
  /\ Step(c, "RUN", "STORED")
  /\ UNCHANGED <<versions, page, fetch, spent>>

\* publishEvent, after the row is committed.
Publish(c, k) ==
  /\ k \in {"CREATE", "RUN"} /\ call[c][k].step = "STORED"
  /\ Step(c, k, "ANSWERED")
  /\ UNCHANGED <<versions, page, fetch, spent>>

\* updateMetadata: one statement that leaves the versions alone, or P2002.
UpdateMetadata(c) ==
  /\ call[c]["METADATA"].step = "SENT"
  /\ \E outcome \in {"ANSWERED", "REFUSED"} : Step(c, "METADATA", outcome)
  /\ UNCHANGED <<versions, page, fetch, spent>>

\* The request or its answer is lost, a statement or the publish throws: what
\* is committed stays, and the page is told that the call failed.
CallFails(c, k) ==
  /\ call[c][k].step \in {"SENT", "READ", "STORED", "ANSWERED"}
  /\ Spend("failures")
  /\ Step(c, k, "REFUSED")
  /\ UNCHANGED <<versions, page, fetch>>

----------------------------------------------------------------------------
(***************************************************************************)
(* The cache of the workflow query.  One fetch at a time: an invalidation  *)
(* cancels the one under way and starts another.                           *)
(***************************************************************************)

Refetched(c) == fetch' = [fetch EXCEPT ![c] = [step |-> "SENT", read |-> 0]]

\* Mutant: a fetch under way is not cancelled.
InvalidateIdle(c) == IF page[c].open /\ fetch[c].step = "IDLE"
                       THEN Refetched(c) ELSE UNCHANGED fetch

\* invalidateQueries refetches the query of a mounted page only.
Invalidate(c) == IF page[c].open THEN Refetched(c) ELSE UNCHANGED fetch

\* A reconnect, the retry button, a remount with stale data.
Refetch(c) ==
  /\ page[c].open /\ fetch[c].step = "IDLE"
  /\ Spend("refetches")
  /\ Refetched(c)
  /\ UNCHANGED <<versions, page, call>>

ReadWorkflow(c) ==
  /\ fetch[c].step = "SENT"
  /\ fetch' = [fetch EXCEPT ![c] = [step |-> "READ", read |-> Current]]
  /\ UNCHANGED <<versions, page, call, spent>>

\* Mutant: every answer resets the draft.
DraftAlwaysReset(p, read) == TRUE

\* The effect on [definition, currentVersion.id] replaces the draft.
DraftReset(p, read) == read # p.data

Deliver(c) ==
  /\ fetch[c].step = "READ"
  /\ LET read == fetch[c].read IN
       page' = [page EXCEPT ![c] =
                  IF @.open /\ DraftReset(@, read)
                    THEN [@ EXCEPT !.data = read, !.failed = FALSE,
                                   !.draft = versions[read], !.preview = 0]
                    ELSE [@ EXCEPT !.data = read, !.failed = FALSE]]
  /\ fetch' = [fetch EXCEPT ![c] = NoFetch]
  /\ UNCHANGED <<versions, call, spent>>

\* The query gives up: the page shows an error until a fetch succeeds.
FetchFails(c) ==
  /\ fetch[c].step \in {"SENT", "READ"}
  /\ Spend("failures")
  /\ fetch' = [fetch EXCEPT ![c] = NoFetch]
  /\ page' = [page EXCEPT ![c].failed = TRUE]
  /\ UNCHANGED <<versions, call>>

----------------------------------------------------------------------------
(***************************************************************************)
(* The page and its user.                                                  *)
(***************************************************************************)

Usable(c) == page[c].open /\ page[c].data > 0 /\ ~page[c].failed
Shown(c) == versions[page[c].data]
HasDraftChanges(c) == page[c].editing /\ page[c].draft # Shown(c)

\* The page is mounted: its first effect copies the cached definition, and a
\* query that has no data or failed is fetched.
Opened(c) ==
  /\ page' = [page EXCEPT ![c] =
                [Closed EXCEPT !.open = TRUE, !.data = page[c].data,
                               !.failed = page[c].failed,
                               !.draft = IF page[c].data > 0 THEN Shown(c) ELSE Default]]
  /\ IF fetch[c].step = "IDLE" /\ (page[c].data = 0 \/ page[c].failed)
       THEN Refetched(c) ELSE UNCHANGED fetch

\* The page is unmounted: its state is gone, its calls and its cache are not.
Left(c) ==
  page' = [page EXCEPT ![c] = [Closed EXCEPT !.data = page[c].data,
                                             !.failed = page[c].failed]]

OpenPage(c) ==
  /\ Taken(1) /\ ~page[c].open /\ Spend("visits")
  /\ Opened(c)
  /\ UNCHANGED <<versions, call>>

LeavePage(c) ==
  /\ page[c].open
  /\ Left(c)
  /\ call' = [call EXCEPT ![c] = [k \in Kinds |-> [@[k] EXCEPT !.here = FALSE]]]
  /\ UNCHANGED <<versions, fetch, spent>>

\* "Edit workflow": the draft is whatever the state holds.
StartEditing(c) ==
  /\ Usable(c) /\ ~page[c].editing
  /\ page' = [page EXCEPT ![c].editing = TRUE]
  /\ UNCHANGED <<versions, fetch, call, spent>>

\* updateDraftDefinition, handleDefinitionChange.
ChangeDraft(c) ==
  /\ Usable(c) /\ page[c].editing
  /\ \E d \in Definitions \ {page[c].draft} : page' = [page EXCEPT ![c].draft = d]
  /\ UNCHANGED <<versions, fetch, call, spent>>

DiscardDraft(c) ==
  /\ Usable(c) /\ page[c].editing
  /\ page' = [page EXCEPT ![c].draft = Shown(c), ![c].editing = FALSE, ![c].preview = 0]
  /\ UNCHANGED <<versions, fetch, call, spent>>

\* The version list is fetched and invalidated together with the workflow.
PreviewVersion(c) ==
  /\ Usable(c) /\ call[c]["RESTORE"].step = "IDLE"
  /\ \E n \in 0..page[c].data \ {page[c].preview} :
       page' = [page EXCEPT ![c].preview = n]
  /\ UNCHANGED <<versions, fetch, call, spent>>

\* A button is disabled while its own mutation is pending, not another's.
Click(c, k, arg) ==
  /\ call[c][k].step = "IDLE"
  /\ SetCall(c, k, [step |-> "SENT", arg |-> arg, at |-> Current, here |-> TRUE])
  /\ UNCHANGED <<versions, page, fetch>>

ClickCreate(c) == /\ ~Taken(1) /\ Spend("calls")
                  /\ Click(c, "CREATE", Default)

ClickSave(c) == /\ Usable(c) /\ HasDraftChanges(c) /\ Spend("calls")
                /\ Click(c, "SAVE", page[c].draft)

\* The card of the previewed version, its button enabled.
RestoreOffered(c) == Usable(c) /\ page[c].preview \notin {0, page[c].data}

ClickRestore(c) == /\ RestoreOffered(c) /\ Spend("calls")
                   /\ Click(c, "RESTORE", versions[page[c].preview])

\* The card with the name, the slug, the description and the status.
MetadataForm(c) == Usable(c) /\ page[c].editing

ClickMetadata(c) == /\ MetadataForm(c) /\ Spend("calls")
                    /\ Click(c, "METADATA", Default)

ClickRun(c) == /\ Usable(c) /\ Spend("calls")
               /\ Click(c, "RUN", Default)

\* onSuccess of the three mutations of the page: invalidate and wait.
OnSuccess(c, k) ==
  /\ k \in NewVersion \cup {"METADATA"} /\ call[c][k].step = "ANSWERED"
  /\ Invalidate(c)
  /\ Step(c, k, "REFETCHING")
  /\ UNCHANGED <<versions, page, spent>>

\* What onSuccess does to the page after the wait.
Settled(p, k, definition) ==
  IF k \in NewVersion
    THEN [p EXCEPT !.draft = definition, !.editing = FALSE, !.preview = 0]
    ELSE p

AfterRefetch(c, k) ==
  /\ call[c][k].step = "REFETCHING" /\ fetch[c].step = "IDLE"
  /\ page' = [page EXCEPT ![c] = IF call[c][k].here THEN Settled(@, k, call[c][k].arg)
                                                   ELSE @]
  /\ SetCall(c, k, NoCall)
  /\ UNCHANGED <<versions, fetch, spent>>

\* A run takes its user to the page of the execution, whatever is on screen.
OnRun(c) ==
  /\ call[c]["RUN"].step = "ANSWERED"
  /\ Left(c)
  /\ call' = [call EXCEPT ![c] = [k \in Kinds |->
                IF k = "RUN" THEN NoCall ELSE [@[k] EXCEPT !.here = FALSE]]]
  /\ UNCHANGED <<versions, fetch, spent>>

OnCreated(c) ==
  /\ call[c]["CREATE"].step = "ANSWERED"
  /\ IF page[c].open THEN UNCHANGED <<page, fetch>> ELSE Opened(c)
  /\ SetCall(c, "CREATE", NoCall)
  /\ UNCHANGED <<versions, spent>>

\* A message is shown; the draft stays for another try.
OnError(c, k) ==
  /\ call[c][k].step = "REFUSED"
  /\ SetCall(c, k, NoCall)
  /\ UNCHANGED <<versions, page, fetch, spent>>

Api(c) ==
  \/ CreateWorkflow(c) \/ StoreExecution(c) \/ UpdateMetadata(c)
  \/ \E k \in Kinds : \/ ReadCurrent(c, k) \/ InsertVersion(c, k)
                      \/ Publish(c, k) \/ CallFails(c, k)

Cache(c) == Refetch(c) \/ ReadWorkflow(c) \/ Deliver(c) \/ FetchFails(c)

User(c) ==
  \/ OpenPage(c) \/ LeavePage(c) \/ StartEditing(c) \/ ChangeDraft(c)
  \/ DiscardDraft(c) \/ PreviewVersion(c) \/ ClickCreate(c) \/ ClickSave(c)
  \/ ClickRestore(c) \/ ClickMetadata(c) \/ ClickRun(c)

Answers(c) ==
  \/ OnRun(c) \/ OnCreated(c)
  \/ \E k \in Kinds : OnSuccess(c, k) \/ AfterRefetch(c, k) \/ OnError(c, k)

Next == \E c \in Clients : Api(c) \/ Cache(c) \/ User(c) \/ Answers(c)

Spec == Init /\ [][Next]_vars

----------------------------------------------------------------------------
(***************************************************************************)
(* Properties.                                                             *)
(***************************************************************************)

Confirmed == {p \in Clients \X NewVersion :
                call[p[1]][p[2]].step \in {"ANSWERED", "REFETCHING"}}

\* Two users who save or restore at once are never told the same number, and
\* the definition a user was told is stored is stored under that number
\* (createVersion and restoreVersion read and insert without a transaction).
ConfirmedIsStored ==
  /\ \A p \in Confirmed : LET v == call[p[1]][p[2]] IN
       Taken(v.at) /\ versions[v.at] = v.arg
  /\ \A p, q \in Confirmed :
       p # q => call[p[1]][p[2]].at # call[q[1]][q[2]].at

\* A run executes the version that was current when its user asked for it, or
\* a newer one, although the page may show an older one from its cache.
RunsAreFresh ==
  [][\A c \in Clients :
       call[c]["RUN"].step = "SENT" /\ call'[c]["RUN"].step = "READ"
         => call'[c]["RUN"].at >= call[c]["RUN"].at]_vars

\* When a save or a restore is over, the page that asked for it has loaded
\* the version it made or a newer one, even if a fetch was already under way
\* when the answer came; only a failed fetch is an excuse, and it is shown.
OwnVersionIsShown ==
  [][\A c \in Clients, k \in NewVersion :
       call[c][k].step = "REFETCHING" /\ call'[c][k].step = "IDLE"
         /\ call[c][k].here /\ ~page[c].failed
         => page[c].data >= call[c][k].at]_vars

\* Fetches and the saving of metadata take a changed draft away only when they
\* bring a newer version of the workflow.
DraftIsKept ==
  [][\A c \in Clients :
       /\ HasDraftChanges(c) /\ page'[c].open
       /\ fetch'[c] # fetch[c] \/ call'[c]["METADATA"] # call[c]["METADATA"]
       => page'[c].draft = page[c].draft \/ page'[c].data > page[c].data]_vars

=============================================================================
