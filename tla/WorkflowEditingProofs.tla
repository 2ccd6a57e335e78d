----------------------- MODULE WorkflowEditingProofs -----------------------
(***************************************************************************)
(* What several users of one workflow may rely on, for any users,          *)
(* definitions and bounds: the version a user was told of is stored under  *)
(* its number, a run is not older than its request, a page shows what its  *)
(* user has saved, and no fetch takes a draft away for nothing.            *)
(***************************************************************************)
EXTENDS WorkflowEditing, TLAPS

Steps == {"IDLE", "SENT", "READ", "STORED", "ANSWERED", "REFUSED", "REFETCHING"}
CallType == [step: Steps, arg: Definitions, at: Nat, here: BOOLEAN]
FetchType == [step: {"IDLE", "SENT", "READ"}, read: Nat]
PageType == [open: BOOLEAN, data: Nat, draft: Definitions, editing: BOOLEAN,
             preview: Nat, failed: BOOLEAN]

TypeInv ==
  /\ page \in [Clients -> PageType]
  /\ fetch \in [Clients -> FetchType]
  /\ call \in [Clients -> [Kinds -> CallType]]

\* Numbers without a gap, under a unique index, although they are read and
\* inserted in two statements.
History ==
  /\ Current \in Nat /\ DOMAIN versions = 1..Current
  /\ versions \in [1..Current -> Definitions]

\* Nobody has read a version that is not there, and a fetch does not bring an
\* older one than the page has.
KnownPage(p) == /\ p.data <= Current /\ p.preview <= p.data
                /\ p.editing => p.open
                /\ p.open => Current >= 1
KnownFetch(f, p) == /\ f.step # "IDLE" => Current >= 1
                    /\ f.step = "READ" => /\ p.data <= f.read /\ f.read <= Current
                                          /\ 1 <= f.read
KnownCall(v, k) == /\ v.at <= Current
                   /\ k = "CREATE" /\ v.step \in {"STORED", "ANSWERED"} => Current >= 1

\* A page that waits for its own version has asked for it since it was stored.
Waits(v, f, p) ==
  /\ v.here => p.open
  /\ v.here /\ v.step = "REFETCHING" =>
       /\ f.step = "READ" => v.at <= f.read
       /\ f.step = "IDLE" => p.failed \/ v.at <= p.data

Inv ==
  /\ TypeInv /\ History
  /\ \A c \in Clients : /\ KnownPage(page[c]) /\ KnownFetch(fetch[c], page[c])
                        /\ \A k \in Kinds : KnownCall(call[c][k], k)
                        /\ \A k \in NewVersion : Waits(call[c][k], fetch[c], page[c])
  /\ ConfirmedIsStored

----------------------------------------------------------------------------
LEMMA MaxIsLast ==
  ASSUME NEW n \in Nat
  PROVE  Max(1..n \cup {0}) = n
  <1>1. n \in 1..n \cup {0} /\ \A y \in 1..n \cup {0} : n >= y
    OBVIOUS
  <1>2. \A x \in 1..n \cup {0} : (\A y \in 1..n \cup {0} : x >= y) => x = n
    OBVIOUS
  <1> QED
    BY <1>1, <1>2 DEF Max

LEMMA CurrentIsLast ==
  /\ \A n \in Nat : DOMAIN versions = 1..n => Current = n
  /\ \A n \in Nat : DOMAIN versions' = 1..n => Current' = n
  BY MaxIsLast DEF Current

LEMMA NoCallType == NoCall \in CallType /\ NoFetch \in FetchType /\ Closed \in PageType
  BY EditingAssumption DEF NoCall, NoFetch, Closed, CallType, FetchType, PageType, Steps

\* SetCall changes one call.
LEMMA CallIsSet ==
  ASSUME TypeInv, NEW c \in Clients, NEW k \in Kinds, NEW v \in CallType, SetCall(c, k, v)
  PROVE  /\ call' \in [Clients -> [Kinds -> CallType]]
         /\ \A e \in Clients, l \in Kinds :
              call'[e][l] = IF e = c /\ l = k THEN v ELSE call[e][l]
  BY DEF TypeInv, SetCall

LEMMA StepIsSet ==
  ASSUME TypeInv, NEW c \in Clients, NEW k \in Kinds, NEW s \in Steps, Step(c, k, s)
  PROVE  \E v \in CallType :
           /\ v = [call[c][k] EXCEPT !.step = s] /\ SetCall(c, k, v)
           /\ v.step = s /\ v.arg = call[c][k].arg /\ v.at = call[c][k].at
           /\ v.here = call[c][k].here
  <1>1. call[c][k] \in CallType
    BY DEF TypeInv
  <1>2. PICK v : v = [call[c][k] EXCEPT !.step = s]
    OBVIOUS
  <1>3. /\ v \in CallType
        /\ v.step = s /\ v.arg = call[c][k].arg /\ v.at = call[c][k].at
        /\ v.here = call[c][k].here
    BY <1>1, <1>2 DEF CallType
  <1>4. SetCall(c, k, v)
    BY <1>2 DEF Step
  <1> QED
    BY <1>2, <1>3, <1>4

\* A call that moves on and is not confirmed by this.
LEMMA CallMoves ==
  ASSUME Inv, UNCHANGED <<versions, page, fetch>>,
         NEW c \in Clients, NEW k \in Kinds, NEW v \in CallType, SetCall(c, k, v),
         KnownCall(v, k), k \in NewVersion => Waits(v, fetch[c], page[c]),
         k \in NewVersion => v.step \notin {"ANSWERED", "REFETCHING"}
  PROVE  Inv'
  <1>1. /\ call' \in [Clients -> [Kinds -> CallType]]
        /\ \A e \in Clients, l \in Kinds :
             call'[e][l] = IF e = c /\ l = k THEN v ELSE call[e][l]
    BY CallIsSet DEF Inv
  <1>2. TypeInv' /\ History' /\ Current' = Current
    BY <1>1 DEF Inv, TypeInv, History, Current
  <1>3. ASSUME NEW e \in Clients
        PROVE  /\ KnownPage(page[e])' /\ KnownFetch(fetch[e], page[e])'
               /\ \A l \in Kinds : KnownCall(call[e][l], l)'
               /\ \A l \in NewVersion : Waits(call[e][l], fetch[e], page[e])'
    BY <1>1, <1>2 DEF Inv, KnownPage, KnownFetch, KnownCall, Waits, NewVersion, Kinds
  <1>4. ConfirmedIsStored'
    BY <1>1 DEF Inv, ConfirmedIsStored, Confirmed, Taken, NewVersion, Kinds
  <1> QED
    BY <1>2, <1>3, <1>4 DEF Inv

\* A version is inserted behind the last one.
LEMMA InsertMoves ==
  ASSUME Inv, UNCHANGED <<page, fetch>>, NEW d \in Definitions, Insert(Current + 1, d),
         NEW c \in Clients, NEW k \in Kinds, NEW v \in CallType, SetCall(c, k, v),
         v.step \in {"STORED", "ANSWERED"}, v.at <= Current + 1,
         k \in NewVersion => /\ v.arg = d /\ v.at = Current + 1
                             /\ Waits(v, fetch[c], page[c])
  PROVE  Inv'
  <1> DEFINE n == Current + 1
  <1>1. /\ call' \in [Clients -> [Kinds -> CallType]]
        /\ \A e \in Clients, l \in Kinds :
             call'[e][l] = IF e = c /\ l = k THEN v ELSE call[e][l]
    BY CallIsSet DEF Inv
  <1>2. /\ Current \in Nat /\ DOMAIN versions = 1..Current
        /\ versions \in [1..Current -> Definitions]
    BY DEF Inv, History
  <1>3. DOMAIN versions \cup {n} = 1..n /\ n \in Nat
    BY <1>2
  <1>4. versions' = [i \in 1..n |-> IF i = n THEN d ELSE versions[i]]
    BY <1>3 DEF Insert
  <1>5. /\ DOMAIN versions' = 1..n /\ versions' \in [1..n -> Definitions]
        /\ versions'[n] = d /\ \A i \in 1..Current : versions'[i] = versions[i]
    BY <1>2, <1>4
  <1>6. Current' = n
    BY <1>3, <1>5, CurrentIsLast
  <1>7. TypeInv' /\ History'
    BY <1>1, <1>3, <1>5, <1>6 DEF Inv, TypeInv, History
  <1>8. ASSUME NEW e \in Clients
        PROVE  /\ KnownPage(page[e])' /\ KnownFetch(fetch[e], page[e])'
               /\ \A l \in Kinds : KnownCall(call[e][l], l)'
               /\ \A l \in NewVersion : Waits(call[e][l], fetch[e], page[e])'
    <2>1. page[e] \in PageType /\ fetch[e] \in FetchType /\ \A l \in Kinds : call[e][l] \in CallType
      BY DEF Inv, TypeInv
    <2>2. KnownPage(page[e])' /\ KnownFetch(fetch[e], page[e])'
      BY <1>2, <1>6, <2>1 DEF Inv, KnownPage, KnownFetch, PageType, FetchType
    <2>3. ASSUME NEW l \in Kinds PROVE KnownCall(call[e][l], l)'
      <3>1. KnownCall(call[e][l], l) /\ call[e][l] \in CallType
        BY <2>1 DEF Inv
      <3>2. call'[e][l].at <= n
        BY <1>1, <1>2, <3>1 DEF KnownCall, CallType
      <3> QED
        BY <1>2, <1>6, <3>2 DEF KnownCall
    <2>4. \A l \in NewVersion : Waits(call[e][l], fetch[e], page[e])'
      BY <1>1 DEF Inv, Waits, NewVersion, Kinds
    <2> QED
      BY <2>2, <2>3, <2>4
  <1>9. ConfirmedIsStored'
    <2>1. ASSUME NEW e \in Clients, NEW l \in NewVersion,
                 call[e][l].step \in {"ANSWERED", "REFETCHING"}
          PROVE  call[e][l].at \in 1..Current /\ versions[call[e][l].at] = call[e][l].arg
      <3>1. <<e, l>> \in Confirmed
        BY <2>1 DEF Confirmed
      <3> QED
        BY <1>2, <3>1 DEF Inv, ConfirmedIsStored, Taken
    <2>2. ASSUME NEW p \in Confirmed'
          PROVE  /\ p[1] \in Clients /\ p[2] \in NewVersion /\ p = <<p[1], p[2]>>
                 /\ \/ p[1] = c /\ p[2] = k /\ call'[p[1]][p[2]].at = n
                       /\ call'[p[1]][p[2]].arg = d
                    \/ /\ p \in Confirmed /\ call'[p[1]][p[2]] = call[p[1]][p[2]]
                       /\ call[p[1]][p[2]].at \in 1..Current
                       /\ versions[call[p[1]][p[2]].at] = call[p[1]][p[2]].arg
      BY <1>1, <2>1 DEF Confirmed, NewVersion, Kinds
    <2>3. \A p \in Confirmed' : LET u == call'[p[1]][p[2]] IN
            u.at \in 1..n /\ versions'[u.at] = u.arg
      BY <1>2, <1>3, <1>5, <2>2
    <2>4. \A p, q \in Confirmed' : p # q => call'[p[1]][p[2]].at # call'[q[1]][q[2]].at
      <3>1. n \notin 1..Current
        BY <1>2
      <3> QED
        BY <2>2, <3>1 DEF Inv, ConfirmedIsStored
    <2> QED
      BY <1>5, <2>3, <2>4 DEF ConfirmedIsStored, Taken
  <1> QED
    BY <1>7, <1>8, <1>9 DEF Inv

LEMMA ApiMoves ==
  ASSUME Inv, NEW c \in Clients, Api(c)
  PROVE  Inv'
  <1>0. /\ \A k \in Kinds : call[c][k] \in CallType /\ KnownCall(call[c][k], k)
        /\ \A k \in NewVersion : Waits(call[c][k], fetch[c], page[c]) /\ k \in Kinds
        /\ Current \in Nat /\ DOMAIN versions = 1..Current
    BY DEF Inv, TypeInv, History, NewVersion, Kinds
  \* A call that takes a step without a version.
  <1>1. ASSUME NEW k \in Kinds, NEW s \in Steps, UNCHANGED <<versions, page, fetch>>,
               Step(c, k, s), s \notin {"ANSWERED", "REFETCHING"} \/ k \notin NewVersion,
               k = "CREATE" /\ s \in {"STORED", "ANSWERED"} => Current >= 1
        PROVE  Inv'
    <2>1. PICK v \in CallType :
            /\ SetCall(c, k, v) /\ v.step = s /\ v.at = call[c][k].at /\ v.here = call[c][k].here
      BY <1>1, StepIsSet DEF Inv
    <2>2. KnownCall(v, k) /\ (k \in NewVersion => Waits(v, fetch[c], page[c]))
      BY <1>0, <1>1, <2>1 DEF KnownCall, Waits
    <2> QED
      BY <1>1, <2>1, <2>2, CallMoves
  <1>2. CASE CreateWorkflow(c)
    <2>1. CASE Taken(1)
      BY <1>1, <1>2, <2>1 DEF CreateWorkflow, Steps, Kinds
    <2>2. CASE ~Taken(1)
      <3>1. Current = 0 /\ "CREATE" \in Kinds /\ "CREATE" \notin NewVersion
        BY <1>0, <2>2 DEF Taken, Kinds, NewVersion
      <3>2. Step(c, "CREATE", "STORED") /\ Insert(1, Default) /\ UNCHANGED <<page, fetch>>
        BY <1>2, <2>2 DEF CreateWorkflow
      <3>3. PICK v \in CallType : /\ SetCall(c, "CREATE", v) /\ v.step = "STORED"
                                  /\ v.at = call[c]["CREATE"].at
        BY <3>1, <3>2, StepIsSet DEF Inv, Steps
      <3>4. v.at <= Current + 1
        BY <1>0, <3>1, <3>3 DEF KnownCall, CallType
      <3> QED
        BY <3>1, <3>2, <3>3, <3>4, InsertMoves, EditingAssumption
    <2> QED
      BY <2>1, <2>2
  <1>3. ASSUME NEW k \in Kinds, ReadCurrent(c, k) PROVE Inv'
    <2> DEFINE v == [call[c][k] EXCEPT !.step = "READ", !.at = CurrentVersion(c)]
    <2>1. /\ v \in CallType /\ v.step = "READ" /\ v.at = Current /\ v.here = call[c][k].here
      BY <1>0 DEF CallType, Steps, CurrentVersion
    <2>2. SetCall(c, k, v) /\ UNCHANGED <<versions, page, fetch>>
      BY <1>3 DEF ReadCurrent
    <2> HIDE DEF v
    <2>3. KnownCall(v, k) /\ (k \in NewVersion => Waits(v, fetch[c], page[c]))
      BY <1>0, <2>1 DEF KnownCall, Waits
    <2> QED
      BY <2>1, <2>2, <2>3, CallMoves
  <1>4. ASSUME NEW k \in Kinds, InsertVersion(c, k) PROVE Inv'
    <2> DEFINE n == NextVersion(call[c][k].at)
    <2>1. CASE Taken(n)
      BY <1>1, <1>4, <2>1 DEF InsertVersion, Steps
    <2>2. CASE ~Taken(n)
      <3>1. n = Current + 1 /\ n \in Nat
        BY <1>0, <2>2 DEF Taken, NextVersion, KnownCall, CallType
      <3>2. call[c][k] \in CallType
        BY <1>0
      <3> DEFINE v == [call[c][k] EXCEPT !.step = "ANSWERED", !.at = n]
      <3>3. /\ v \in CallType /\ v.step = "ANSWERED" /\ v.at = Current + 1
            /\ v.arg = call[c][k].arg /\ v.here = call[c][k].here /\ v.arg \in Definitions
        <4> HIDE DEF n
        <4> QED
          BY <3>1, <3>2 DEF CallType, Steps
      <3>4. /\ SetCall(c, k, v) /\ Insert(Current + 1, v.arg) /\ UNCHANGED <<page, fetch>>
        BY <1>4, <2>2, <3>1, <3>3 DEF InsertVersion
      <3> HIDE DEF v
      <3>5. k \in NewVersion => Waits(v, fetch[c], page[c])
        BY <1>0, <3>3 DEF Waits
      <3> QED
        BY <3>3, <3>4, <3>5, <1>0, InsertMoves
    <2> QED
      BY <2>1, <2>2
  <1>5. CASE StoreExecution(c)
    BY <1>1, <1>5 DEF StoreExecution, Steps, Kinds, NewVersion
  <1>6. ASSUME NEW k \in Kinds, Publish(c, k) PROVE Inv'
    BY <1>0, <1>1, <1>6 DEF Publish, Steps, NewVersion, KnownCall
  <1>7. CASE UpdateMetadata(c)
    BY <1>1, <1>7 DEF UpdateMetadata, Steps, Kinds, NewVersion
  <1>8. ASSUME NEW k \in Kinds, CallFails(c, k) PROVE Inv'
    BY <1>1, <1>8 DEF CallFails, Steps
  <1> QED
    BY <1>2, <1>3, <1>4, <1>5, <1>6, <1>7, <1>8 DEF Api

----------------------------------------------------------------------------
\* A call that is confirmed was so before, of the same version.
Follows(v, old) ==
  v.step \in {"ANSWERED", "REFETCHING"} =>
    old.step \in {"ANSWERED", "REFETCHING"} /\ v.at = old.at /\ v.arg = old.arg

\* The page, its cache and its calls move together, and no version is made.
LEMMA ClientMoves ==
  ASSUME Inv, UNCHANGED versions, NEW c \in Clients,
         NEW p \in PageType, NEW f \in FetchType, NEW m \in [Kinds -> CallType],
         page' = [page EXCEPT ![c] = p], fetch' = [fetch EXCEPT ![c] = f],
         call' = [call EXCEPT ![c] = m],
         KnownPage(p), KnownFetch(f, p),
         \A k \in Kinds : KnownCall(m[k], k),
         \A k \in NewVersion : Waits(m[k], f, p) /\ Follows(m[k], call[c][k])
  PROVE  Inv'
  <1>1. \A e \in Clients : /\ page'[e] = IF e = c THEN p ELSE page[e]
                           /\ fetch'[e] = IF e = c THEN f ELSE fetch[e]
                           /\ call'[e] = IF e = c THEN m ELSE call[e]
    BY DEF Inv, TypeInv
  <1>2. TypeInv'
    BY DEF Inv, TypeInv
  <1>3. History' /\ Current' = Current
    BY DEF Inv, History, Current
  <1>4. ASSUME NEW e \in Clients
        PROVE  /\ KnownPage(page[e])' /\ KnownFetch(fetch[e], page[e])'
               /\ \A k \in Kinds : KnownCall(call[e][k], k)'
               /\ \A k \in NewVersion : Waits(call[e][k], fetch[e], page[e])'
    BY <1>1, <1>3 DEF Inv, KnownPage, KnownFetch, KnownCall, Waits
  <1>5. ConfirmedIsStored'
    <2>1. ASSUME NEW q \in Confirmed'
          PROVE  /\ q \in Confirmed /\ call'[q[1]][q[2]].at = call[q[1]][q[2]].at
                 /\ call'[q[1]][q[2]].arg = call[q[1]][q[2]].arg
      BY <1>1 DEF Confirmed, Follows
    <2> QED
      BY <2>1 DEF Inv, ConfirmedIsStored, Taken
  <1> QED
    BY <1>2, <1>3, <1>4, <1>5 DEF Inv

\* The calls stay.
LEMMA PageMoves ==
  ASSUME Inv, UNCHANGED <<versions, call>>, NEW c \in Clients,
         NEW p \in PageType, NEW f \in FetchType,
         page' = [page EXCEPT ![c] = p], fetch' = [fetch EXCEPT ![c] = f],
         KnownPage(p), KnownFetch(f, p),
         \A k \in NewVersion : Waits(call[c][k], f, p)
  PROVE  Inv'
  <1>1. /\ call[c] \in [Kinds -> CallType] /\ call' = [call EXCEPT ![c] = call[c]]
        /\ \A k \in Kinds : KnownCall(call[c][k], k)
    BY DEF Inv, TypeInv
  <1>2. \A k \in NewVersion : Follows(call[c][k], call[c][k])
    BY DEF Follows
  <1> QED
    BY <1>1, <1>2, ClientMoves

\* What is known of one client before a step.
LEMMA ClientKnown ==
  ASSUME Inv, NEW c \in Clients
  PROVE  /\ page[c] \in PageType /\ fetch[c] \in FetchType
         /\ call[c] \in [Kinds -> CallType] /\ NewVersion \subseteq Kinds
         /\ KnownPage(page[c]) /\ KnownFetch(fetch[c], page[c])
         /\ \A k \in Kinds : KnownCall(call[c][k], k) /\ call[c][k] \in CallType
         /\ \A k \in NewVersion : Waits(call[c][k], fetch[c], page[c])
         /\ Current \in Nat /\ DOMAIN versions = 1..Current
         /\ versions \in [1..Current -> Definitions]
         /\ page = [page EXCEPT ![c] = page[c]] /\ fetch = [fetch EXCEPT ![c] = fetch[c]]
         /\ call = [call EXCEPT ![c] = call[c]]
  BY DEF Inv, TypeInv, History, NewVersion, Kinds

\* A fetch starts: whatever it answers is read from now on.
Sent == [step |-> "SENT", read |-> 0]

LEMMA RefetchFits ==
  ASSUME Inv, NEW c \in Clients, Current >= 1
  PROVE  /\ Sent \in FetchType /\ KnownFetch(Sent, page[c])
         /\ \A v \in CallType : (v.here => page[c].open) => Waits(v, Sent, page[c])
         /\ Refetched(c) => fetch' = [fetch EXCEPT ![c] = Sent]
  BY DEF Sent, FetchType, KnownFetch, Waits, Refetched

LEMMA CacheMoves ==
  ASSUME Inv, NEW c \in Clients, Cache(c)
  PROVE  Inv'
  <1>1. CASE Refetch(c)
    <2>1. Current >= 1 /\ Refetched(c) /\ UNCHANGED <<versions, page, call>>
      BY <1>1, ClientKnown DEF Refetch, KnownPage
    <2>2. \A k \in NewVersion : Waits(call[c][k], Sent, page[c])
      BY <2>1, RefetchFits, ClientKnown DEF Waits
    <2> QED
      BY <2>1, <2>2, ClientKnown, RefetchFits, PageMoves
  <1>2. CASE ReadWorkflow(c)
    <2> DEFINE f == [step |-> "READ", read |-> Current]
    <2>1. /\ fetch' = [fetch EXCEPT ![c] = f] /\ UNCHANGED <<versions, page, call>>
          /\ fetch[c].step = "SENT"
      BY <1>2 DEF ReadWorkflow
    <2>2. f \in FetchType /\ f.step = "READ" /\ f.read = Current
      BY ClientKnown DEF FetchType
    <2> HIDE DEF f
    <2>3. KnownFetch(f, page[c])
      BY <2>1, <2>2, ClientKnown DEF KnownFetch, KnownPage
    <2>4. \A k \in NewVersion : Waits(call[c][k], f, page[c])
      BY <2>2, ClientKnown DEF Waits, KnownCall
    <2> QED
      BY <2>1, <2>2, <2>3, <2>4, ClientKnown, PageMoves
  <1>3. CASE Deliver(c)
    <2> DEFINE read == fetch[c].read
               p == IF page[c].open /\ DraftReset(page[c], read)
                      THEN [page[c] EXCEPT !.data = read, !.failed = FALSE,
                                           !.draft = versions[read], !.preview = 0]
                      ELSE [page[c] EXCEPT !.data = read, !.failed = FALSE]
    <2>1. /\ page' = [page EXCEPT ![c] = p] /\ fetch' = [fetch EXCEPT ![c] = NoFetch]
          /\ UNCHANGED <<versions, call>> /\ fetch[c].step = "READ"
      BY <1>3 DEF Deliver
    <2>2. /\ read \in 1..Current /\ read \in Nat /\ page[c].data <= read
          /\ versions[read] \in Definitions
      BY <2>1, ClientKnown DEF KnownFetch, FetchType
    <2>3. /\ p \in PageType /\ p.data = read /\ p.open = page[c].open
          /\ p.editing = page[c].editing /\ p.preview \in {0, page[c].preview}
      BY <2>2, ClientKnown DEF PageType
    <2> HIDE DEF p
    <2>4. KnownPage(p)
      BY <2>2, <2>3, ClientKnown DEF KnownPage, PageType
    <2>5. KnownFetch(NoFetch, p)
      BY DEF KnownFetch, NoFetch
    <2>6. \A k \in NewVersion : Waits(call[c][k], NoFetch, p)
      BY <2>1, <2>2, <2>3, ClientKnown DEF Waits, NoFetch
    <2> QED
      BY <2>1, <2>3, <2>4, <2>5, <2>6, NoCallType, PageMoves
  <1>4. CASE FetchFails(c)
    <2> DEFINE p == [page[c] EXCEPT !.failed = TRUE]
    <2>1. /\ page' = [page EXCEPT ![c] = p] /\ fetch' = [fetch EXCEPT ![c] = NoFetch]
          /\ UNCHANGED <<versions, call>>
      BY <1>4 DEF FetchFails, Inv, TypeInv
    <2>2. /\ p \in PageType /\ p.data = page[c].data /\ p.open = page[c].open
          /\ p.editing = page[c].editing /\ p.preview = page[c].preview /\ p.failed
      BY ClientKnown DEF PageType
    <2> HIDE DEF p
    <2>3. /\ KnownPage(p) /\ KnownFetch(NoFetch, p)
          /\ \A k \in NewVersion : Waits(call[c][k], NoFetch, p)
      BY <2>2, ClientKnown DEF KnownPage, KnownFetch, Waits, NoFetch
    <2> QED
      BY <2>1, <2>2, <2>3, NoCallType, PageMoves
  <1> QED
    BY <1>1, <1>2, <1>3, <1>4 DEF Cache

----------------------------------------------------------------------------
\* A page is opened while no call of it is waited for.
LEMMA OpenedFits ==
  ASSUME Inv, NEW c \in Clients, ~page[c].open, Current >= 1, Opened(c)
  PROVE  \E p \in PageType, f \in FetchType :
           /\ page' = [page EXCEPT ![c] = p] /\ fetch' = [fetch EXCEPT ![c] = f]
           /\ KnownPage(p) /\ KnownFetch(f, p)
           /\ \A k \in NewVersion : ~call[c][k].here /\ Waits(call[c][k], f, p)
  <1> DEFINE draft == IF page[c].data > 0 THEN Shown(c) ELSE Default
             p == [Closed EXCEPT !.open = TRUE, !.data = page[c].data,
                                 !.failed = page[c].failed, !.draft = draft]
  <1>1. draft \in Definitions
    BY ClientKnown, EditingAssumption DEF Shown, KnownPage, PageType
  <1> HIDE DEF draft
  <1>2. /\ p \in PageType /\ p.open /\ p.data = page[c].data /\ p.preview = 0
        /\ page' = [page EXCEPT ![c] = p]
    BY <1>1, ClientKnown DEF PageType, Closed, Opened, draft
  <1> HIDE DEF p
  <1>3. KnownPage(p)
    BY <1>2, ClientKnown DEF KnownPage, PageType
  <1>4. \A k \in NewVersion : ~call[c][k].here
    BY ClientKnown DEF Waits
  <1>5. \A f \in FetchType, k \in NewVersion : Waits(call[c][k], f, p)
    BY <1>4 DEF Waits
  <1>6. CASE Refetched(c)
    BY <1>2, <1>3, <1>4, <1>5, <1>6, RefetchFits DEF KnownFetch, Sent
  <1>7. CASE UNCHANGED fetch
    BY <1>2, <1>3, <1>4, <1>5, <1>7, ClientKnown DEF KnownFetch
  <1> QED
    BY <1>6, <1>7 DEF Opened

\* A call whose page is left.
Released(v, old) ==
  /\ ~v.here
  /\ v = NoCall \/ /\ v.step = old.step /\ v.at = old.at /\ v.arg = old.arg

\* A page is left: nothing is waited for any more.
LEMMA LeftFits ==
  ASSUME Inv, NEW c \in Clients, Left(c), UNCHANGED <<versions, fetch>>,
         NEW m \in [Kinds -> CallType], call' = [call EXCEPT ![c] = m],
         \A k \in Kinds : Released(m[k], call[c][k])
  PROVE  Inv' /\ ~page'[c].open
  <1> DEFINE p == [Closed EXCEPT !.data = page[c].data, !.failed = page[c].failed]
  <1>1. /\ p \in PageType /\ ~p.open /\ ~p.editing /\ p.data = page[c].data /\ p.preview = 0
        /\ page' = [page EXCEPT ![c] = p]
    BY ClientKnown, EditingAssumption DEF PageType, Closed, Left
  <1> HIDE DEF p
  <1>2. KnownPage(p) /\ KnownFetch(fetch[c], p)
    BY <1>1, ClientKnown DEF KnownPage, KnownFetch, PageType
  <1>3. \A k \in Kinds : KnownCall(m[k], k)
    BY ClientKnown DEF KnownCall, NoCall, Released
  <1>4. \A k \in NewVersion : Waits(m[k], fetch[c], p) /\ Follows(m[k], call[c][k])
    BY ClientKnown DEF Waits, Follows, NoCall, Released
  <1>5. ~page'[c].open
    BY <1>1 DEF Inv, TypeInv
  <1>6. fetch' = [fetch EXCEPT ![c] = fetch[c]] /\ fetch[c] \in FetchType
    BY ClientKnown
  <1>7. Inv'
    BY <1>1, <1>2, <1>3, <1>4, <1>6, ClientMoves
  <1> QED
    BY <1>5, <1>7

\* The user changes what the page shows, not what it holds.
LEMMA DraftMoves ==
  ASSUME Inv, UNCHANGED <<versions, fetch, call>>, NEW c \in Clients, page[c].open,
         NEW p \in PageType, page' = [page EXCEPT ![c] = p],
         p.open, p.data = page[c].data, p.failed = page[c].failed, p.preview <= p.data
  PROVE  Inv'
  <1>1. KnownPage(p) /\ KnownFetch(fetch[c], p)
        /\ \A k \in NewVersion : Waits(call[c][k], fetch[c], p)
    BY ClientKnown DEF KnownPage, KnownFetch, Waits
  <1> QED
    BY <1>1, ClientKnown, PageMoves

LEMMA ClickMoves ==
  ASSUME Inv, NEW c \in Clients, NEW k \in Kinds, NEW arg \in Definitions, Click(c, k, arg),
         k \in NewVersion => page[c].open
  PROVE  Inv'
  <1> DEFINE v == [step |-> "SENT", arg |-> arg, at |-> Current, here |-> TRUE]
  <1>1. /\ v \in CallType /\ v.step = "SENT" /\ v.at = Current
        /\ SetCall(c, k, v) /\ UNCHANGED <<versions, page, fetch>>
    BY ClientKnown DEF CallType, Steps, Click
  <1> HIDE DEF v
  <1>2. KnownCall(v, k) /\ (k \in NewVersion => Waits(v, fetch[c], page[c]))
    BY <1>1, ClientKnown DEF KnownCall, Waits
  <1> QED
    BY <1>1, <1>2, CallMoves

LEMMA UserMoves ==
  ASSUME Inv, NEW c \in Clients, User(c)
  PROVE  Inv'
  <1>0. /\ page[c] \in PageType /\ KnownPage(page[c]) /\ page \in [Clients -> PageType]
        /\ page[c].data \in Nat /\ Current \in Nat
        /\ Usable(c) => /\ page[c].open /\ page[c].data \in 1..Current
                        /\ Shown(c) \in Definitions
    BY ClientKnown DEF Inv, TypeInv, Usable, Shown, KnownPage, PageType
  <1>1. CASE OpenPage(c)
    <2>1. Opened(c) /\ ~page[c].open /\ Current >= 1 /\ UNCHANGED <<versions, call>>
      BY <1>1, ClientKnown DEF OpenPage, Taken
    <2> QED
      BY <2>1, OpenedFits, PageMoves
  <1>2. CASE LeavePage(c)
    <2> DEFINE m == [k \in Kinds |-> [call[c][k] EXCEPT !.here = FALSE]]
    <2>1. /\ Left(c) /\ UNCHANGED <<versions, fetch>> /\ call' = [call EXCEPT ![c] = m]
      BY <1>2 DEF LeavePage
    <2>2. \A v \in CallType :
            LET u == [v EXCEPT !.here = FALSE]
            IN  /\ u \in CallType /\ ~u.here
                /\ u.step = v.step /\ u.at = v.at /\ u.arg = v.arg
      BY DEF CallType
    <2>3. /\ m \in [Kinds -> CallType]
          /\ \A k \in Kinds : /\ ~m[k].here /\ m[k].step = call[c][k].step
                              /\ m[k].at = call[c][k].at /\ m[k].arg = call[c][k].arg
      BY <2>2, ClientKnown
    <2> HIDE DEF m
    <2>4. \A k \in Kinds : Released(m[k], call[c][k])
      BY <2>3 DEF Released
    <2> QED
      BY <2>1, <2>3, <2>4, LeftFits
  <1>3. CASE StartEditing(c)
    <2> DEFINE p == [page[c] EXCEPT !.editing = TRUE]
    <2>1. page' = [page EXCEPT ![c] = p] /\ UNCHANGED <<versions, fetch, call>> /\ Usable(c)
      BY <1>0, <1>3 DEF StartEditing
    <2>2. /\ p \in PageType /\ p.open = page[c].open /\ p.data = page[c].data
          /\ p.failed = page[c].failed /\ p.preview = page[c].preview
      BY <1>0 DEF PageType
    <2> HIDE DEF p
    <2> QED
      BY <1>0, <2>1, <2>2, DraftMoves DEF KnownPage
  <1>4. CASE ChangeDraft(c)
    <2>1. PICK d \in Definitions : page' = [page EXCEPT ![c].draft = d]
      BY <1>4 DEF ChangeDraft
    <2> DEFINE p == [page[c] EXCEPT !.draft = d]
    <2>2. page' = [page EXCEPT ![c] = p] /\ UNCHANGED <<versions, fetch, call>> /\ Usable(c)
      BY <1>0, <1>4, <2>1 DEF ChangeDraft
    <2>3. /\ p \in PageType /\ p.open = page[c].open /\ p.data = page[c].data
          /\ p.failed = page[c].failed /\ p.preview = page[c].preview
      BY <1>0 DEF PageType
    <2> HIDE DEF p
    <2> QED
      BY <1>0, <2>2, <2>3, DraftMoves DEF KnownPage
  <1>5. CASE DiscardDraft(c)
    <2> DEFINE p == [page[c] EXCEPT !.draft = Shown(c), !.editing = FALSE, !.preview = 0]
    <2>1. page' = [page EXCEPT ![c] = p] /\ UNCHANGED <<versions, fetch, call>> /\ Usable(c)
      BY <1>0, <1>5 DEF DiscardDraft
    <2>2. /\ p \in PageType /\ p.open = page[c].open /\ p.data = page[c].data
          /\ p.failed = page[c].failed /\ p.preview = 0
      BY <1>0, <2>1 DEF PageType
    <2> HIDE DEF p
    <2>3. p.preview <= p.data
      BY <1>0, <2>2
    <2> QED
      BY <1>0, <2>1, <2>2, <2>3, DraftMoves
  <1>6. CASE PreviewVersion(c)
    <2>1. PICK n \in 0..page[c].data : page' = [page EXCEPT ![c].preview = n]
      BY <1>6 DEF PreviewVersion
    <2> DEFINE p == [page[c] EXCEPT !.preview = n]
    <2>2. page' = [page EXCEPT ![c] = p] /\ UNCHANGED <<versions, fetch, call>> /\ Usable(c)
      BY <1>0, <1>6, <2>1 DEF PreviewVersion
    <2>3. /\ p \in PageType /\ p.open = page[c].open /\ p.data = page[c].data
          /\ p.failed = page[c].failed /\ p.preview <= p.data
      BY <1>0, <2>1 DEF PageType
    <2> HIDE DEF p
    <2> QED
      BY <1>0, <2>1, <2>2, <2>3, DraftMoves
  <1>7. CASE ClickCreate(c) \/ ClickMetadata(c) \/ ClickRun(c)
    BY <1>7, ClickMoves, EditingAssumption
       DEF ClickCreate, ClickMetadata, ClickRun, Kinds, NewVersion
  <1>8. CASE ClickSave(c)
    BY <1>0, <1>8, ClickMoves DEF ClickSave, Kinds, PageType
  <1>9. CASE ClickRestore(c)
    <2>1. Usable(c) /\ versions[page[c].preview] \in Definitions
      BY <1>0, <1>9, ClientKnown DEF ClickRestore, RestoreOffered, KnownPage, PageType
    <2> QED
      BY <1>0, <1>9, <2>1, ClickMoves DEF ClickRestore, Kinds
  <1> QED
    BY <1>1, <1>2, <1>3, <1>4, <1>5, <1>6, <1>7, <1>8, <1>9 DEF User

LEMMA AnswersMove ==
  ASSUME Inv, NEW c \in Clients, Answers(c)
  PROVE  Inv'
  \* The call k of c is over, or waits; the others stay.
  <1>0. ASSUME NEW k \in Kinds, NEW v \in CallType, SetCall(c, k, v)
        PROVE  \E m \in [Kinds -> CallType] :
                 /\ call' = [call EXCEPT ![c] = m]
                 /\ \A l \in Kinds : m[l] = IF l = k THEN v ELSE call[c][l]
    <2> DEFINE m == [call[c] EXCEPT ![k] = v]
    <2>1. /\ m \in [Kinds -> CallType] /\ call' = [call EXCEPT ![c] = m]
          /\ \A l \in Kinds : m[l] = IF l = k THEN v ELSE call[c][l]
      BY <1>0, ClientKnown DEF SetCall, Inv, TypeInv
    <2> QED
      BY <2>1
  <1>1. CASE OnRun(c)
    <2> DEFINE m == [k \in Kinds |-> IF k = "RUN" THEN NoCall
                                                  ELSE [call[c][k] EXCEPT !.here = FALSE]]
    <2>1. Left(c) /\ UNCHANGED <<versions, fetch>> /\ call' = [call EXCEPT ![c] = m]
      BY <1>1 DEF OnRun
    <2>2. \A v \in CallType :
            LET u == [v EXCEPT !.here = FALSE]
            IN  /\ u \in CallType /\ ~u.here
                /\ u.step = v.step /\ u.at = v.at /\ u.arg = v.arg
      BY DEF CallType
    <2>3. m \in [Kinds -> CallType]
      BY <2>2, ClientKnown, NoCallType
    <2>4. ASSUME NEW k \in Kinds PROVE Released(m[k], call[c][k])
      BY <2>2, ClientKnown DEF NoCall, Released
    <2> HIDE DEF m
    <2> QED
      BY <2>1, <2>3, <2>4, LeftFits
  <1>2. CASE OnCreated(c)
    <2>1. SetCall(c, "CREATE", NoCall) /\ UNCHANGED versions /\ "CREATE" \in Kinds
          /\ "CREATE" \notin NewVersion /\ Current >= 1
      BY <1>2, ClientKnown DEF OnCreated, Kinds, NewVersion, KnownCall
    <2>2. PICK m \in [Kinds -> CallType] :
            /\ call' = [call EXCEPT ![c] = m]
            /\ \A l \in Kinds : m[l] = IF l = "CREATE" THEN NoCall ELSE call[c][l]
      BY <1>0, <2>1, NoCallType
    <2>3. /\ \A k \in Kinds : KnownCall(m[k], k)
          /\ \A k \in NewVersion : m[k] = call[c][k] /\ Follows(m[k], call[c][k])
      BY <2>1, <2>2, ClientKnown DEF KnownCall, NoCall, Follows
    <2>4. CASE page[c].open
      <3>1. UNCHANGED <<page, fetch>>
        BY <1>2, <2>4 DEF OnCreated
      <3>2. \A k \in NewVersion : Waits(m[k], fetch[c], page[c])
        BY <2>3, ClientKnown
      <3>3. page' = [page EXCEPT ![c] = page[c]] /\ fetch' = [fetch EXCEPT ![c] = fetch[c]]
        BY <3>1, ClientKnown
      <3> QED
        BY <2>1, <2>2, <2>3, <3>2, <3>3, ClientKnown, ClientMoves
    <2>5. CASE ~page[c].open
      <3>1. PICK p \in PageType, f \in FetchType :
              /\ page' = [page EXCEPT ![c] = p] /\ fetch' = [fetch EXCEPT ![c] = f]
              /\ KnownPage(p) /\ KnownFetch(f, p)
              /\ \A k \in NewVersion : Waits(call[c][k], f, p)
        BY <1>2, <2>1, <2>5, OpenedFits DEF OnCreated
      <3>2. \A k \in NewVersion : Waits(m[k], f, p)
        BY <2>3, <3>1
      <3> QED
        BY <2>1, <2>2, <2>3, <3>1, <3>2, ClientMoves
    <2> QED
      BY <2>4, <2>5
  <1>3. ASSUME NEW k \in Kinds, OnSuccess(c, k) PROVE Inv'
    <2>1. PICK v \in CallType :
            /\ SetCall(c, k, v) /\ v.step = "REFETCHING" /\ v.arg = call[c][k].arg
            /\ v.at = call[c][k].at /\ v.here = call[c][k].here
      BY <1>3, StepIsSet DEF OnSuccess, Steps, Inv
    <2>2. /\ call[c][k].step = "ANSWERED" /\ UNCHANGED <<versions, page>> /\ k # "CREATE"
          /\ page[c].open => Current >= 1
      BY <1>3, ClientKnown DEF OnSuccess, NewVersion, KnownPage
    <2>3. PICK m \in [Kinds -> CallType] :
            /\ call' = [call EXCEPT ![c] = m]
            /\ \A l \in Kinds : m[l] = IF l = k THEN v ELSE call[c][l]
      BY <1>0, <2>1
    <2>4. /\ \A l \in Kinds : KnownCall(m[l], l)
          /\ \A l \in NewVersion : /\ Follows(m[l], call[c][l]) /\ m[l] \in CallType
                                   /\ m[l].here => page[c].open
      BY <2>1, <2>2, <2>3, ClientKnown DEF KnownCall, Follows, Waits
    <2>5. page' = [page EXCEPT ![c] = page[c]]
      BY <2>2, ClientKnown
    <2>6. CASE page[c].open
      <3>1. fetch' = [fetch EXCEPT ![c] = Sent] /\ Sent \in FetchType /\ KnownFetch(Sent, page[c])
        BY <1>3, <2>2, <2>6, RefetchFits DEF OnSuccess, Invalidate
      <3>2. \A l \in NewVersion : Waits(m[l], Sent, page[c])
        BY <2>2, <2>4, <2>6, RefetchFits
      <3> QED
        BY <2>2, <2>3, <2>4, <2>5, <3>1, <3>2, ClientKnown, ClientMoves
    <2>7. CASE ~page[c].open
      <3>1. fetch' = [fetch EXCEPT ![c] = fetch[c]]
        BY <1>3, <2>7, ClientKnown DEF OnSuccess, Invalidate
      <3>2. \A l \in NewVersion : Waits(m[l], fetch[c], page[c])
        BY <2>4, <2>7 DEF Waits
      <3> QED
        BY <2>2, <2>3, <2>4, <2>5, <3>1, <3>2, ClientKnown, ClientMoves
    <2> QED
      BY <2>6, <2>7
  <1>4. ASSUME NEW k \in Kinds, AfterRefetch(c, k) PROVE Inv'
    <2> DEFINE p == IF call[c][k].here THEN Settled(page[c], k, call[c][k].arg) ELSE page[c]
    <2>1. /\ page' = [page EXCEPT ![c] = p] /\ SetCall(c, k, NoCall)
          /\ UNCHANGED <<versions, fetch>>
      BY <1>4 DEF AfterRefetch
    <2>2. /\ p \in PageType /\ p.open = page[c].open /\ p.data = page[c].data
          /\ p.failed = page[c].failed /\ p.preview \in {0, page[c].preview}
          /\ p.editing => page[c].editing
      BY ClientKnown DEF Settled, PageType, CallType
    <2> HIDE DEF p
    <2>3. PICK m \in [Kinds -> CallType] :
            /\ call' = [call EXCEPT ![c] = m]
            /\ \A l \in Kinds : m[l] = IF l = k THEN NoCall ELSE call[c][l]
      BY <1>0, <2>1, NoCallType
    <2>4. KnownPage(p) /\ KnownFetch(fetch[c], p)
      BY <2>2, ClientKnown DEF KnownPage, KnownFetch, PageType
    <2>5. /\ \A l \in Kinds : KnownCall(m[l], l)
          /\ \A l \in NewVersion : Waits(m[l], fetch[c], p) /\ Follows(m[l], call[c][l])
      BY <2>2, <2>3, ClientKnown DEF KnownCall, Follows, Waits, NoCall
    <2>6. fetch' = [fetch EXCEPT ![c] = fetch[c]] /\ fetch[c] \in FetchType
      BY <2>1, ClientKnown
    <2> QED
      BY <2>1, <2>2, <2>3, <2>4, <2>5, <2>6, ClientMoves
  <1>5. ASSUME NEW k \in Kinds, OnError(c, k) PROVE Inv'
    <2>1. SetCall(c, k, NoCall) /\ UNCHANGED <<versions, page, fetch>>
      BY <1>5 DEF OnError
    <2>2. /\ KnownCall(NoCall, k) /\ Waits(NoCall, fetch[c], page[c])
          /\ NoCall.step \notin {"ANSWERED", "REFETCHING"}
      BY ClientKnown DEF KnownCall, Waits, NoCall
    <2> QED
      BY <2>1, <2>2, NoCallType, CallMoves
  <1> QED
    BY <1>1, <1>2, <1>3, <1>4, <1>5 DEF Answers

----------------------------------------------------------------------------
LEMMA InitInv == Init => Inv
  <1> SUFFICES ASSUME Init PROVE Inv
    OBVIOUS
  <1>1. DOMAIN versions = 1..0 /\ Current = 0 /\ versions \in [1..0 -> Definitions]
    BY CurrentIsLast DEF Init
  <1>2. /\ page = [c \in Clients |-> Closed] /\ fetch = [c \in Clients |-> NoFetch]
        /\ call = [c \in Clients |-> [k \in Kinds |-> NoCall]]
    BY DEF Init
  <1>3. TypeInv /\ History
    BY <1>1, <1>2, NoCallType DEF TypeInv, History
  <1>4. ASSUME NEW c \in Clients
        PROVE  /\ KnownPage(page[c]) /\ KnownFetch(fetch[c], page[c])
               /\ \A k \in Kinds : KnownCall(call[c][k], k)
               /\ \A k \in NewVersion : Waits(call[c][k], fetch[c], page[c])
    BY <1>1, <1>2 DEF KnownPage, KnownFetch, KnownCall, Waits, Closed, NoFetch, NoCall,
                      NewVersion, Kinds
  <1>5. ConfirmedIsStored
    BY <1>2 DEF ConfirmedIsStored, Confirmed, NoCall, NewVersion, Kinds
  <1> QED
    BY <1>3, <1>4, <1>5 DEF Inv

LEMMA NextInv == Inv /\ [Next]_vars => Inv'
  <1>1. ASSUME Inv, UNCHANGED vars PROVE Inv'
    BY <1>1 DEF vars, Inv, TypeInv, History, KnownPage, KnownFetch, KnownCall, Waits,
                ConfirmedIsStored, Confirmed, Taken, Current
  <1> QED
    BY <1>1, ApiMoves, CacheMoves, UserMoves, AnswersMove DEF Next

LEMMA InvHolds == Spec => []Inv
  BY InitInv, NextInv, PTL DEF Spec

----------------------------------------------------------------------------
LEMMA StepShows ==
  ASSUME TypeInv, NEW c \in Clients, NEW k \in Kinds, NEW s \in Steps, Step(c, k, s),
         NEW d \in Clients, NEW l \in Kinds
  PROVE  call'[d][l].step \in {s, call[d][l].step}
  BY StepIsSet, CallIsSet

Moves(c) == Api(c) \/ Cache(c) \/ User(c) \/ Answers(c)

\* How a call is read, and how it comes to an end.
CallEnds(d, l) ==
  \/ call'[d][l].step = call[d][l].step
  \/ call'[d][l].step \notin {"READ", "IDLE"}
  \/ ReadCurrent(d, l)
  \/ call'[d][l].step = "IDLE" /\ l \notin NewVersion
  \/ call'[d][l].step = "IDLE" /\ call[d][l].step = "REFUSED"
  \/ AfterRefetch(d, l)

LEMMA CallSteps ==
  ASSUME Inv, NEW c \in Clients, Moves(c), NEW d \in Clients, NEW l \in Kinds
  PROVE  CallEnds(d, l)
  <1>0. /\ TypeInv /\ {"CREATE", "METADATA", "RUN"} \subseteq Kinds /\ NewVersion \subseteq Kinds
        /\ {"CREATE", "METADATA", "RUN"} \cap NewVersion = {}
    BY DEF Inv, Kinds, NewVersion
  \* A step that does not read the version.
  <1>1. ASSUME NEW k \in Kinds, NEW s \in Steps \ {"READ", "IDLE"}, Step(c, k, s)
        PROVE  CallEnds(d, l)
    BY <1>0, <1>1, StepShows DEF CallEnds
  \* A value that takes the place of a call.
  <1>2. ASSUME NEW k \in Kinds, NEW v \in CallType, SetCall(c, k, v)
        PROVE  call'[d][l] = IF d = c /\ l = k THEN v ELSE call[d][l]
    BY <1>0, <1>2, CallIsSet
  <1>3. ASSUME NEW k \in Kinds, SetCall(c, k, NoCall),
               \/ k \notin NewVersion
               \/ call[c][k].step = "REFUSED"
               \/ AfterRefetch(c, k)
        PROVE  CallEnds(d, l)
    <2>1. call'[d][l] = IF d = c /\ l = k THEN NoCall ELSE call[d][l]
      BY <1>2, <1>3, NoCallType
    <2> QED
      BY <1>3, <2>1 DEF CallEnds, NoCall
  <1>4. ASSUME UNCHANGED call PROVE CallEnds(d, l)
    BY <1>4 DEF CallEnds
  <1>5. CASE Api(c)
    <2>1. ASSUME NEW k \in Kinds, ReadCurrent(c, k) PROVE CallEnds(d, l)
      <3>1. call' = [call EXCEPT ![c][k] =
                       [call[c][k] EXCEPT !.step = "READ", !.at = CurrentVersion(c)]]
        BY <2>1 DEF ReadCurrent, SetCall
      <3>2. d # c \/ l # k => call'[d][l] = call[d][l]
        BY <1>0, <3>1 DEF TypeInv
      <3> QED
        BY <2>1, <3>2 DEF CallEnds
    <2>2. ASSUME NEW k \in Kinds, InsertVersion(c, k) PROVE CallEnds(d, l)
      <3>1. CASE Step(c, k, "REFUSED")
        BY <1>1, <3>1 DEF Steps
      <3>2. CASE SetCall(c, k, [call[c][k] EXCEPT !.step = "ANSWERED",
                                                  !.at = NextVersion(call[c][k].at)])
        <4> DEFINE v == [call[c][k] EXCEPT !.step = "ANSWERED",
                                           !.at = NextVersion(call[c][k].at)]
        <4>0. call[c][k] \in CallType /\ NextVersion(call[c][k].at) \in Nat
          BY ClientKnown DEF CallType, NextVersion
        <4>1. v \in CallType /\ v.step = "ANSWERED"
          BY <4>0 DEF CallType, Steps
        <4> HIDE DEF v
        <4>2. call'[d][l] = IF d = c /\ l = k THEN v ELSE call[d][l]
          BY <1>2, <3>2, <4>1 DEF v
        <4> QED
          BY <4>1, <4>2 DEF CallEnds
      <3> QED
        BY <2>2, <3>1, <3>2 DEF InsertVersion
    <2>3. ASSUME NEW k \in Kinds, Publish(c, k) \/ CallFails(c, k) PROVE CallEnds(d, l)
      BY <1>1, <2>3 DEF Publish, CallFails, Steps
    <2>4. CASE CreateWorkflow(c) \/ StoreExecution(c) \/ UpdateMetadata(c)
      BY <1>0, <1>1, <2>4 DEF CreateWorkflow, StoreExecution, UpdateMetadata, Steps
    <2> QED
      BY <1>5, <2>1, <2>2, <2>3, <2>4 DEF Api
  <1>6. CASE Cache(c)
    BY <1>4, <1>6 DEF Cache, Refetch, ReadWorkflow, Deliver, FetchFails
  <1>7. CASE User(c)
    <2>1. ASSUME NEW k \in Kinds, NEW arg \in Definitions, Click(c, k, arg)
          PROVE  CallEnds(d, l)
      <3> DEFINE v == [step |-> "SENT", arg |-> arg, at |-> Current, here |-> TRUE]
      <3>1. v \in CallType /\ v.step = "SENT"
        BY ClientKnown DEF CallType, Steps
      <3> HIDE DEF v
      <3>2. call'[d][l] = IF d = c /\ l = k THEN v ELSE call[d][l]
        BY <1>2, <2>1, <3>1 DEF Click, v
      <3> QED
        BY <3>1, <3>2 DEF CallEnds
    <2>2. CASE ClickCreate(c) \/ ClickMetadata(c) \/ ClickRun(c)
      BY <1>0, <2>1, <2>2, EditingAssumption DEF ClickCreate, ClickMetadata, ClickRun
    <2>3. CASE ClickSave(c)
      BY <2>1, <2>3, ClientKnown DEF ClickSave, Kinds, PageType
    <2>4. CASE ClickRestore(c)
      <3>1. versions[page[c].preview] \in Definitions
        BY <2>4, ClientKnown DEF ClickRestore, RestoreOffered, KnownPage, PageType
      <3> QED
        BY <2>1, <2>4, <3>1 DEF ClickRestore, Kinds
    <2>5. CASE LeavePage(c)
      <3>1. call' = [call EXCEPT ![c] = [k \in Kinds |-> [call[c][k] EXCEPT !.here = FALSE]]]
        BY <2>5 DEF LeavePage
      <3>2. call'[d][l].step = call[d][l].step
        BY <1>0, <3>1 DEF TypeInv, CallType
      <3> QED
        BY <3>2 DEF CallEnds
    <2>6. CASE OpenPage(c) \/ StartEditing(c) \/ ChangeDraft(c) \/ DiscardDraft(c)
                 \/ PreviewVersion(c)
      BY <1>4, <2>6 DEF OpenPage, StartEditing, ChangeDraft, DiscardDraft, PreviewVersion
    <2> QED
      BY <1>7, <2>2, <2>3, <2>4, <2>5, <2>6 DEF User
  <1>8. CASE Answers(c)
    <2>1. CASE OnRun(c)
      <3>1. call' = [call EXCEPT ![c] = [k \in Kinds |->
                       IF k = "RUN" THEN NoCall ELSE [call[c][k] EXCEPT !.here = FALSE]]]
        BY <2>1 DEF OnRun
      <3>2. \/ call'[d][l].step = call[d][l].step
            \/ l = "RUN" /\ call'[d][l].step = "IDLE"
        BY <1>0, <3>1 DEF TypeInv, CallType, NoCall
      <3> QED
        BY <1>0, <3>2 DEF CallEnds
    <2>2. CASE OnCreated(c)
      BY <1>0, <1>3, <2>2 DEF OnCreated
    <2>3. ASSUME NEW k \in Kinds, OnSuccess(c, k) PROVE CallEnds(d, l)
      BY <1>1, <2>3 DEF OnSuccess, Steps
    <2>4. ASSUME NEW k \in Kinds, AfterRefetch(c, k) \/ OnError(c, k) PROVE CallEnds(d, l)
      <3>1. SetCall(c, k, NoCall)
        BY <2>4 DEF AfterRefetch, OnError
      <3> QED
        BY <1>3, <2>4, <3>1 DEF OnError
    <2> QED
      BY <1>8, <2>1, <2>2, <2>3, <2>4 DEF Answers
  <1> QED
    BY <1>5, <1>6, <1>7, <1>8 DEF Moves

\* Two users who save or restore at once are never told the same number, and
\* what a user was told is stored is stored under that number
\* (workflows.service.ts:138-223).
THEOREM ConfirmedStaysStored == Spec => []ConfirmedIsStored
  BY InvHolds, PTL DEF Inv

\* Whoever asks for a run gets the version that was current then, or a newer
\* one (workflows.service.ts:225-258).
THEOREM RunsStayFresh == Spec => RunsAreFresh
  <1>1. ASSUME Inv, [Next]_vars
        PROVE  [\A c \in Clients :
                  call[c]["RUN"].step = "SENT" /\ call'[c]["RUN"].step = "READ"
                    => call'[c]["RUN"].at >= call[c]["RUN"].at]_vars
    <2> SUFFICES ASSUME Next, NEW c \in Clients,
                        call[c]["RUN"].step = "SENT", call'[c]["RUN"].step = "READ"
                 PROVE  call'[c]["RUN"].at >= call[c]["RUN"].at
      BY <1>1 DEF Next
    <2>1. "RUN" \in Kinds /\ TypeInv
      BY <1>1 DEF Kinds, Inv
    <2>2. ReadCurrent(c, "RUN")
      BY <1>1, <2>1, CallSteps DEF Next, Moves, CallEnds, AfterRefetch
    <2>3. call'[c]["RUN"].at = Current
      BY <2>1, <2>2 DEF ReadCurrent, SetCall, CurrentVersion, TypeInv, CallType
    <2> QED
      BY <1>1, <2>1, <2>3, ClientKnown DEF KnownCall, CallType
  <1> QED
    BY <1>1, InvHolds, PTL DEF Spec, RunsAreFresh

\* A save or a restore ends on a page that has loaded what it stored, or says
\* that it could not (workflow-detail-page.tsx:247-300).
THEOREM OwnVersionStaysShown == Spec => OwnVersionIsShown
  <1>1. ASSUME Inv, [Next]_vars
        PROVE  [\A c \in Clients, k \in NewVersion :
                  call[c][k].step = "REFETCHING" /\ call'[c][k].step = "IDLE"
                    /\ call[c][k].here /\ ~page[c].failed
                    => page[c].data >= call[c][k].at]_vars
    <2> SUFFICES ASSUME Next, NEW c \in Clients, NEW k \in NewVersion,
                        call[c][k].step = "REFETCHING", call'[c][k].step = "IDLE",
                        call[c][k].here, ~page[c].failed
                 PROVE  page[c].data >= call[c][k].at
      BY <1>1 DEF Next
    <2>1. k \in Kinds
      BY DEF Kinds, NewVersion
    <2>2. AfterRefetch(c, k)
      BY <1>1, <2>1, CallSteps DEF Next, Moves, CallEnds, ReadCurrent
    <2> QED
      BY <1>1, <2>1, <2>2, ClientKnown DEF AfterRefetch, Waits, PageType, CallType
  <1> QED
    BY <1>1, InvHolds, PTL DEF Spec, OwnVersionIsShown

\* Fetches and the saving of metadata keep a changed draft, unless they bring
\* a newer version (workflow-detail-page.tsx:169-174, 263-283).
THEOREM DraftStaysKept == Spec => DraftIsKept
  <1>1. ASSUME Inv, [Next]_vars
        PROVE  [\A c \in Clients :
                  /\ HasDraftChanges(c) /\ page'[c].open
                  /\ fetch'[c] # fetch[c] \/ call'[c]["METADATA"] # call[c]["METADATA"]
                  => page'[c].draft = page[c].draft \/ page'[c].data > page[c].data]_vars
    <2> SUFFICES ASSUME Next, NEW c \in Clients, HasDraftChanges(c), page'[c].open,
                        fetch'[c] # fetch[c] \/ call'[c]["METADATA"] # call[c]["METADATA"]
                 PROVE  page'[c].draft = page[c].draft \/ page'[c].data > page[c].data
      BY <1>1 DEF Next
    <2> DEFINE Goal == page'[c].draft = page[c].draft \/ page'[c].data > page[c].data
    <2>0. /\ page[c].editing /\ page[c].open /\ page[c] \in PageType
          /\ page \in [Clients -> PageType] /\ fetch \in [Clients -> FetchType]
          /\ call \in [Clients -> [Kinds -> CallType]] /\ "METADATA" \in Kinds
      BY <1>1, ClientKnown DEF HasDraftChanges, KnownPage, Inv, TypeInv, Kinds
    <2>1. PICK e \in Clients : Moves(e)
      BY DEF Next, Moves
    <2>2. CASE page'[c] = page[c]
      BY <2>2
    <2>3. CASE Api(e)
      BY <2>2, <2>3 DEF Api, CreateWorkflow, ReadCurrent, InsertVersion, StoreExecution,
                        Publish, UpdateMetadata, CallFails
    <2>4. CASE Cache(e)
      <3>1. CASE Refetch(e) \/ ReadWorkflow(e)
        BY <2>2, <3>1 DEF Refetch, ReadWorkflow
      <3>2. CASE FetchFails(e)
        BY <2>0, <3>2 DEF FetchFails, PageType
      <3>3. CASE Deliver(e) /\ e # c
        BY <2>0, <2>2, <3>3 DEF Deliver
      <3>4. CASE Deliver(c)
        <4>1. fetch[c].step = "READ" /\ page[c].data <= fetch[c].read /\ fetch[c].read \in Nat
          BY <1>1, <3>4, ClientKnown DEF Deliver, KnownFetch, FetchType
        <4>2. CASE fetch[c].read = page[c].data
          BY <2>0, <3>4, <4>2 DEF Deliver, DraftReset, PageType
        <4>3. CASE fetch[c].read # page[c].data
          <5>1. page'[c].data = fetch[c].read
            BY <2>0, <3>4 DEF Deliver, PageType
          <5>2. page[c].data \in Nat
            BY <2>0 DEF PageType
          <5>3. fetch[c].read > page[c].data
            BY <4>1, <4>3, <5>2
          <5> QED
            BY <5>1, <5>3
        <4> QED
          BY <4>2, <4>3
      <3> QED
        BY <2>4, <3>1, <3>2, <3>3, <3>4 DEF Cache
    <2>5. CASE User(e)
      <3>1. CASE OpenPage(e)
        BY <2>0, <2>2, <3>1 DEF OpenPage, Opened
      <3>2. CASE LeavePage(e)
        BY <2>0, <2>2, <3>2 DEF LeavePage, Left, Closed
      <3>3. CASE StartEditing(e) \/ ChangeDraft(e) \/ DiscardDraft(e) \/ PreviewVersion(e)
        BY <3>3 DEF StartEditing, ChangeDraft, DiscardDraft, PreviewVersion
      <3>4. CASE ClickCreate(e) \/ ClickSave(e) \/ ClickRestore(e) \/ ClickMetadata(e)
                   \/ ClickRun(e)
        BY <2>2, <3>4 DEF ClickCreate, ClickSave, ClickRestore, ClickMetadata, ClickRun, Click
      <3> QED
        BY <2>5, <3>1, <3>2, <3>3, <3>4 DEF User
    <2>6. CASE Answers(e)
      <3>1. CASE OnRun(e)
        BY <2>0, <2>2, <3>1 DEF OnRun, Left, Closed
      <3>2. CASE OnCreated(e)
        BY <2>0, <2>2, <3>2 DEF OnCreated, Opened
      <3>3. ASSUME NEW k \in Kinds, OnSuccess(e, k) \/ OnError(e, k) PROVE Goal
        BY <2>2, <3>3 DEF OnSuccess, OnError
      <3>4. ASSUME NEW k \in Kinds, AfterRefetch(e, k) PROVE Goal
        <4>1. CASE e # c \/ k \notin NewVersion
          BY <2>0, <2>2, <3>4, <4>1 DEF AfterRefetch, Settled
        <4>2. CASE e = c /\ k \in NewVersion
          <5>1. UNCHANGED fetch /\ SetCall(c, k, NoCall) /\ k # "METADATA"
            BY <3>4, <4>2 DEF AfterRefetch, NewVersion
          <5>2. call'[c]["METADATA"] = call[c]["METADATA"]
            BY <1>1, <2>0, <5>1, CallIsSet, NoCallType DEF Inv
          <5> QED
            BY <5>1, <5>2
        <4> QED
          BY <4>1, <4>2
      <3> QED
        BY <2>6, <3>1, <3>2, <3>3, <3>4 DEF Answers
    <2> QED
      BY <2>1, <2>3, <2>4, <2>5, <2>6 DEF Moves
  <1> QED
    BY <1>1, InvHolds, PTL DEF Spec, DraftIsKept

=============================================================================
