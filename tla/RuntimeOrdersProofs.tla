-------------------------- MODULE RuntimeOrdersProofs --------------------------
(***************************************************************************)
(* The runtime's orders, for any threads, orders, commands and number of   *)
(* restarts: the journal of an order grows by legal transitions, an order  *)
(* at the venue is journaled, and an order whose outcome is open has a     *)
(* thread.                                                                 *)
(***************************************************************************)
EXTENDS RuntimeOrders, SequenceTheorems, TLAPS

Early == {"CREATED", "PREPARED"}

\* Where a submit is between its look-up and its last row.
Pipeline ==
    {"create", "evaluate", "prepare", "rate", "send", "place", "current", "fill", "sent", "answered"}

\* The venue has the order.
Placed == {"current", "fill", "sent", "answered"}

\* Where a thread owns an order: it goes on to the next row whatever happens.
Owning ==
    {"send", "place", "current", "fill", "sent", "answered", "withdraw", "withdrawn", "unmatched"}

\* The row a thread has written or replayed last, by where it is.
RowAt(label) ==
    CASE label \in {"evaluate", "prepare"}   -> "CREATED"
      [] label = "rate"                      -> "PREPARED"
      [] label \in {"send", "place", "current", "fill", "sent"} -> "SUBMITTING"
      [] label = "answered"                  -> "SUBMITTED"
      [] label \in {"withdraw", "withdrawn", "unmatched"} -> "CANCEL_PENDING"

Holding == {"evaluate", "prepare", "rate"} \cup Owning

\* What the simulated venue says of an order that is being submitted.
Live == {"ACCEPTED", "FILLED", "CANCELED"}

\* The rows a thread may write: from where, which, and where it goes on.
Writes ==
    {<<"create", "CREATED", "evaluate">>, <<"evaluate", "REJECTED", "idle">>,
     <<"prepare", "PREPARED", "rate">>, <<"rate", "REJECTED", "idle">>,
     <<"rate", "SUBMITTING", "send">>, <<"sent", "SUBMITTED", "answered">>,
     <<"pending", "CANCEL_PENDING", "withdraw">>, <<"withdrawn", "CANCELED", "idle">>,
     <<"unmatched", "UNKNOWN", "idle">>}
        \cup {<<"answered", state, "idle">> : state \in Live}

\* What a thread has in memory, where it depends on where the thread is.
Views == {None} \cup [Orders -> States \cup {"none"}] \cup BOOLEAN \cup [Orders -> Nat]

Jobs == [command : Commands \cup {None}, seq : Nat, state : States \cup {None}, view : Views]

WorkOK(t) ==
    /\ job[t] \in Jobs
    /\ pc[t] = "conclude" => job[t].view \in BOOLEAN
    /\ pc[t] \in {"mark", "fill"} => job[t].view \in [Orders -> Nat]

RowOK(t) ==
    /\ pc[t] # "idle" =>
        /\ job[t].seq <= Len(journal[Order(t)])
        /\ job[t].seq > 0 => job[t].state = journal[Order(t)][job[t].seq]
    /\ pc[t] \in Holding => job[t].seq > 0 /\ job[t].state = RowAt(pc[t])
    /\ pc[t] = "pending" => job[t].seq > 0
    /\ pc[t] \in {"submit", "create"} => job[t].seq = 0
    /\ pc[t] \in Pipeline => venue[Order(t)] \in Live \cup {"none"}
    /\ pc[t] \in Placed => venue[Order(t)] # "none"

\* Nobody goes on from here but a cancellation that is refused.
Over == {"CANCELED", "FILLED", "UNKNOWN"}

\* What the rows of an order say together, and with the venue.
JournalOK(o) ==
    /\ Latest(o) \in Early \cup {"REJECTED"} =>
        \A i \in 1 .. Len(journal[o]) - 1 : journal[o][i] \in Early
    /\ \A i \in 1 .. Len(journal[o]) - 1 :
        journal[o][i] = "CANCEL_PENDING" => Latest(o) \in Over
    /\ venue[o] = "CANCELED" => Latest(o) \in {"CANCEL_PENDING"} \cup Over
    /\ journal[o] = <<>> => venue[o] = "none"

Owns(t, o) == pc[t] \in Owning /\ Order(t) = o /\ job[t].seq = Len(journal[o])

OwnerInv == \A o \in Orders : Latest(o) \in Uncertain => \E t \in Threads : Owns(t, o)

TypeInv == TypeOK /\ job = [t \in Threads |-> job[t]] /\ \A t \in Threads : WorkOK(t)

RowInv ==
    /\ TypeInv
    /\ \A t \in Threads : RowOK(t)
    /\ \A o \in Orders : JournalOK(o)

\* What the transition table says, one state at a time.
LEMMA TransitionFacts ==
    /\ \A from \in States : Transitions(from) \subseteq States
    /\ \A from \in States : "CREATED" \notin Transitions(from)
    /\ \A from \in States : "PREPARED" \in Transitions(from) => from = "CREATED"
    /\ Transitions("CREATED") = {"PREPARED", "REJECTED"}
    /\ Transitions("SUBMITTING") = {"SUBMITTED", "UNKNOWN", "REJECTED"}
    /\ Transitions("SUBMITTED") =
            {"ACCEPTED", "FILLED", "CANCEL_PENDING", "UNKNOWN", "REJECTED", "EXPIRED"}
    /\ Transitions("CANCEL_PENDING") = {"CANCELED", "FILLED", "UNKNOWN"}
    /\ "CANCEL_PENDING" \notin Transitions("UNKNOWN")
    /\ \A from \in Terminal : Transitions(from) = {}
BY DEF Transitions, States, Terminal, Uncertain

\* The groups of states are states, and so is what a thread may write.
LEMMA StateFacts ==
    /\ Early \cup Live \cup Uncertain \cup Terminal \cup Over \cup {"RECONCILIATION_REQUIRED"}
            \subseteq States
    /\ "none" \notin States
    /\ \A w \in Writes : w[2] \in States /\ w[1] # "idle"
BY DEF Early, Live, Uncertain, Terminal, Over, States, Writes

\* The order of a thread at work, and the row of an order.
LEMMA OrderOfWork ==
    ASSUME TypeOK, NEW t \in Threads, pc[t] # "idle"
    PROVE  job[t].command \in Commands /\ Order(t) \in Orders /\ job[t].seq \in Nat
BY RuntimeConstants DEF TypeOK, Order

\* The latest state of a journal that is not empty is its last row.
LEMMA LatestIsRow ==
    ASSUME TypeOK, NEW o \in Orders
    PROVE  /\ Len(journal[o]) \in Nat
           /\ \A i \in 1 .. Len(journal[o]) : journal[o][i] \in States
           /\ Latest(o) = "none" <=> journal[o] = <<>>
           /\ journal[o] # <<>> => Len(journal[o]) > 0 /\ Latest(o) = journal[o][Len(journal[o])]
           /\ Latest(o) \in States \cup {"none"}
<1>1. journal[o] \in Seq(States)
  BY DEF TypeOK
<1>2. Len(journal[o]) \in Nat /\ \A i \in 1 .. Len(journal[o]) : journal[o][i] \in States
  BY <1>1
<1>3. journal[o] # <<>> => Len(journal[o]) > 0
  BY <1>1, EmptySeq
<1> QED BY <1>1, <1>2, <1>3, StateFacts DEF Latest, Last

-----------------------------------------------------------------------------
\* A row that is written is the next one, and legal after the latest.
LEMMA RowWritten ==
    ASSUME RowInv, NEW t \in Threads, pc[t] # "idle", NEW state \in States,
           NEW label, Advance(t, state, label)
    PROVE  /\ \/ journal' = journal /\ job[t].seq < Len(journal[Order(t)])
              \/ /\ job[t].seq = Len(journal[Order(t)])
                 /\ journal' = [journal EXCEPT ![Order(t)] = Append(@, state)]
                 /\ \/ journal[Order(t)] = <<>>
                    \/ state \in Transitions(Latest(Order(t))) /\ Latest(Order(t)) = job[t].state
           /\ job[t].seq + 1 <= Len(journal'[Order(t)])
           /\ journal'[Order(t)][job[t].seq + 1] = state
<1> DEFINE o == Order(t)
           n == job[t].seq
<1>1. o \in Orders /\ n \in Nat /\ journal[o] \in Seq(States)
  BY OrderOfWork DEF RowInv, TypeInv, TypeOK
<1>2. n <= Len(journal[o]) /\ (n > 0 => job[t].state = journal[o][n])
  BY DEF RowInv, RowOK
<1>3. ~Taken(o, n + 1, state) /\ Legal(t, state)
  BY DEF Advance
<1>4. CASE Replayed(o, n + 1, state)
  BY <1>1, <1>4 DEF Replayed, Advance
<1>5. CASE ~Replayed(o, n + 1, state)
  <2>1. n = Len(journal[o])
    BY <1>1, <1>2, <1>3, <1>5 DEF Taken
  <2>2. journal' = [journal EXCEPT ![o] = Append(@, state)]
    BY <1>5 DEF Advance
  <2>3. journal'[o] = Append(journal[o], state)
    BY <1>1, <2>2 DEF RowInv, TypeInv, TypeOK
  <2>4. n + 1 <= Len(journal'[o]) /\ journal'[o][n + 1] = state
    BY <1>1, <2>1, <2>3
  <2>5. journal[o] = <<>> \/ (state \in Transitions(Latest(o)) /\ Latest(o) = job[t].state)
    BY <1>1, <1>2, <1>3, <2>1, LatestIsRow DEF Legal, RowInv, TypeInv
  <2> QED BY <2>1, <2>2, <2>4, <2>5
<1> QED BY <1>4, <1>5

-----------------------------------------------------------------------------
(* The rows *)

\* Rows are kept, and the venue goes to a state of a live order.
Extends ==
    \A o \in Orders :
        /\ Len(journal'[o]) \in Nat /\ Len(journal[o]) <= Len(journal'[o])
        /\ \A i \in 1 .. Len(journal[o]) : journal'[o][i] = journal[o][i]
        /\ venue'[o] = venue[o] \/ venue'[o] \in Live

\* A thread that does not move.
LEMMA OtherRows ==
    ASSUME RowInv, Extends, NEW u \in Threads, pc'[u] = pc[u], job'[u] = job[u]
    PROVE  RowOK(u)'
<1>1. RowOK(u) /\ Order(u)' = Order(u)
  BY DEF RowInv, Order
<1>2. pc[u] # "idle" => Order(u) \in Orders /\ job[u].seq \in Nat
  BY OrderOfWork DEF RowInv, TypeInv
<1>3. pc[u] \in Pipeline => pc[u] # "idle"
  BY DEF Pipeline
<1>4. pc[u] # "idle" =>
        /\ job[u].seq <= Len(journal'[Order(u)])
        /\ job[u].seq > 0 => job[u].state = journal'[Order(u)][job[u].seq]
  <2> SUFFICES ASSUME pc[u] # "idle"
               PROVE  /\ job[u].seq <= Len(journal'[Order(u)])
                      /\ job[u].seq > 0 => job[u].state = journal'[Order(u)][job[u].seq]
    OBVIOUS
  <2>1. Len(journal[Order(u)]) \in Nat
    BY <1>2, LatestIsRow DEF RowInv, TypeInv
  <2>2. Len(journal'[Order(u)]) \in Nat /\ Len(journal[Order(u)]) <= Len(journal'[Order(u)])
    BY <1>2 DEF Extends
  <2>3. job[u].seq <= Len(journal[Order(u)])
        /\ (job[u].seq > 0 => job[u].state = journal[Order(u)][job[u].seq])
    BY <1>1 DEF RowOK
  <2>4. job[u].seq > 0 => job[u].seq \in 1 .. Len(journal[Order(u)])
    BY <1>2, <2>1, <2>3
  <2>5. job[u].seq > 0 => job[u].state = journal'[Order(u)][job[u].seq]
    BY <1>2, <2>3, <2>4 DEF Extends
  <2> QED BY <1>2, <2>1, <2>2, <2>3, <2>5
<1>5. pc[u] \in Pipeline =>
        /\ venue'[Order(u)] \in Live \cup {"none"}
        /\ venue[Order(u)] # "none" => venue'[Order(u)] # "none"
  BY <1>1, <1>2, <1>3 DEF RowOK, Extends, Live
<1> QED BY <1>1, <1>4, <1>5 DEF RowOK, Pipeline, Placed

\* A journal that is left alone has grown, by nothing.
LEMMA UnmovedExtends ==
    ASSUME RowInv, journal' = journal, \A o \in Orders : venue'[o] = venue[o] \/ venue'[o] \in Live
    PROVE  Extends
BY LatestIsRow DEF Extends, RowInv, TypeInv

\* A journal that got one row has grown.
LEMMA WrittenExtends ==
    ASSUME RowInv, NEW o \in Orders, NEW state \in States,
           journal' = [journal EXCEPT ![o] = Append(@, state)], venue' = venue
    PROVE  /\ Extends
           /\ journal' \in [Orders -> Seq(States)]
           /\ journal'[o] = Append(journal[o], state)
           /\ Latest(o)' = state
           /\ \A p \in Orders : p # o => journal'[p] = journal[p] /\ Latest(p)' = Latest(p)
<1>1. journal \in [Orders -> Seq(States)]
  BY DEF RowInv, TypeInv, TypeOK
<1>2. /\ journal'[o] = Append(journal[o], state)
      /\ \A p \in Orders : p # o => journal'[p] = journal[p]
      /\ journal' \in [Orders -> Seq(States)]
  BY <1>1
<1>3. /\ Len(journal'[o]) = Len(journal[o]) + 1 /\ Len(journal[o]) \in Nat
      /\ journal'[o][Len(journal'[o])] = state
      /\ \A i \in 1 .. Len(journal[o]) : journal'[o][i] = journal[o][i]
  BY <1>1, <1>2
<1>4. Extends
  BY <1>1, <1>2, <1>3, LatestIsRow DEF Extends, RowInv, TypeInv
<1>5. Latest(o)' = state
  <2>1. journal'[o] # <<>>
    BY <1>2, <1>3, LenProperties, EmptySeq
  <2> QED BY <1>3, <2>1 DEF Latest, Last
<1>6. \A p \in Orders : p # o => Latest(p)' = Latest(p)
  BY <1>2 DEF Latest
<1> QED BY <1>2, <1>4, <1>5, <1>6

\* The journal of the order after a legal row: an early row or a rejection only
\* after early ones, and a cancellation answers a pending one.
LEMMA JournalGrown ==
    ASSUME RowInv, NEW o \in Orders, NEW state \in States,
           journal' = [journal EXCEPT ![o] = Append(@, state)], venue' = venue,
           journal[o] = <<>> \/ state \in Transitions(Latest(o)),
           state \in Early \cup {"REJECTED"} => journal[o] = <<>> \/ Latest(o) \in Early,
           journal[o] = <<>> => state # "CANCEL_PENDING",
           journal[o] = <<>> \/ Latest(o) # "UNKNOWN"
    PROVE  \A p \in Orders : JournalOK(p)'
<1>w. /\ journal'[o] = Append(journal[o], state) /\ Latest(o)' = state
      /\ journal \in [Orders -> Seq(States)]
      /\ \A p \in Orders : p # o => journal'[p] = journal[p] /\ Latest(p)' = Latest(p)
  BY WrittenExtends DEF RowInv, TypeInv, TypeOK
<1>l. /\ Len(journal'[o]) = Len(journal[o]) + 1 /\ Len(journal[o]) \in Nat
      /\ \A i \in 1 .. Len(journal[o]) : journal'[o][i] = journal[o][i]
      /\ journal[o] = <<>> => Len(journal[o]) = 0
      /\ journal[o] # <<>> => Len(journal[o]) > 0 /\ Latest(o) = journal[o][Len(journal[o])]
      /\ journal[o] # <<>> => Latest(o) \in States
  BY <1>w, LatestIsRow DEF RowInv, TypeInv
<1>o. JournalOK(o)
  BY DEF RowInv
<1>1. ASSUME NEW p \in Orders, p # o PROVE JournalOK(p)'
  <2>1. JournalOK(p) /\ journal'[p] = journal[p] /\ Latest(p)' = Latest(p) /\ venue'[p] = venue[p]
    BY <1>1, <1>w DEF RowInv
  <2> QED BY <2>1 DEF JournalOK
<1>2. ASSUME state \in Early \cup {"REJECTED"}, NEW i \in 1 .. Len(journal'[o]) - 1
      PROVE  journal'[o][i] \in Early
  <2>1. i \in 1 .. Len(journal[o]) /\ journal'[o][i] = journal[o][i]
    BY <1>l
  <2>2. journal[o] # <<>> /\ Latest(o) \in Early
    BY <1>2, <1>l, <2>1
  <2>3. i = Len(journal[o]) \/ i \in 1 .. Len(journal[o]) - 1
    BY <1>l, <2>1
  <2> QED BY <1>l, <1>o, <2>1, <2>2, <2>3 DEF JournalOK
<1>3. ASSUME NEW i \in 1 .. Len(journal'[o]) - 1, journal'[o][i] = "CANCEL_PENDING"
      PROVE  state \in Over
  <2>1. i \in 1 .. Len(journal[o]) /\ journal'[o][i] = journal[o][i] /\ journal[o] # <<>>
    BY <1>l
  <2>2. i = Len(journal[o]) \/ i \in 1 .. Len(journal[o]) - 1
    BY <1>l, <2>1
  <2>3. CASE i = Len(journal[o])
    BY <1>3, <1>l, <2>1, <2>3, TransitionFacts DEF Over
  <2>4. CASE i \in 1 .. Len(journal[o]) - 1
    BY <1>3, <1>o, <2>1, <2>4, TransitionFacts DEF JournalOK, Terminal, Over
  <2> QED BY <2>2, <2>3, <2>4
<1>4. venue'[o] = "CANCELED" => state \in {"CANCEL_PENDING"} \cup Over
  BY <1>l, <1>o, TransitionFacts DEF JournalOK, Terminal, Over
<1>5. journal'[o] # <<>>
  BY <1>l, <1>w, EmptySeq
<1>6. JournalOK(o)'
  BY <1>2, <1>3, <1>4, <1>5, <1>w DEF JournalOK
<1> QED BY <1>1, <1>6

-----------------------------------------------------------------------------
(* Steps of one thread *)

SharedOK ==
    /\ journal \in [Orders -> Seq(States)]
    /\ venue \in [Orders -> {"none"} \cup States]
    /\ position \in [Orders -> Nat] /\ sent \subseteq Orders
    /\ received \subseteq Commands
    /\ kill_switch \in BOOLEAN /\ paused \in BOOLEAN
    /\ restarts \in 0 .. MaxRestarts

\* The work a thread may have at a place.
Work(label, j) ==
    /\ j \in Jobs
    /\ label = "idle" <=> j.command = None
    /\ label = "conclude" => j.view \in BOOLEAN
    /\ label \in {"mark", "fill"} => j.view \in [Orders -> Nat]

Moves(t, label, j) == pc' = [pc EXCEPT ![t] = label] /\ job' = [job EXCEPT ![t] = j]

LEMMA ThreadSteps ==
    ASSUME RowInv, SharedOK', NEW t \in Threads, NEW label \in Labels, NEW j, Work(label, j),
           Moves(t, label, j), Extends, \A o \in Orders : JournalOK(o)',
           pc'[t] = label /\ job'[t] = j => RowOK(t)'
    PROVE  RowInv'
<1>1. DOMAIN pc = Threads /\ DOMAIN job = Threads /\ pc \in [Threads -> Labels]
  BY DEF RowInv, TypeInv, TypeOK
<1>2. pc'[t] = label /\ job'[t] = j
  BY <1>1 DEF Moves
<1>3. \A u \in Threads : u # t => pc'[u] = pc[u] /\ job'[u] = job[u]
  BY <1>1 DEF Moves
<1>4. pc' \in [Threads -> Labels] /\ job' = [u \in Threads |-> job'[u]]
  BY <1>1 DEF Moves
<1>5. ASSUME NEW u \in Threads
      PROVE  /\ WorkOK(u)' /\ RowOK(u)'
             /\ pc'[u] = "idle" <=> job'[u].command = None
             /\ job'[u].command \in Commands \cup {None} /\ job'[u].seq \in Nat
             /\ job'[u].state \in States \cup {None}
  <2>1. CASE u = t
    BY <1>2, <2>1 DEF Work, WorkOK, Jobs
  <2>2. CASE u # t
    <3>1. pc'[u] = pc[u] /\ job'[u] = job[u]
      BY <1>3, <2>2
    <3>2. RowOK(u)'
      BY <3>1, OtherRows
    <3>3. WorkOK(u)'
      BY <3>1 DEF WorkOK, RowInv, TypeInv
    <3> QED BY <3>1, <3>2, <3>3 DEF RowInv, TypeInv, TypeOK
  <2> QED BY <2>1, <2>2
<1>6. TypeOK'
  BY <1>4, <1>5 DEF SharedOK, TypeOK
<1> QED BY <1>4, <1>5, <1>6 DEF RowInv, TypeInv

\* Without a row, and the venue left alone.
LEMMA JournalUnmoved ==
    ASSUME RowInv, UNCHANGED <<journal, venue>>
    PROVE  Extends /\ \A o \in Orders : JournalOK(o)'
BY UnmovedExtends DEF RowInv, JournalOK, Latest

\* The work of a thread has the fields of a job.
LEMMA WorkOfThread ==
    ASSUME RowInv, NEW t \in Threads
    PROVE  Work(pc[t], job[t]) /\ job = [job EXCEPT ![t] = job[t]] /\ pc[t] \in Labels
BY DEF RowInv, TypeInv, TypeOK, WorkOK, Work

\* A thread that is done.
LEMMA FinishSteps ==
    ASSUME RowInv, SharedOK', NEW t \in Threads, Finish(t), Extends,
           \A o \in Orders : JournalOK(o)'
    PROVE  RowInv'
<1>1. Work("idle", Blank)
  BY DEF Work, Blank, Jobs, Views
<1>2. Moves(t, "idle", Blank) /\ "idle" \in Labels
  BY DEF Finish, Moves, Labels
<1>3. ASSUME pc'[t] = "idle" PROVE RowOK(t)'
  BY <1>3 DEF RowOK, Holding, Owning, Pipeline, Placed
<1> QED BY <1>1, <1>2, <1>3, ThreadSteps

\* A thread that goes on without a row.
LEMMA GotoSteps ==
    ASSUME RowInv, SharedOK', NEW t \in Threads, pc[t] # "idle",
           NEW label \in Labels \ {"idle", "conclude", "mark", "fill"}, Goto(t, label),
           UNCHANGED <<journal, venue>>,
           label \in Holding => pc[t] \in Holding /\ RowAt(label) = RowAt(pc[t]),
           label = "pending" => FALSE,
           label \in {"submit", "create"} => job[t].seq = 0,
           label \in Pipeline => venue[Order(t)] \in Live \cup {"none"},
           label \in Placed => venue[Order(t)] # "none"
    PROVE  RowInv'
<1>1. Work(label, job[t])
  BY WorkOfThread DEF Work
<1>2. Moves(t, label, job[t])
  BY WorkOfThread DEF Goto, Moves
<1>3. ASSUME pc'[t] = label, job'[t] = job[t] PROVE RowOK(t)'
  <2>1. Order(t)' = Order(t) /\ RowOK(t)
    BY <1>3 DEF Order, RowInv
  <2> QED BY <1>3, <2>1 DEF RowOK
<1> QED BY <1>1, <1>2, <1>3, JournalUnmoved, ThreadSteps

\* The memory of a thread that goes on to another row.
OnRow(r, n, state) == [r EXCEPT !.seq = n, !.state = state]

\* A job that goes on to the next row is a job.
LEMMA NextRow ==
    ASSUME NEW r \in Jobs, NEW n \in Nat, NEW state \in States
    PROVE  /\ OnRow(r, n, state) \in Jobs /\ OnRow(r, n, state).command = r.command
           /\ OnRow(r, n, state).seq = n /\ OnRow(r, n, state).state = state
BY DEF Jobs, OnRow

\* A thread that writes or replays its next row.
LEMMA WriteSteps ==
    ASSUME RowInv, NEW t \in Threads, NEW state, NEW label,
           <<pc[t], state, label>> \in Writes, Advance(t, state, label)
    PROVE  RowInv'
<1> DEFINE o == Order(t)
           j == OnRow(job[t], job[t].seq + 1, state)
<1>1. pc[t] # "idle" /\ state \in States
  BY StateFacts
<1>2. /\ o \in Orders /\ job[t].seq \in Nat /\ job[t].command \in Commands
      /\ RowOK(t) /\ Work(pc[t], job[t])
  BY <1>1, OrderOfWork, WorkOfThread DEF RowInv, TypeInv
<1>3. /\ UNCHANGED <<venue, position, received, kill_switch, paused, sent, restarts>>
      /\ SharedOK
  BY DEF Advance, memory, history, RowInv, TypeInv, TypeOK, SharedOK
<1>4. /\ SharedOK' /\ Extends /\ \A p \in Orders : JournalOK(p)'
      /\ job[t].seq + 1 <= Len(journal'[o]) /\ journal'[o][job[t].seq + 1] = state
  <2>1. CASE journal' = journal
    BY <1>1, <1>3, <2>1, JournalUnmoved, RowWritten DEF SharedOK
  <2>2. CASE journal' # journal
    <3>1. /\ job[t].seq = Len(journal[o])
          /\ journal' = [journal EXCEPT ![o] = Append(@, state)]
          /\ \/ journal[o] = <<>>
             \/ state \in Transitions(Latest(o)) /\ Latest(o) = job[t].state
      BY <1>1, <2>2, RowWritten
    <3>2. job[t].seq = 0 <=> journal[o] = <<>>
      BY <1>2, <3>1, LatestIsRow, EmptySeq DEF RowInv, TypeInv
    <3>3. state \in Early \cup {"REJECTED"} => journal[o] = <<>> \/ Latest(o) \in Early
      BY <1>2, <3>1, <3>2 DEF Writes, RowOK, RowAt, Holding, Owning, Early, Live
    <3>4. journal[o] = <<>> => state # "CANCEL_PENDING"
      BY <1>2, <3>2 DEF Writes, RowOK, Live
    <3>5. Extends /\ journal' \in [Orders -> Seq(States)]
      BY <1>1, <1>2, <1>3, <3>1, WrittenExtends
    <3>7. journal[o] = <<>> \/ Latest(o) # "UNKNOWN"
      BY <1>2, <3>1, <3>2, TransitionFacts DEF Writes, RowOK, RowAt, Holding, Owning, Live
    <3>6. \A p \in Orders : JournalOK(p)'
      BY <1>1, <1>2, <1>3, <3>1, <3>3, <3>4, <3>7, JournalGrown
    <3> QED BY <1>1, <1>3, <3>5, <3>6, RowWritten DEF SharedOK
  <2> QED BY <2>1, <2>2
<1>5. CASE label = "idle"
  BY <1>4, <1>5, FinishSteps DEF Advance
<1>6. CASE label # "idle"
  <2>1. Moves(t, label, j)
    <3>1. DOMAIN job = Threads
      BY DEF RowInv, TypeInv
    <3>2. pc' = [pc EXCEPT ![t] = label] /\ job' = [job EXCEPT ![t].seq = @ + 1, ![t].state = state]
      BY <1>6 DEF Advance
    <3> QED BY <3>1, <3>2 DEF Moves, OnRow
  <2>2. /\ j \in Jobs /\ j.command = job[t].command
        /\ j.seq = job[t].seq + 1 /\ j.state = state
    <3>1. job[t] \in Jobs /\ job[t].seq + 1 \in Nat
      BY <1>2 DEF Work
    <3> QED BY <1>1, <3>1, NextRow
  <2> HIDE DEF j
  <2>3. label \in Labels \ {"idle", "conclude", "mark", "fill"}
    BY <1>6 DEF Writes, Labels
  <2>4. Work(label, j)
    BY <1>1, <1>2, <2>2, <2>3, RuntimeConstants DEF Work
  <2>5. ASSUME pc'[t] = label, job'[t] = j PROVE RowOK(t)'
    <3>1. Order(t)' = o
      BY <2>2, <2>5 DEF Order
    <3>2. /\ label \in Holding => state = RowAt(label)
          /\ label \notin {"pending", "submit", "create"}
          /\ label \in Pipeline => pc[t] \in Pipeline
          /\ label \in Placed => pc[t] \in Placed
      BY <1>6 DEF Writes, RowAt, Holding, Owning, Pipeline, Placed
    <3>3. /\ label \in Pipeline => venue'[o] \in Live \cup {"none"}
          /\ label \in Placed => venue'[o] # "none"
      BY <1>2, <1>3, <3>2 DEF RowOK
    <3> QED BY <1>2, <1>4, <2>2, <2>5, <3>1, <3>2, <3>3 DEF RowOK
  <2> QED BY <1>4, <2>1, <2>3, <2>4, <2>5, ThreadSteps
<1> QED BY <1>5, <1>6

\* An exception, or a command that is answered.
LEMMA QuietFinish ==
    ASSUME RowInv, NEW t \in Threads, Finish(t), UNCHANGED <<journal, venue>>, SharedOK'
    PROVE  RowInv'
BY JournalUnmoved, FinishSteps

\* A thread that goes on with another view of things, and has no row to write.
LEMMA ViewSteps ==
    ASSUME RowInv, SharedOK', NEW t \in Threads, pc[t] # "idle", UNCHANGED <<journal, venue>>,
           NEW label \in {"compare", "conclude", "mark"}, NEW v \in Views,
           label = "conclude" => v \in BOOLEAN, label = "mark" => v \in [Orders -> Nat],
           pc' = [pc EXCEPT ![t] = label], job' = [job EXCEPT ![t].view = v]
    PROVE  RowInv'
<1> DEFINE j == [job[t] EXCEPT !.view = v]
<1>1. Work(pc[t], job[t]) /\ DOMAIN job = Threads /\ RowOK(t)
  BY WorkOfThread DEF RowInv, TypeInv
<1>2. j \in Jobs /\ j.command = job[t].command /\ j.seq = job[t].seq /\ j.state = job[t].state
      /\ j.view = v
  BY <1>1 DEF Work, Jobs
<1>3. Moves(t, label, j)
  BY <1>1 DEF Moves
<1> HIDE DEF j
<1>4. Work(label, j) /\ label \in Labels
  BY <1>1, <1>2 DEF Work, Labels
<1>5. ASSUME pc'[t] = label, job'[t] = j PROVE RowOK(t)'
  <2>1. Order(t)' = Order(t)
    BY <1>2, <1>5 DEF Order
  <2> QED BY <1>1, <1>2, <1>5, <2>1 DEF RowOK, Holding, Owning, Pipeline, Placed
<1> QED BY <1>3, <1>4, <1>5, JournalUnmoved, ThreadSteps

\* A command is taken by an idle thread, which reads the order's row.
LEMMA ReceiveSteps ==
    ASSUME RowInv, NEW t \in Threads, NEW c \in Commands, Receive(t, c)
    PROVE  RowInv'
<1> DEFINE j == [Blank EXCEPT !.command = c]
<1>1. SharedOK' /\ UNCHANGED <<journal, venue>>
  BY DEF Receive, memory, history, SharedOK, RowInv, TypeInv, TypeOK
<1>2. j \in Jobs /\ j.command = c /\ j.seq = 0
  BY DEF Blank, Jobs, Views
<1>3. Moves(t, c.kind, j)
  BY DEF Receive, Moves
<1> HIDE DEF j
<1>4. c \in [kind : Kinds, order : Orders, n : Nat] /\ c # None
  BY RuntimeConstants
<1>5. c.kind \in Kinds /\ c.order \in Orders
  BY <1>4
<1>6. c.kind \in Labels /\ c.kind \notin Holding \cup Pipeline \cup Placed
      /\ c.kind \notin {"idle", "conclude", "mark", "fill", "pending", "create"}
  BY <1>5 DEF Labels, Kinds, Holding, Owning, Pipeline, Placed
<1>7. Work(c.kind, j)
  BY <1>2, <1>4, <1>6 DEF Work
<1>8. Len(journal[c.order]) \in Nat
  BY <1>5, LatestIsRow DEF RowInv, TypeInv
<1>9. ASSUME pc'[t] = c.kind, job'[t] = j PROVE RowOK(t)'
  <2>1. Order(t)' = c.order
    BY <1>2, <1>9 DEF Order
  <2> QED BY <1>1, <1>2, <1>6, <1>8, <1>9, <2>1 DEF RowOK
<1> QED BY <1>1, <1>3, <1>6, <1>7, <1>9, JournalUnmoved, ThreadSteps

\* Every row of the pipelines is one a thread may write.
LEMMA StepsWrite ==
    ASSUME RowInv, NEW t \in Threads, NEW state, NEW label,
           <<pc[t], state, label>> \in Writes, Step(t, state, label)
    PROVE  RowInv'
<1>1. CASE Advance(t, state, label)
  BY <1>1, WriteSteps
<1>2. CASE Raise(t, state)
  <2>1. UNCHANGED <<journal, venue>> /\ SharedOK'
    BY <1>2 DEF Raise, store, memory, history, SharedOK, RowInv, TypeInv, TypeOK
  <2> QED BY <1>2, <2>1, QuietFinish DEF Raise
<1> QED BY <1>1, <1>2 DEF Step

\* What the venue has answered is a state of an order that is live there.
LEMMA AnswerIsLive ==
    ASSUME RowInv, NEW t \in Threads, pc[t] = "answered"
    PROVE  venue[Order(t)] \in Live
BY DEF RowInv, RowOK, Pipeline, Placed

\* A place in the pipeline of a submission, with nothing written.
LEMMA PlaceSteps ==
    ASSUME RowInv, SharedOK', NEW t \in Threads, NEW label \in {"current", "fill", "sent"},
           pc[t] \in {"place", "current", "fill"}, NEW v \in Views,
           label = "fill" => v \in [Orders -> Nat],
           pc' = [pc EXCEPT ![t] = label], job' = [job EXCEPT ![t].view = v],
           UNCHANGED journal, venue'[Order(t)] # "none",
           \A p \in Orders : venue'[p] = venue[p] \/ venue'[p] \in {"FILLED", "ACCEPTED"},
           \A p \in Orders : venue'[p] = venue[p] \/ p = Order(t)
    PROVE  RowInv'
<1> DEFINE o == Order(t)
           j == [job[t] EXCEPT !.view = v]
<1>1. o \in Orders /\ RowOK(t) /\ job[t].seq \in Nat /\ Work(pc[t], job[t]) /\ DOMAIN job = Threads
  BY OrderOfWork, WorkOfThread DEF RowInv, TypeInv
<1>2. j \in Jobs /\ j.command = job[t].command /\ j.seq = job[t].seq /\ j.state = job[t].state
      /\ j.view = v
  BY <1>1 DEF Work, Jobs
<1>3. Moves(t, label, j)
  BY <1>1 DEF Moves
<1> HIDE DEF j
<1>4. Work(label, j) /\ label \in Labels
  BY <1>1, <1>2 DEF Work, Labels
<1>5. Extends
  BY UnmovedExtends DEF Live
<1>6. journal[o] # <<>>
  <2>1. job[t].seq > 0 /\ job[t].seq <= Len(journal[o])
    BY <1>1 DEF RowOK, Holding, Owning
  <2> QED BY <1>1, <2>1, EmptySeq
<1>7. ASSUME NEW p \in Orders PROVE JournalOK(p)'
  <2>1. JournalOK(p) /\ Latest(p)' = Latest(p)
    BY DEF RowInv, Latest
  <2>2. journal[p] = <<>> => venue'[p] = "none"
    BY <1>6, <2>1 DEF JournalOK
  <2> QED BY <2>1, <2>2 DEF JournalOK
<1>8. ASSUME pc'[t] = label, job'[t] = j PROVE RowOK(t)'
  <2>1. Order(t)' = o
    BY <1>2, <1>8 DEF Order
  <2>2. venue'[o] \in Live
    BY <1>1 DEF RowOK, Pipeline, Live
  <2> QED BY <1>1, <1>2, <1>8, <2>1, <2>2 DEF RowOK, Holding, Owning, RowAt, Pipeline, Placed
<1> QED BY <1>3, <1>4, <1>5, <1>7, <1>8, ThreadSteps

\* The view a thread has is one it may keep.
LEMMA ViewKept ==
    ASSUME RowInv, NEW t \in Threads, NEW label, Goto(t, label)
    PROVE  /\ job[t].view \in Views
           /\ pc' = [pc EXCEPT ![t] = label] /\ job' = [job EXCEPT ![t].view = job[t].view]
<1>1. job[t] \in Jobs /\ job = [u \in Threads |-> job[u]]
  BY DEF RowInv, TypeInv, WorkOK
<1>2. [job[t] EXCEPT !.view = job[t].view] = job[t]
  BY <1>1 DEF Jobs
<1>3. job = [job EXCEPT ![t].view = job[t].view]
  BY <1>1, <1>2
<1> QED BY <1>1, <1>3 DEF Goto, Jobs

\* The venue looks an order up, takes it, and adds its fill to the position.
LEMMA SendSteps ==
    ASSUME RowInv, NEW t \in Threads, Find(t) \/ Place(t) \/ ReadCurrent(t) \/ Fill(t)
    PROVE  RowInv'
<1> DEFINE o == Order(t)
<1>1. pc[t] # "idle" /\ o \in Orders /\ RowOK(t)
  BY OrderOfWork DEF Find, Place, ReadCurrent, Fill, RowInv, TypeInv
<1>s. UNCHANGED <<store, memory, history>> => SharedOK' /\ UNCHANGED <<journal, venue>>
  BY DEF store, memory, history, SharedOK, RowInv, TypeInv, TypeOK
<1>2. CASE Find(t)
  <2>1. venue[o] \in Live \cup {"none"}
    BY <1>1, <1>2 DEF Find, RowOK, Pipeline
  <2>2. CASE venue[o] = "none"
    BY <1>1, <1>2, <1>s, <2>1, <2>2, GotoSteps DEF Find, Labels, Holding, Owning, RowAt, Placed
  <2>3. CASE venue[o] # "none"
    BY <1>1, <1>2, <1>s, <2>1, <2>3, GotoSteps DEF Find, Labels, Holding, Owning, RowAt, Placed
  <2> QED BY <2>2, <2>3
<1>3. CASE Place(t)
  <2>1. venue \in [Orders -> {"none"} \cup States] /\ sent \subseteq Orders
    BY DEF RowInv, TypeInv, TypeOK
  <2>2. PICK v \in {"FILLED", "ACCEPTED"} : venue' = [venue EXCEPT ![o] = v]
    BY <1>3 DEF Place
  <2>3. /\ venue'[o] = v /\ \A p \in Orders : p # o => venue'[p] = venue[p]
        /\ venue' \in [Orders -> {"none"} \cup States]
    BY <1>1, <2>1, <2>2, StateFacts DEF Live
  <2>4. sent' \subseteq Orders
    BY <1>1, <1>3, <2>1 DEF Place
  <2>5. SharedOK'
    BY <1>3, <2>3, <2>4 DEF Place, store, SharedOK, RowInv, TypeInv, TypeOK
  <2>6. PICK label \in {"current", "sent"} : Goto(t, label)
    BY <1>3 DEF Place
  <2>7. /\ \A p \in Orders : venue'[p] = venue[p] \/ venue'[p] \in {"FILLED", "ACCEPTED"}
        /\ \A p \in Orders : venue'[p] = venue[p] \/ p = o
        /\ venue'[o] # "none" /\ UNCHANGED journal /\ pc[t] = "place"
    BY <1>3, <2>3 DEF Place, store
  <2> QED BY <2>5, <2>6, <2>7, ViewKept, PlaceSteps
<1>4. CASE ReadCurrent(t)
  <2>1. position \in [Orders -> Nat] /\ position \in Views
    BY DEF RowInv, TypeInv, TypeOK, Views
  <2>2. venue'[o] # "none" /\ pc[t] = "current"
    BY <1>1, <1>4, <1>s DEF ReadCurrent, RowOK, Placed
  <2> QED BY <1>4, <1>s, <2>1, <2>2, PlaceSteps DEF ReadCurrent
<1>5. CASE Fill(t)
  <2>1. job[t].view \in [Orders -> Nat]
    BY <1>5 DEF Fill, RowInv, TypeInv, WorkOK
  <2>2. position' \in [Orders -> Nat]
    <3>1. PICK view \in [Orders -> Nat] : view = job[t].view
      BY <2>1
    <3>2. position' = [view EXCEPT ![o] = view[o] + 1] /\ view[o] + 1 \in Nat
      BY <1>1, <1>5, <3>1 DEF Fill
    <3> QED BY <3>2
  <2>3. SharedOK' /\ UNCHANGED <<journal, venue>>
    BY <1>5, <2>2 DEF Fill, memory, history, SharedOK, RowInv, TypeInv, TypeOK
  <2>4. venue'[o] # "none" /\ pc[t] = "fill" /\ Goto(t, "sent")
    BY <1>1, <1>5, <2>3 DEF Fill, RowOK, Placed
  <2> QED BY <2>3, <2>4, ViewKept, PlaceSteps
<1> QED BY <1>2, <1>3, <1>4, <1>5

\* The row of a pending cancellation was written before the venue cancels.
LEMMA WithdrawSteps ==
    ASSUME RowInv, NEW t \in Threads, Withdraw(t)
    PROVE  RowInv'
<1> DEFINE o == Order(t)
<1>1. pc[t] = "withdraw" /\ o \in Orders /\ RowOK(t) /\ job[t].seq \in Nat
  BY OrderOfWork DEF Withdraw, RowInv, TypeInv
<1>2. /\ UNCHANGED journal /\ Goto(t, "withdrawn")
      /\ venue' = [venue EXCEPT ![o] = "CANCELED"]
  BY DEF Withdraw, store
<1>3. venue'[o] = "CANCELED" /\ \A p \in Orders : p # o => venue'[p] = venue[p]
  BY <1>1, <1>2 DEF RowInv, TypeInv, TypeOK
<1>4. SharedOK'
  BY <1>1, <1>2, StateFacts DEF Withdraw, store, history, SharedOK, RowInv, TypeInv, TypeOK, Live
<1>5. Extends
  BY <1>2, <1>3, UnmovedExtends DEF Live
<1>6. Latest(o) \in {"CANCEL_PENDING"} \cup Over /\ journal[o] # <<>>
  <2>1. /\ job[t].seq > 0 /\ job[t].seq <= Len(journal[o])
        /\ journal[o][job[t].seq] = "CANCEL_PENDING"
    BY <1>1 DEF RowOK, Holding, Owning, RowAt
  <2>2. Len(journal[o]) \in Nat /\ journal[o] # <<>> /\ Latest(o) = journal[o][Len(journal[o])]
    BY <1>1, <2>1, LatestIsRow, EmptySeq DEF RowInv, TypeInv
  <2>3. job[t].seq = Len(journal[o]) \/ job[t].seq \in 1 .. Len(journal[o]) - 1
    BY <1>1, <2>1, <2>2
  <2> QED BY <1>1, <2>1, <2>2, <2>3 DEF RowInv, JournalOK
<1>7. ASSUME NEW p \in Orders PROVE JournalOK(p)'
  <2>1. JournalOK(p) /\ Latest(p)' = Latest(p)
    BY <1>2 DEF RowInv, Latest
  <2> QED BY <1>2, <1>3, <1>6, <2>1 DEF JournalOK
<1>8. /\ Work("withdrawn", job[t]) /\ Moves(t, "withdrawn", job[t])
      /\ "withdrawn" \in Labels
  BY <1>1, <1>2, WorkOfThread DEF Goto, Moves, Work, Labels
<1>9. ASSUME pc'[t] = "withdrawn", job'[t] = job[t] PROVE RowOK(t)'
  <2>1. Order(t)' = o
    BY <1>9 DEF Order
  <2> QED BY <1>1, <1>2, <1>9, <2>1 DEF RowOK, Holding, Owning, RowAt, Pipeline, Placed
<1> QED BY <1>4, <1>5, <1>7, <1>8, <1>9, ThreadSteps

\* A cancellation looks the order up before it writes anything.
LEMMA LookupSteps ==
    ASSUME RowInv, NEW t \in Threads, CancelLookup(t)
    PROVE  RowInv'
<1> DEFINE o == Order(t)
           j == OnRow(job[t], Len(journal[o]), Latest(o))
<1>1. pc[t] = "cancel" /\ o \in Orders /\ Work(pc[t], job[t]) /\ DOMAIN job = Threads
  BY OrderOfWork, WorkOfThread DEF CancelLookup, RowInv, TypeInv
<1>2. SharedOK' /\ UNCHANGED <<journal, venue>>
  BY DEF CancelLookup, store, memory, history, SharedOK, RowInv, TypeInv, TypeOK
<1>3. CASE journal[o] = <<>>
  BY <1>2, <1>3, QuietFinish DEF CancelLookup
<1>4. CASE journal[o] # <<>>
  <2>1. /\ Len(journal[o]) \in Nat /\ Len(journal[o]) > 0
        /\ Latest(o) \in States /\ Latest(o) = journal[o][Len(journal[o])]
    BY <1>1, <1>4, LatestIsRow DEF RowInv, TypeInv
  <2>2. /\ j \in Jobs /\ j.command = job[t].command
        /\ j.seq = Len(journal[o]) /\ j.state = Latest(o)
    BY <1>1, <2>1, NextRow DEF Work
  <2>3. Moves(t, "pending", j)
    BY <1>1, <1>4 DEF CancelLookup, Moves, OnRow
  <2> HIDE DEF j
  <2>4. Work("pending", j) /\ "pending" \in Labels
    BY <1>1, <2>2 DEF Work, Labels
  <2>5. ASSUME pc'[t] = "pending", job'[t] = j PROVE RowOK(t)'
    <3>1. Order(t)' = o
      BY <2>2, <2>5 DEF Order
    <3> QED BY <1>2, <2>1, <2>2, <2>5, <3>1 DEF RowOK, Holding, Owning, Pipeline, Placed
  <2> QED BY <1>2, <2>3, <2>4, <2>5, JournalUnmoved, ThreadSteps
<1> QED BY <1>3, <1>4

\* The pipeline of a submission.
LEMMA SubmitSteps ==
    ASSUME RowInv, NEW t \in Threads, Submit(t)
    PROVE  RowInv'
<1>t. pc[t] # "idle" => Order(t) \in Orders /\ RowOK(t)
  BY OrderOfWork DEF RowInv, TypeInv
<1>s. UNCHANGED <<store, memory, history>> => SharedOK' /\ UNCHANGED <<journal, venue>>
  BY DEF store, memory, history, SharedOK, RowInv, TypeInv, TypeOK
<1>1. CASE Known(t)
  BY <1>1, <1>s, QuietFinish DEF Known
<1>2. CASE Unknown(t)
  <2>1. Order(t) \in Orders /\ RowOK(t) /\ venue[Order(t)] = "none"
    BY <1>2, <1>t DEF Unknown, RowInv, JournalOK
  <2> QED BY <1>2, <1>s, <2>1, GotoSteps DEF Unknown, Labels, Holding, Owning, RowOK, Placed
<1>3. CASE Allow(t)
  <2>1. venue[Order(t)] \in Live \cup {"none"}
    BY <1>3, <1>t DEF Allow, RowOK, Pipeline
  <2> QED BY <1>3, <1>s, <2>1, GotoSteps DEF Allow, Labels, Holding, RowAt, Placed
<1>4. CASE Create(t) \/ Reject(t) \/ Prepare(t) \/ RateLimited(t) \/ Submitting(t) \/ Submitted(t)
  BY <1>4, StepsWrite DEF Create, Reject, Prepare, RateLimited, Submitting, Submitted, Writes
<1>5. CASE Answered(t)
  <2>1. venue[Order(t)] \in Live
    BY <1>5, AnswerIsLive DEF Answered
  <2>2. <<pc[t], venue[Order(t)], "idle">> \in Writes
    BY <1>5, <2>1 DEF Answered, Writes
  <2> QED BY <1>5, <2>2, StepsWrite DEF Answered
<1> QED BY <1>1, <1>2, <1>3, <1>4, <1>5, SendSteps DEF Submit

\* The steps of a cancellation, a reconciliation, a refresh and the kill switch.
LEMMA OtherCommandSteps ==
    ASSUME RowInv, NEW t \in Threads,
           Cancel(t) \/ ReadJournal(t) \/ Compare(t) \/ Conclude(t) \/ ReadPosition(t)
           \/ MarkPosition(t) \/ SwitchKill(t)
    PROVE  RowInv'
<1>t. WorkOK(t) /\ RowOK(t)
  BY DEF RowInv, TypeInv
<1>s. UNCHANGED <<store, memory, history>> => SharedOK' /\ UNCHANGED <<journal, venue>>
  BY DEF store, memory, history, SharedOK, RowInv, TypeInv, TypeOK
<1>1. CASE CancelPending(t) \/ Canceled(t) \/ CancelUnmatched(t)
  BY <1>1, StepsWrite DEF CancelPending, Canceled, CancelUnmatched, Writes
<1>8. CASE WithdrawNothing(t)
  BY <1>8, <1>s, <1>t, GotoSteps
     DEF WithdrawNothing, Labels, Holding, Owning, RowAt, Pipeline, Placed
<1>2. CASE ReadJournal(t)
  <2>1. [o \in Orders |-> Latest(o)] \in Views
    BY LatestIsRow DEF Views, RowInv, TypeInv
  <2> QED BY <1>2, <1>s, <2>1, ViewSteps DEF ReadJournal
<1>3. CASE Compare(t)
  <2>1. Drifts(job[t].view) \in BOOLEAN
    BY DEF Drifts
  <2>2. Drifts(job[t].view) \in Views
    BY <2>1 DEF Views
  <2> QED BY <1>3, <1>s, <2>1, <2>2, ViewSteps DEF Compare
<1>4. CASE Conclude(t)
  <2>1. paused' \in BOOLEAN
    BY <1>4, <1>t DEF Conclude, WorkOK
  <2>2. UNCHANGED <<journal, venue>> /\ SharedOK'
    BY <1>4, <2>1 DEF Conclude, store, history, SharedOK, RowInv, TypeInv, TypeOK
  <2> QED BY <1>4, <2>2, QuietFinish DEF Conclude
<1>5. CASE ReadPosition(t)
  <2>1. position \in [Orders -> Nat] /\ position \in Views
    BY DEF RowInv, TypeInv, TypeOK, Views
  <2> QED BY <1>5, <1>s, <2>1, ViewSteps DEF ReadPosition
<1>6. CASE MarkPosition(t)
  <2>1. position' \in [Orders -> Nat]
    BY <1>6, <1>t DEF MarkPosition, WorkOK, RowInv, TypeInv, TypeOK
  <2>2. UNCHANGED <<journal, venue>> /\ SharedOK'
    BY <1>6, <2>1 DEF MarkPosition, memory, history, SharedOK, RowInv, TypeInv, TypeOK
  <2> QED BY <1>6, <2>2, QuietFinish DEF MarkPosition
<1>7. CASE SwitchKill(t)
  <2>1. UNCHANGED <<journal, venue>> /\ SharedOK'
    BY <1>7 DEF SwitchKill, store, history, SharedOK, RowInv, TypeInv, TypeOK
  <2> QED BY <1>7, <2>1, QuietFinish DEF SwitchKill
<1> QED BY <1>1, <1>2, <1>3, <1>4, <1>5, <1>6, <1>7, <1>8, LookupSteps, WithdrawSteps DEF Cancel

\* A restart rewrites the latest row of an order, if its outcome is open.
LEMMA RestartRows ==
    ASSUME RowInv, Restart
    PROVE  /\ journal' \in [Orders -> Seq(States)]
           /\ \A o \in Orders :
                /\ Len(journal'[o]) = Len(journal[o])
                /\ \A i \in 1 .. Len(journal[o]) - 1 : journal'[o][i] = journal[o][i]
                /\ Latest(o)' = Recovered(Latest(o))
                /\ venue'[o] = Latest(o)' /\ (journal'[o] = <<>> <=> journal[o] = <<>>)
           /\ venue' \in [Orders -> States \cup {"none"}]
<1> DEFINE row(o, i) == IF i = Len(journal[o]) THEN Recovered(journal[o][i]) ELSE journal[o][i]
           rows == [o \in Orders |-> [i \in DOMAIN journal[o] |-> row(o, i)]]
           latest == [o \in Orders |-> IF rows[o] = <<>> THEN "none" ELSE Last(rows[o])]
<1>1. journal' = rows /\ venue' = latest
  BY DEF Restart
<1>2. ASSUME NEW o \in Orders
      PROVE  /\ rows[o] \in Seq(States) /\ Len(rows[o]) = Len(journal[o])
             /\ \A i \in 1 .. Len(journal[o]) : rows[o][i] = row(o, i)
             /\ Len(journal[o]) \in Nat /\ DOMAIN journal[o] = 1 .. Len(journal[o])
  <2>1. journal[o] \in Seq(States)
    BY DEF RowInv, TypeInv, TypeOK
  <2>2. Len(journal[o]) \in Nat /\ DOMAIN journal[o] = 1 .. Len(journal[o])
    BY <2>1
  <2>3. \A i \in 1 .. Len(journal[o]) : row(o, i) \in States
    BY <2>1, StateFacts DEF Recovered
  <2>4. rows[o] \in [1 .. Len(journal[o]) -> States]
    BY <2>2, <2>3
  <2> HIDE DEF row
  <2>5. rows[o] \in Seq(States) /\ Len(rows[o]) = Len(journal[o])
    BY <2>2, <2>4, SeqDef, LenProperties
  <2> QED BY <2>2, <2>5
<1>3. ASSUME NEW o \in Orders
      PROVE  /\ rows[o] = <<>> <=> journal[o] = <<>>
             /\ latest[o] = Recovered(Latest(o)) /\ latest[o] \in States \cup {"none"}
  <2>1. /\ rows[o] = <<>> <=> Len(rows[o]) = 0
        /\ journal[o] = <<>> <=> Len(journal[o]) = 0
    BY <1>2, EmptySeq DEF RowInv, TypeInv, TypeOK
  <2>2. rows[o] = <<>> <=> journal[o] = <<>>
    BY <1>2, <2>1
  <2>3. CASE journal[o] = <<>>
    BY <2>2, <2>3 DEF Latest, Recovered, Uncertain
  <2>4. CASE journal[o] # <<>>
    <3>1. Len(journal[o]) \in 1 .. Len(journal[o])
      BY <1>2, <2>1, <2>4
    <3>2. Last(rows[o]) = Recovered(journal[o][Len(journal[o])])
      BY <1>2, <3>1 DEF Last
    <3>3. Recovered(journal[o][Len(journal[o])]) \in States
      BY <3>1, LatestIsRow, StateFacts DEF Recovered, RowInv, TypeInv
    <3> HIDE DEF rows
    <3> QED BY <2>2, <2>4, <3>2, <3>3 DEF Latest, Last
  <2> QED BY <2>2, <2>3, <2>4
<1>4. \A o \in Orders : Latest(o)' = latest[o]
  BY <1>1 DEF Latest
<1> HIDE DEF rows, latest
<1>5. \A o \in Orders : rows[o] \in Seq(States)
  BY <1>2
<1>6. journal' \in [Orders -> Seq(States)]
  BY <1>1, <1>5 DEF rows
<1>7. venue' \in [Orders -> States \cup {"none"}]
  BY <1>1, <1>3 DEF latest
<1> QED BY <1>1, <1>2, <1>3, <1>4, <1>6, <1>7

\* A restart forgets threads and venue, and keeps the journal in order.
LEMMA RestartSteps == ASSUME RowInv, Restart PROVE RowInv'
<1>1. /\ pc' = [t \in Threads |-> "idle"] /\ job' = [t \in Threads |-> Blank]
      /\ kill_switch' = FALSE /\ paused' \in BOOLEAN /\ restarts' \in 0 .. MaxRestarts
      /\ UNCHANGED <<position, received, sent>>
  BY RuntimeConstants DEF Restart, RowInv, TypeInv, TypeOK
<1>2. Blank \in Jobs /\ Blank.command = None /\ Blank.seq = 0 /\ Blank.state = None
  BY DEF Blank, Jobs, Views
<1>3. \A t \in Threads : pc'[t] = "idle" /\ job'[t] = Blank
  BY <1>1
<1>4. TypeOK'
  <2>1. pc' \in [Threads -> Labels]
    BY <1>1 DEF Labels
  <2>2. \A t \in Threads :
            /\ pc'[t] = "idle" <=> job'[t].command = None
            /\ job'[t].command \in Commands \cup {None} /\ job'[t].seq \in Nat
            /\ job'[t].state \in States \cup {None}
    BY <1>2, <1>3
  <2>3. kill_switch' \in BOOLEAN /\ venue' \in [Orders -> {"none"} \cup States]
    BY <1>1, RestartRows
  <2> QED BY <1>1, <2>1, <2>2, <2>3, RestartRows DEF TypeOK, RowInv, TypeInv
<1>5. job' = [t \in Threads |-> job'[t]] /\ \A t \in Threads : WorkOK(t)'
  BY <1>1, <1>2, <1>3 DEF WorkOK
<1>6. \A t \in Threads : RowOK(t)'
  BY <1>3 DEF RowOK, Holding, Owning, Pipeline, Placed
<1>7. ASSUME NEW o \in Orders PROVE JournalOK(o)'
  <2>1. /\ JournalOK(o) /\ Len(journal'[o]) = Len(journal[o])
        /\ \A i \in 1 .. Len(journal[o]) - 1 : journal'[o][i] = journal[o][i]
        /\ Latest(o)' = Recovered(Latest(o)) /\ venue'[o] = Latest(o)'
        /\ journal'[o] = <<>> <=> journal[o] = <<>>
    BY RestartRows DEF RowInv
  <2>2. Latest(o)' \in Early \cup {"REJECTED", "CANCELED"} => Latest(o) = Latest(o)'
    BY <2>1 DEF Recovered, Early
  <2>3. Latest(o) \in Over => Latest(o)' = Latest(o)
    BY <2>1 DEF Recovered, Uncertain, Over
  <2>4. journal'[o] = <<>> => venue'[o] = "none"
    BY <2>1 DEF Latest
  <2> QED BY <2>1, <2>2, <2>3, <2>4 DEF JournalOK, Over
<1> QED BY <1>4, <1>5, <1>6, <1>7 DEF RowInv, TypeInv

\* Every step keeps rows and threads in order.
LEMMA RowNext == RowInv /\ [Next]_vars => RowInv'
<1> SUFFICES ASSUME RowInv, [Next]_vars PROVE RowInv'
  OBVIOUS
<1>1. CASE UNCHANGED vars
  BY <1>1 DEF vars, store, memory, history, RowInv, TypeInv, TypeOK, WorkOK, RowOK, JournalOK,
              Latest, Order
<1>2. CASE Next
  BY <1>2, RestartSteps, ReceiveSteps, SubmitSteps, OtherCommandSteps DEF Next
<1> QED BY <1>1, <1>2

\* Empty journals are in order.
LEMMA RowInit == Init => RowInv
<1> SUFFICES ASSUME Init PROVE RowInv
  OBVIOUS
<1>1. Blank \in Jobs /\ Blank.command = None /\ Blank.seq = 0 /\ Blank.state = None
  BY DEF Blank, Jobs, Views
<1>2. TypeOK
  <2>1. pc \in [Threads -> Labels]
    BY DEF Init, Labels
  <2>2. \A t \in Threads :
            /\ pc[t] = "idle" <=> job[t].command = None
            /\ job[t].command \in Commands \cup {None} /\ job[t].seq \in Nat
            /\ job[t].state \in States \cup {None}
    BY <1>1 DEF Init
  <2>3. kill_switch \in BOOLEAN /\ paused \in BOOLEAN
    BY DEF Init
  <2>5. restarts \in 0 .. MaxRestarts
    BY RuntimeConstants DEF Init
  <2>4. journal \in [Orders -> Seq(States)] /\ venue \in [Orders -> {"none"} \cup States]
    <3>1. <<>> \in Seq(States)
      BY EmptySeq
    <3> QED BY <3>1 DEF Init
  <2> QED BY <2>1, <2>2, <2>3, <2>4, <2>5 DEF Init, TypeOK
<1>3. job = [t \in Threads |-> job[t]] /\ \A t \in Threads : WorkOK(t) /\ RowOK(t)
  BY <1>1 DEF Init, WorkOK, RowOK, Holding, Owning, Pipeline, Placed
<1>4. \A o \in Orders : JournalOK(o)
  BY DEF Init, JournalOK, Latest, Early
<1> QED BY <1>2, <1>3, <1>4 DEF RowInv, TypeInv

\* Rows and threads are always in order.
LEMMA RowInvariant == Spec => []RowInv
BY RowInit, RowNext, PTL DEF Spec

\* Type correctness: journals, commands, the venue and the work of each thread.
THEOREM TypeCorrect == Spec => []TypeOK
<1>1. RowInv => TypeOK
  BY DEF RowInv, TypeInv
<1> QED BY <1>1, RowInvariant, PTL

-----------------------------------------------------------------------------
(* How the journals move *)

\* A step writes nothing, one row of a thread, or is a restart.
LEMMA JournalMoves ==
    ASSUME RowInv, Next
    PROVE  \/ UNCHANGED journal
           \/ Restart
           \/ \E t \in Threads : \E state, label :
                <<pc[t], state, label>> \in Writes /\ Advance(t, state, label)
<1>1. ASSUME NEW t \in Threads, NEW state, NEW label, <<pc[t], state, label>> \in Writes,
             Step(t, state, label)
      PROVE  UNCHANGED journal \/ Advance(t, state, label)
  BY <1>1 DEF Step, Raise, store
<1>2. ASSUME NEW t \in Threads, Submit(t)
      PROVE  UNCHANGED journal \/ \E state, label :
                <<pc[t], state, label>> \in Writes /\ Advance(t, state, label)
  <2>1. CASE Create(t) \/ Reject(t) \/ Prepare(t) \/ RateLimited(t) \/ Submitting(t) \/ Submitted(t)
    BY <1>1, <2>1 DEF Create, Reject, Prepare, RateLimited, Submitting, Submitted, Writes
  <2>2. CASE Answered(t)
    <3>1. <<pc[t], venue[Order(t)], "idle">> \in Writes
      BY <2>2, AnswerIsLive DEF Answered, Writes
    <3> QED BY <1>1, <2>2, <3>1 DEF Answered
  <2> QED BY <1>2, <2>1, <2>2 DEF Submit, Known, Unknown, Allow, Find, Place, ReadCurrent, Fill, store
<1>3. ASSUME NEW t \in Threads, Cancel(t)
      PROVE  UNCHANGED journal \/ \E state, label :
                <<pc[t], state, label>> \in Writes /\ Advance(t, state, label)
  <2>1. CASE CancelPending(t) \/ Canceled(t) \/ CancelUnmatched(t)
    BY <1>1, <2>1 DEF CancelPending, Canceled, CancelUnmatched, Writes
  <2> QED BY <1>3, <2>1 DEF Cancel, CancelLookup, Withdraw, WithdrawNothing, store
<1> QED BY <1>2, <1>3
     DEF Next, Receive, ReadJournal, Compare, Conclude, ReadPosition, MarkPosition, SwitchKill, store

\* The journals of the other orders, and of the order of the thread.
LEMMA AdvanceMoves ==
    ASSUME RowInv, NEW t \in Threads, NEW state, NEW label,
           <<pc[t], state, label>> \in Writes, Advance(t, state, label), journal' # journal,
           NEW o \in Orders, journal'[o] # journal[o]
    PROVE  /\ o = Order(t) /\ state \in States /\ Latest(o)' = state
           /\ journal'[o] = Append(journal[o], state)
           /\ journal[o] = <<>> \/ state \in Transitions(Latest(o))
           /\ journal[o] = <<>> => job[t].seq = 0
           /\ journal[o] # <<>> => Latest(o) = job[t].state /\ job[t].seq > 0
<1>1. pc[t] # "idle" /\ state \in States /\ UNCHANGED venue
  BY StateFacts DEF Advance, memory
<1>2. Order(t) \in Orders /\ job[t].seq \in Nat
  BY <1>1, OrderOfWork DEF RowInv, TypeInv
<1>3. PICK q \in Orders : q = Order(t)
  BY <1>2
<1>4. /\ job[t].seq = Len(journal[q]) /\ journal' = [journal EXCEPT ![q] = Append(@, state)]
      /\ journal[q] = <<>> \/ (state \in Transitions(Latest(q)) /\ Latest(q) = job[t].state)
  BY <1>1, <1>3, RowWritten
<1>5. /\ Latest(q)' = state /\ journal'[q] = Append(journal[q], state)
      /\ \A p \in Orders : p # q => journal'[p] = journal[p]
  BY <1>1, <1>4, WrittenExtends
<1>6. /\ journal[q] # <<>> => Len(journal[q]) > 0
      /\ journal[q] = <<>> => Len(journal[q]) = 0
  BY LatestIsRow, EmptySeq DEF RowInv, TypeInv
<1>7. o = q
  BY <1>5
<1> QED BY <1>1, <1>3, <1>4, <1>5, <1>6, <1>7

\* The journal of an order only grows, by a transition legal from its latest row.
THEOREM JournalLegal == Spec => JournalGrowsLegally
<1> DEFINE Grown ==
        \A o \in Orders :
            journal'[o] # journal[o] =>
                \/ restarts' # restarts /\ Len(journal'[o]) = Len(journal[o])
                \/ /\ journal'[o] = Append(journal[o], Last(journal'[o]))
                   /\ journal[o] = <<>> \/ Last(journal'[o]) \in Transitions(Latest(o))
<1>1. RowInv /\ [Next]_vars => [Grown]_vars
  <2> SUFFICES ASSUME RowInv, Next, NEW o \in Orders, journal'[o] # journal[o]
               PROVE  \/ restarts' # restarts /\ Len(journal'[o]) = Len(journal[o])
                      \/ /\ journal'[o] = Append(journal[o], Last(journal'[o]))
                         /\ journal[o] = <<>> \/ Last(journal'[o]) \in Transitions(Latest(o))
    OBVIOUS
  <2>1. CASE Restart
    <3>1. Len(journal'[o]) = Len(journal[o])
      BY <2>1, RestartRows
    <3>2. restarts \in Nat /\ restarts' = restarts + 1
      BY <2>1, RuntimeConstants DEF Restart, RowInv, TypeInv, TypeOK
    <3> QED BY <3>1, <3>2
  <2>2. ASSUME NEW t \in Threads, NEW state, NEW label, <<pc[t], state, label>> \in Writes,
               Advance(t, state, label)
        PROVE  /\ journal'[o] = Append(journal[o], Last(journal'[o]))
               /\ journal[o] = <<>> \/ Last(journal'[o]) \in Transitions(Latest(o))
    <3>1. /\ journal'[o] = Append(journal[o], state) /\ state \in States
          /\ journal[o] = <<>> \/ state \in Transitions(Latest(o))
      BY <2>2, AdvanceMoves
    <3>2. journal[o] \in Seq(States)
      BY DEF RowInv, TypeInv, TypeOK
    <3>3. Last(journal'[o]) = state
      BY <3>1, <3>2 DEF Last
    <3> QED BY <3>1, <3>3
  <2> QED BY <2>1, <2>2, JournalMoves
<1> QED BY <1>1, RowInvariant, PTL DEF Spec, JournalGrowsLegally

\* An order at the venue is not called unsent or rejected.
Unsent == {"none", "CREATED", "PREPARED", "REJECTED"}

\* Every step keeps what was sent in the journal.
LEMMA SentNext == RowInv /\ SentIsJournaled /\ [Next]_vars => SentIsJournaled'
<1> SUFFICES ASSUME RowInv, SentIsJournaled, [Next]_vars, NEW o \in sent'
             PROVE  Latest(o)' \notin Unsent
  BY DEF SentIsJournaled, Unsent
<1>o. o \in Orders /\ Latest(o) \in States \cup {"none"} /\ (o \in sent => Latest(o) \notin Unsent)
  <2>1. RowInv'
    BY RowNext
  <2>2. o \in Orders
    BY <2>1 DEF RowInv, TypeInv, TypeOK
  <2> QED BY <2>2, LatestIsRow DEF SentIsJournaled, Unsent, RowInv, TypeInv
<1>1. ASSUME NEW t \in Threads, Place(t) PROVE Latest(o)' \notin Unsent
  <2>1. Latest(o)' = Latest(o) /\ (o \in sent \/ o = Order(t)) /\ pc[t] = "place"
    BY <1>1 DEF Place, Latest, store
  <2>2. CASE o = Order(t)
    <3>1. /\ job[t].seq \in Nat /\ job[t].seq > 0 /\ job[t].seq <= Len(journal[o])
          /\ journal[o][job[t].seq] = "SUBMITTING" /\ JournalOK(o)
      BY <1>o, <2>1, <2>2, OrderOfWork
         DEF RowInv, TypeInv, RowOK, Holding, Owning, RowAt
    <3>2. Len(journal[o]) \in Nat /\ journal[o] # <<>> /\ Latest(o) = journal[o][Len(journal[o])]
      BY <1>o, <3>1, LatestIsRow, EmptySeq DEF RowInv, TypeInv
    <3>3. job[t].seq = Len(journal[o]) \/ job[t].seq \in 1 .. Len(journal[o]) - 1
      BY <3>1, <3>2
    <3>4. Latest(o) # "none"
      BY <1>o, <3>2, LatestIsRow DEF RowInv, TypeInv
    <3> QED BY <2>1, <3>1, <3>2, <3>3, <3>4 DEF JournalOK, Early, Unsent
  <2> QED BY <1>o, <2>1, <2>2
<1>2. CASE UNCHANGED <<journal, sent>>
  BY <1>o, <1>2 DEF Latest
<1>3. ASSUME Next, ~Restart, \A t \in Threads : ~Place(t) PROVE UNCHANGED sent
  <2>1. ASSUME NEW t \in Threads, NEW state, NEW label, Step(t, state, label) PROVE UNCHANGED sent
    BY <2>1 DEF Step, Advance, Raise, history
  <2>2. ASSUME NEW t \in Threads, Submit(t) PROVE UNCHANGED sent
    BY <1>3, <2>1, <2>2 DEF Submit, Known, Unknown, Create, Allow, Reject, Prepare, RateLimited,
       Submitting, Find, ReadCurrent, Fill, Submitted, Answered, history
  <2>3. ASSUME NEW t \in Threads, Cancel(t) PROVE UNCHANGED sent
    BY <2>1, <2>3 DEF Cancel, CancelLookup, CancelPending, Withdraw, Canceled, WithdrawNothing,
       CancelUnmatched, history
  <2> QED BY <1>3, <2>2, <2>3
       DEF Next, Receive, ReadJournal, Compare, Conclude, ReadPosition, MarkPosition, SwitchKill,
           history
<1>4. CASE Restart
  <2>1. o \in sent /\ Latest(o)' = Recovered(Latest(o))
    BY <1>4, <1>o, RestartRows DEF Restart
  <2> QED BY <1>o, <2>1 DEF Recovered, Unsent
<1>5. ASSUME UNCHANGED sent, NEW t \in Threads, NEW state, NEW label,
             <<pc[t], state, label>> \in Writes, Advance(t, state, label)
      PROVE  Latest(o)' \notin Unsent
  <2>1. CASE journal'[o] = journal[o]
    BY <1>5, <1>o, <2>1 DEF Latest
  <2>2. CASE journal'[o] # journal[o]
    <3>1. /\ Latest(o)' = state /\ o = Order(t) /\ state \in States
          /\ journal[o] = <<>> \/ state \in Transitions(Latest(o))
          /\ journal[o] # <<>> => Latest(o) = job[t].state
      BY <1>5, <1>o, <2>2, AdvanceMoves
    <3>2. journal[o] # <<>> /\ Latest(o) \notin Unsent
      BY <1>5, <1>o DEF Unsent, Latest
    <3>3. pc[t] \in Holding => job[t].state = RowAt(pc[t])
      BY DEF RowInv, RowOK
    <3>4. pc[t] \notin {"evaluate", "prepare", "rate", "create"}
      <4>1. pc[t] # "create"
        <5>1. pc[t] = "create" => job[t].seq = 0
          BY DEF RowInv, RowOK
        <5>2. job[t].seq > 0
          BY <1>5, <1>o, <2>2, <3>2, AdvanceMoves
        <5> QED BY <5>1, <5>2
      <4> QED BY <3>1, <3>2, <3>3, <4>1 DEF Holding, RowAt, Unsent
    <3> QED BY <1>5, <3>1, <3>4, StateFacts DEF Writes, Live, Unsent
  <2> QED BY <2>1, <2>2
<1>6. CASE UNCHANGED vars
  BY <1>2, <1>6 DEF vars, store, history
<1>7. ASSUME Next, ~Restart, \A t \in Threads : ~Place(t) PROVE Latest(o)' \notin Unsent
  BY <1>2, <1>3, <1>5, <1>7, JournalMoves
<1> QED BY <1>1, <1>4, <1>6, <1>7

\* What was sent to the venue is journaled, and is never called unsent or rejected:
\* the row of a submission is written before the call.
THEOREM SentStaysJournaled == Spec => []SentIsJournaled
<1>1. Init => SentIsJournaled
  BY DEF Init, SentIsJournaled
<1> QED BY <1>1, SentNext, RowInvariant, PTL DEF Spec

-----------------------------------------------------------------------------
(* The thread of an order whose outcome is open *)

\* The next row of an owner is legal and its place is free: it never raises.
LEMMA OwnerWrites ==
    ASSUME RowInv, NEW o \in Orders, NEW t \in Threads, Owns(t, o), NEW state, NEW label,
           <<pc[t], state, label>> \in Writes, Step(t, state, label),
           pc[t] = "answered" => state = venue[o]
    PROVE  journal'[o] # journal[o]
<1>1. /\ pc[t] \in {"sent", "answered", "withdrawn", "unmatched"} /\ pc[t] # "idle" /\ state \in States
      /\ Order(t) = o /\ job[t].seq = Len(journal[o]) /\ job[t].state = RowAt(pc[t])
      /\ RowOK(t) /\ JournalOK(o)
  BY StateFacts DEF Owns, Owning, Writes, RowInv, RowOK, Holding
<1>2. Len(journal[o]) \in Nat /\ Len(journal[o]) > 0 /\ journal[o] # <<>>
      /\ Latest(o) = job[t].state
  <2>1. Len(journal[o]) \in Nat /\ job[t].seq > 0
    BY <1>1, LatestIsRow DEF RowInv, TypeInv, RowOK, Holding, Owning
  <2> QED BY <1>1, <2>1, LatestIsRow, EmptySeq DEF RowOK, RowInv, TypeInv
<1>3. state \in Transitions(job[t].state)
  <2>1. CASE pc[t] = "sent"
    BY <1>1, <2>1, TransitionFacts DEF Writes, RowAt, Live
  <2>2. CASE pc[t] \in {"withdrawn", "unmatched"}
    BY <1>1, <2>2, TransitionFacts DEF Writes, RowAt, Live
  <2>3. CASE pc[t] = "answered"
    <3>2. job[t].state = "SUBMITTED"
      BY <1>1, <2>3 DEF RowAt
    <3>3. state \in {"ACCEPTED", "FILLED"} => state \in Transitions("SUBMITTED")
      BY TransitionFacts
    <3>4. venue[o] \in Live /\ venue[o] # "CANCELED"
      BY <1>1, <1>2, <2>3, <3>2, AnswerIsLive DEF JournalOK, Over
    <3> QED BY <1>1, <2>3, <3>2, <3>3, <3>4 DEF Writes, Live
  <2> QED BY <1>1, <2>1, <2>2, <2>3
<1>4. ~Raise(t, state)
  BY <1>1, <1>2, <1>3 DEF Raise, Legal, Taken
<1>5. journal' = [journal EXCEPT ![o] = Append(@, state)]
  BY <1>1, <1>2, <1>4, RowWritten DEF Step
<1>6. journal'[o] = Append(journal[o], state) /\ journal[o] \in Seq(States)
  BY <1>5 DEF RowInv, TypeInv, TypeOK
<1>7. Len(journal'[o]) = Len(journal[o]) + 1
  BY <1>1, <1>6, AppendProperties
<1> QED BY <1>2, <1>7

\* A thread that keeps its place as the owner of an order.
LEMMA OwnerWaits ==
    ASSUME NEW o \in Orders, NEW t \in Threads, Owns(t, o), journal'[o] = journal[o],
           pc'[t] \in Owning, job'[t].command = job[t].command, job'[t].seq = job[t].seq
    PROVE  Owns(t, o)'
BY DEF Owns, Order

\* The owner of an order of open outcome keeps it until the outcome is written.
LEMMA OwnerStays ==
    ASSUME RowInv, Next, ~Restart, NEW o \in Orders, NEW t \in Threads, Owns(t, o),
           journal'[o] = journal[o]
    PROVE  Owns(t, o)'
<1>t. /\ pc[t] \in Owning /\ Order(t) = o /\ DOMAIN pc = Threads /\ DOMAIN job = Threads
  BY DEF Owns, RowInv, TypeInv, TypeOK
<1>1. ASSUME pc'[t] = pc[t], job'[t] = job[t] PROVE Owns(t, o)'
  BY <1>1, <1>t, OwnerWaits
<1>2. ASSUME NEW u \in Threads, u # t, NEW label, pc' = [pc EXCEPT ![u] = label],
             job' = job \/ \E j : job' = [job EXCEPT ![u] = j]
      PROVE  Owns(t, o)'
  BY <1>1, <1>2, <1>t
<1>3. ASSUME NEW u \in Threads, NEW state, NEW label, Step(u, state, label), u # t
      PROVE  Owns(t, o)'
  <2>1. pc'[t] = pc[t] /\ job'[t] = job[t]
    BY <1>3, <1>t DEF Step, Advance, Raise, Finish
  <2> QED BY <1>1, <2>1
<1>4. ASSUME NEW u \in Threads, u # t,
             \/ \E c \in Commands : Receive(u, c)
             \/ Submit(u) \/ Cancel(u)
             \/ ReadJournal(u) \/ Compare(u) \/ Conclude(u)
             \/ ReadPosition(u) \/ MarkPosition(u) \/ SwitchKill(u)
      PROVE  Owns(t, o)'
  <2>1. CASE Submit(u)
    <3>1. CASE Known(u) \/ Unknown(u) \/ Allow(u) \/ Find(u) \/ Place(u) \/ ReadCurrent(u) \/ Fill(u)
      BY <1>1, <1>4, <1>t, <3>1
         DEF Known, Unknown, Allow, Find, Place, ReadCurrent, Fill, Goto, Finish
    <3> QED BY <1>3, <1>4, <2>1, <3>1
         DEF Submit, Create, Reject, Prepare, RateLimited, Submitting, Submitted, Answered
  <2>2. CASE Cancel(u)
    <3>1. CASE CancelLookup(u) \/ Withdraw(u) \/ WithdrawNothing(u)
      BY <1>1, <1>4, <1>t, <3>1 DEF CancelLookup, Withdraw, WithdrawNothing, Goto, Finish
    <3> QED BY <1>3, <1>4, <2>2, <3>1 DEF Cancel, CancelPending, Canceled, CancelUnmatched
  <2>3. ASSUME NEW c \in Commands, Receive(u, c) PROVE Owns(t, o)'
    BY <1>1, <1>4, <1>t, <2>3 DEF Receive
  <2>4. CASE ReadJournal(u) \/ Compare(u) \/ Conclude(u) \/ ReadPosition(u) \/ MarkPosition(u)
             \/ SwitchKill(u)
    BY <1>1, <1>4, <1>t, <2>4 DEF ReadJournal, Compare, Conclude, ReadPosition, MarkPosition,
                                  SwitchKill, Finish
  <2> QED BY <1>4, <2>1, <2>2, <2>3, <2>4
<1>5. CASE Find(t) \/ Place(t) \/ Fill(t)
  BY <1>5, <1>t, OwnerWaits DEF Find, Place, Fill, Goto, Owning
<1>10. CASE ReadCurrent(t)
  <2>1. job[t] \in Jobs
    BY DEF RowInv, TypeInv, WorkOK
  <2>2. pc'[t] = "fill" /\ job'[t] = [job[t] EXCEPT !.view = position]
    BY <1>10, <1>t DEF ReadCurrent
  <2>3. job'[t].command = job[t].command /\ job'[t].seq = job[t].seq
    BY <2>1, <2>2 DEF Jobs
  <2> QED BY <2>2, <2>3, OwnerWaits DEF Owning
<1>6. CASE Withdraw(t) \/ WithdrawNothing(t)
  BY <1>6, <1>t, OwnerWaits DEF Withdraw, WithdrawNothing, Goto, Owning
<1>7. ~Submitted(t) /\ ~Answered(t) /\ ~Canceled(t) /\ ~CancelUnmatched(t)
  <2>1. CASE Submitted(t)
    <3>1. <<pc[t], "SUBMITTED", "answered">> \in Writes /\ pc[t] = "sent"
      BY <2>1 DEF Submitted, Writes
    <3> QED BY <2>1, <3>1, OwnerWrites DEF Submitted
  <2>2. CASE Answered(t)
    <3>1. <<pc[t], venue[o], "idle">> \in Writes
      BY <1>t, <2>2, AnswerIsLive DEF Answered, Writes
    <3> QED BY <1>t, <2>2, <3>1, OwnerWrites DEF Answered
  <2>3. CASE Canceled(t)
    <3>1. <<pc[t], "CANCELED", "idle">> \in Writes /\ pc[t] = "withdrawn"
      BY <2>3 DEF Canceled, Writes
    <3> QED BY <2>3, <3>1, OwnerWrites DEF Canceled
  <2>4. CASE CancelUnmatched(t)
    <3>1. <<pc[t], "UNKNOWN", "idle">> \in Writes /\ pc[t] = "unmatched"
      BY <2>4 DEF CancelUnmatched, Writes
    <3> QED BY <2>4, <3>1, OwnerWrites DEF CancelUnmatched
  <2> QED BY <2>1, <2>2, <2>3, <2>4
<1>8. /\ \A c \in Commands : ~Receive(t, c)
      /\ ~ReadJournal(t) /\ ~Compare(t) /\ ~Conclude(t) /\ ~ReadPosition(t) /\ ~MarkPosition(t)
      /\ ~SwitchKill(t) /\ ~CancelLookup(t) /\ ~CancelPending(t)
  BY <1>t DEF Owning, Receive, ReadJournal, Compare, Conclude, ReadPosition, MarkPosition,
              SwitchKill, CancelLookup, CancelPending
<1>9. /\ ~Known(t) /\ ~Unknown(t) /\ ~Create(t) /\ ~Allow(t) /\ ~Reject(t) /\ ~Prepare(t)
      /\ ~RateLimited(t) /\ ~Submitting(t)
  BY <1>t DEF Owning, Known, Unknown, Create, Allow, Reject, Prepare, RateLimited, Submitting
<1> QED BY <1>4, <1>5, <1>6, <1>7, <1>8, <1>9, <1>10 DEF Next, Submit, Cancel

\* Who writes an uncertain row owns the order.
LEMMA WriterOwns ==
    ASSUME RowInv, NEW t \in Threads, NEW state, NEW label,
           <<pc[t], state, label>> \in Writes, Advance(t, state, label), journal' # journal,
           NEW o \in Orders, journal'[o] # journal[o], Latest(o)' \in Uncertain
    PROVE  Owns(t, o)'
<1>1. /\ o = Order(t) /\ state \in Uncertain /\ journal'[o] = Append(journal[o], state)
      /\ pc[t] # "idle" /\ state \in States
  BY AdvanceMoves, StateFacts
<1>2. label \in Owning
  BY <1>1 DEF Writes, Owning, Uncertain, Live
<1>3. DOMAIN pc = Threads /\ DOMAIN job = Threads /\ job[t] \in Jobs
  BY DEF RowInv, TypeInv, TypeOK, WorkOK
<1>4. label # "idle" /\ job[t].seq \in Nat
  BY <1>2, <1>3 DEF Owning, Jobs
<1>5. pc'[t] = label /\ job'[t] = OnRow(job[t], job[t].seq + 1, state)
  BY <1>3, <1>4 DEF Advance, OnRow
<1>6. job'[t].command = job[t].command /\ job'[t].seq = job[t].seq + 1
  <2>1. job[t].seq + 1 \in Nat
    BY <1>4
  <2> QED BY <1>1, <1>3, <1>5, <2>1, NextRow
<1>7. Order(t)' = o
  BY <1>1, <1>6 DEF Order
<1>8. job[t].seq = Len(journal[o])
  BY <1>1, RowWritten
<1>9. Len(journal'[o]) = Len(journal[o]) + 1
  BY <1>1, AppendProperties DEF RowInv, TypeInv, TypeOK
<1> QED BY <1>2, <1>5, <1>6, <1>7, <1>8, <1>9 DEF Owns

\* Every step leaves an order of open outcome with an owner.
LEMMA OwnerNext == RowInv /\ OwnerInv /\ [Next]_vars => OwnerInv'
<1> SUFFICES ASSUME RowInv, OwnerInv, [Next]_vars, NEW o \in Orders, Latest(o)' \in Uncertain
             PROVE  \E t \in Threads : Owns(t, o)'
  BY DEF OwnerInv
<1>1. CASE UNCHANGED vars
  <2>1. PICK t \in Threads : Owns(t, o)
    BY <1>1 DEF OwnerInv, vars, store, Latest
  <2> QED BY <1>1, <2>1 DEF vars, store, Owns, Order
<1>2. CASE Restart
  <2>1. Latest(o)' = Recovered(Latest(o))
    BY <1>2, RestartRows
  <2> QED BY <2>1 DEF Recovered, Uncertain
<1>3. CASE Next /\ ~Restart /\ journal'[o] = journal[o]
  <2>1. PICK t \in Threads : Owns(t, o)
    BY <1>3 DEF OwnerInv, Latest
  <2> QED BY <1>3, <2>1, OwnerStays
<1>4. CASE Next /\ ~Restart /\ journal'[o] # journal[o]
  <2>1. PICK t \in Threads : \E state, label :
            <<pc[t], state, label>> \in Writes /\ Advance(t, state, label)
    BY <1>4, JournalMoves
  <2> QED BY <1>4, <2>1, WriterOwns
<1> QED BY <1>1, <1>2, <1>3, <1>4

\* An order whose outcome is open has a thread that wrote or replayed its latest row.
THEOREM UncertainIsOwned == Spec => []UncertainHasOwner
<1>1. Init => OwnerInv
  BY DEF Init, OwnerInv, Latest, Uncertain
<1>2. RowInv /\ OwnerInv => UncertainHasOwner
  <2> SUFFICES ASSUME RowInv, OwnerInv, NEW o \in Orders, Latest(o) \in Uncertain
               PROVE  \E t \in Threads :
                        job[t].command # None /\ Order(t) = o /\ job[t].seq = Len(journal[o])
    BY DEF UncertainHasOwner
  <2>1. PICK t \in Threads : Owns(t, o)
    BY DEF OwnerInv
  <2>2. job[t].command # None
    BY <2>1 DEF Owns, Owning, RowInv, TypeInv, TypeOK
  <2> QED BY <2>1, <2>2 DEF Owns
<1> QED BY <1>1, <1>2, OwnerNext, RowInvariant, PTL DEF Spec
================================================================================
