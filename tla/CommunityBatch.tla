--------------------------- MODULE CommunityBatch ---------------------------
(***************************************************************************)
(* `txs community batch` (txs_cli_community.rs): every authority of a      *)
(* community wallet works through a JSON file of payments, proposing or    *)
(* voting for each with the Sender of submit_transaction.rs, and writes    *)
(* what happened back to its file at the end. A batch is not atomic: it    *)
(* may be rejected, cut off or killed anywhere, and is then run again.     *)
(*                                                                         *)
(* The wallet is the one of MultiAction, already caged. Sequence numbers   *)
(* are relative to the next one the chain accepts from the account: 0 may  *)
(* execute, a positive number waits behind a gap, a negative one is stale. *)
(***************************************************************************)
EXTENDS MultiAction

CONSTANTS
    Batch,          \* the payments of the file, in its order
    Slow,           \* the recipients that are slow wallets
    Sigs,           \* signatures the wallet requires
    PayDuration,    \* DEFAULT_EPOCHS_EXPIRE
    MaxFaults,      \* bound on the faults of the network and the operators
    MaxAhead        \* bound on the numbers signed ahead of the chain

\* The ratio of multisig_thresh in community_wallet_init.move: more than half.
ASSUME BatchAssumption ==
    /\ Payments \subseteq [payee : {p.payee : p \in Payments}, value : Nat]
    /\ Batch \in Seq(Payments)
    /\ Distinct(Batch)
    /\ Sigs \in 1 .. Cardinality(Auth)
    /\ 2 * Sigs > Cardinality(Auth)
    /\ PayDuration \in Nat
    /\ MaxFaults \in Nat
    /\ MaxAhead \in Nat

VARIABLES
    file,       \* each authority's JSON file
    tool,       \* each authority's running batch
    mempool,    \* transactions of each authority that may still execute
    faults      \* faults so far

batchVars == <<file, tool, mempool, faults>>

allVars == <<vars, batchVars>>

\* What ProposePay records besides the payment; voters None and {} are alike.
Entries == [proposed : {"unset", "yes", "no"}, approved : BOOLEAN, voters : SUBSET Auth]

Lists == [DOMAIN Batch -> Entries]

\* A signed transaction: its number and the payment it proposes.
Txs == [n : -1 .. MaxAhead, pay : Payments]

\* The tool between two runs.
Off == [pc |-> "off", list |-> <<>>, at |-> 1, ahead |-> 0, tx |-> {}, result |-> "none"]

BatchTypeOK ==
    /\ file \in [Auth -> Lists]
    /\ \A a \in Auth :
        /\ tool[a].pc \in {"off", "connected", "working", "waiting"}
        /\ tool[a].pc \in {"working", "waiting"} => tool[a].list \in Lists
        /\ tool[a].at \in 1 .. Len(Batch) + 1
        /\ tool[a].ahead \in -(MaxAhead + 1) .. MaxAhead + 1
        /\ tool[a].tx \subseteq Txs
        /\ Cardinality(tool[a].tx) = (IF tool[a].pc = "waiting" THEN 1 ELSE 0)
        /\ tool[a].result \in {"none", "ok", "failed"}
        /\ \A t \in mempool[a] : t \in Txs /\ t.n >= 0
    /\ faults \in 0 .. MaxFaults

BatchInit ==
    /\ epoch = 0
    /\ caged = TRUE
    /\ owners = Auth
    /\ threshold = Sigs
    /\ offer = <<>>
    /\ claimed = {}
    /\ offerN = None
    /\ props = <<>>
    /\ founders = Auth
    /\ file = [a \in Auth |-> [k \in DOMAIN Batch |->
                  [proposed |-> "unset", approved |-> FALSE, voters |-> {}]]]
    /\ tool = [a \in Auth |-> Off]
    /\ mempool = [a \in Auth |-> {}]
    /\ faults = 0

Fault == faults < MaxFaults /\ faults' = faults + 1

-----------------------------------------------------------------------------
\* The Sender and the chain.

\* Sender::new reads the account's sequence number, and nothing else is read
\* again before the run ends.
Connect(a) ==
    /\ tool[a].pc = "off"
    /\ tool' = [tool EXCEPT ![a] = [Off EXCEPT !.pc = "connected"]]
    /\ UNCHANGED <<vars, file, mempool, faults>>

\* Mutant of Consumed: a transaction left behind stays.
ConsumedKept(pool) == {[t EXCEPT !.n = @ - 1] : t \in pool}

\* One number of the account is used up: the numbers after it come one closer
\* and a transaction left behind can never execute.
Consumed(pool) == {[t EXCEPT !.n = @ - 1] : t \in {u \in pool : u.n > 0}}

Behind(n) == IF n > -1 THEN n - 1 ELSE n

AfterConsumed(t) ==
    [t EXCEPT !.ahead = IF t.pc = "off" THEN 0 ELSE @ - 1,
              !.tx = {[u EXCEPT !.n = Behind(@)] : u \in t.tx}]

\* What propose_payment_tx may do for `a`: there is no vote of `a` in the
\* proposal it finds, or it makes a new one.
CanPropose(a, pay) ==
    /\ pay.payee \in Slow
    /\ LET ps == Proposed(pay, epoch + PayDuration)
       IN  \E i \in PendingWith(ps, pay) : a \notin ps[i].votes

\* The next transaction of `a` executes or aborts; both use its number.
Commit(a) ==
    \E t \in mempool[a] :
        /\ t.n = 0
        /\ \/ CanPropose(a, t.pay) /\ Propose(a, t.pay, PayDuration)
           \/ ~CanPropose(a, t.pay) /\ UNCHANGED vars
        /\ mempool' = [mempool EXCEPT ![a] = Consumed(@)]
        /\ tool' = [tool EXCEPT ![a] =
              IF tool[a].tx = {t} /\ tool[a].result = "none"
              THEN [AfterConsumed(@) EXCEPT
                       !.result = IF CanPropose(a, t.pay) THEN "ok" ELSE "failed"]
              ELSE AfterConsumed(@)]
        /\ UNCHANGED <<file, faults>>

\* Another tool of the same operator sends a transaction of its own.
OtherTx(a) ==
    /\ Fault
    /\ tool[a].pc # "off"
    /\ tool[a].ahead >= -MaxAhead
    /\ mempool' = [mempool EXCEPT ![a] = Consumed(@)]
    /\ tool' = [tool EXCEPT ![a] = AfterConsumed(@)]
    /\ UNCHANGED <<vars, file>>

\* A transaction nobody waits for expires.
Evict(a) ==
    \E t \in mempool[a] \ tool[a].tx :
        /\ mempool' = [mempool EXCEPT ![a] = @ \ {t}]
        /\ UNCHANGED <<vars, file, tool, faults>>

-----------------------------------------------------------------------------
\* The batch.

\* Pending ballots, expired or not, then approved ones, go into a map by
\* recipient: the last one stays. The list of approved ballots is not in the
\* order of creation, hence the choice.
IsLast(p, i) ==
    LET of(s) == {j \in DOMAIN props :
                    /\ props[j].data \in Payments
                    /\ props[j].data.payee = p
                    /\ props[j].status = s}
    IN  \/ i \in of("approved")
        \/ of("approved") = {} /\ i \in of("pending") /\ \A j \in of("pending") : j <= i

Listed(p) == {i \in DOMAIN props : IsLast(p, i)}

\* An entry after "if this instruction exists, just update our JSON file": it
\* does if the ballot found for the recipient is for the same amount.
Marked(pay, entry) ==
    {IF props[i].data.value = pay.value
     THEN [proposed |-> "yes", approved |-> props[i].status = "approved",
           voters |-> props[i].votes]
     ELSE entry : i \in Listed(pay.payee)}
    \cup {e \in {entry} : Listed(pay.payee) = {}}

\* BatchTx::run up to the transactions: the file is read, then the ballots. The
\* loop marks an entry when its turn comes, from the ballots read here.
MarkedLists(list) ==
    {l \in [DOMAIN Batch -> UNION {Marked(Batch[k], list[k]) : k \in DOMAIN Batch}] :
        \A k \in DOMAIN Batch : l[k] \in Marked(Batch[k], list[k])}

Fetch(a) ==
    /\ tool[a].pc = "connected"
    /\ \E l \in MarkedLists(file[a]) :
          tool' = [tool EXCEPT ![a].pc = "working", ![a].list = l]
    /\ UNCHANGED <<vars, file, mempool, faults>>

\* Neither "is not a slow wallet, skipping" nor "already voted, skipping".
MustSend(a, pay, entry) ==
    /\ pay.payee \in Slow
    /\ a \notin entry.voters

\* The payment in turn and its entry.
Pay(a) == Batch[tool[a].at]

Entry(a) == tool[a].list[tool[a].at]

Working(a) == tool[a].pc = "working" /\ tool[a].at <= Len(Batch)

Recorded(t, entry) == [t EXCEPT !.pc = "working", !.list = [@ EXCEPT ![t.at] = entry],
                                !.at = @ + 1, !.tx = {}, !.result = "none"]

Skip(a) ==
    /\ Working(a)
    /\ ~MustSend(a, Pay(a), Entry(a))
    /\ tool' = [tool EXCEPT ![a] = Recorded(@, Entry(a))]
    /\ UNCHANGED <<vars, file, mempool, faults>>

\* Mutant of Number: the sequence number is read again for each transaction.
FreshNumber(t) == 0

\* The number sign_with_transaction_builder uses and steps over.
Number(t) == t.ahead

SteppedOver(t) == [t EXCEPT !.ahead = IF @ <= MaxAhead THEN @ + 1 ELSE @]

\* sign_submit_wait: the transaction is signed and the node takes it.
Send(a) ==
    /\ Working(a)
    /\ MustSend(a, Pay(a), Entry(a))
    /\ Number(tool[a]) \in 0 .. MaxAhead
    /\ LET tx == [n |-> Number(tool[a]), pay |-> Pay(a)]
       IN  /\ mempool' = [mempool EXCEPT ![a] = @ \cup {tx}]
           /\ tool' = [tool EXCEPT ![a].pc = "waiting", ![a].tx = {tx},
                                   ![a].ahead = tx.n + 1]
    /\ UNCHANGED <<vars, file, faults>>

\* ... or the node refuses it: a stale number, or any other reason. The number
\* stays used in the Sender, so the rest of the batch is behind a gap.
Reject(a) ==
    /\ Working(a)
    /\ MustSend(a, Pay(a), Entry(a))
    /\ \/ Number(tool[a]) \notin 0 .. MaxAhead /\ UNCHANGED faults
       \/ Number(tool[a]) \in 0 .. MaxAhead /\ Fault
    /\ tool' = [tool EXCEPT ![a] =
          SteppedOver(Recorded(@, [Entry(a) EXCEPT !.proposed = "no"]))]
    /\ UNCHANGED <<vars, file, mempool>>

\* wait_for_transaction_bcs returns the transaction, or an error because it
\* was executed and aborted.
Answered(a) ==
    /\ tool[a].pc = "waiting"
    /\ tool[a].result # "none"
    /\ LET ok == tool[a].result = "ok"
       IN  tool' = [tool EXCEPT ![a] = Recorded(@,
              [Entry(a) EXCEPT !.proposed = IF ok THEN "yes" ELSE "no"])]
    /\ UNCHANGED <<vars, file, mempool, faults>>

\* ... or an error because it expired: behind a gap it always does.
Expired(a) ==
    /\ tool[a].pc = "waiting"
    /\ tool[a].result = "none"
    /\ \E t \in tool[a].tx :
        /\ \/ t.n # 0 /\ UNCHANGED faults
           \/ t.n = 0 /\ Fault
        /\ mempool' = [mempool EXCEPT ![a] = @ \ {t}]
    /\ tool' = [tool EXCEPT ![a] = Recorded(@, [Entry(a) EXCEPT !.proposed = "no"])]
    /\ UNCHANGED <<vars, file>>

\* Mutant of Lost: what was sent is taken for proposed.
LostIsProposed(a) ==
    /\ Fault
    /\ tool[a].pc = "waiting"
    /\ tool' = [tool EXCEPT ![a] = Recorded(@, [Entry(a) EXCEPT !.proposed = "yes"])]
    /\ UNCHANGED <<vars, file, mempool>>

\* ... or an error of the connection: the transaction may still execute.
Lost(a) ==
    /\ Fault
    /\ tool[a].pc = "waiting"
    /\ tool' = [tool EXCEPT ![a] = Recorded(@, [Entry(a) EXCEPT !.proposed = "no"])]
    /\ UNCHANGED <<vars, file, mempool>>

\* The file is written once, after the last payment.
Finish(a) ==
    /\ tool[a].pc = "working"
    /\ tool[a].at > Len(Batch)
    /\ file' = [file EXCEPT ![a] = tool[a].list]
    /\ tool' = [tool EXCEPT ![a] = Off]
    /\ UNCHANGED <<vars, mempool, faults>>

\* The tool is killed, or a query fails: nothing is written.
Crash(a) ==
    /\ Fault
    /\ tool[a].pc # "off"
    /\ tool' = [tool EXCEPT ![a] = Off]
    /\ UNCHANGED <<vars, file, mempool>>

\* A run with --check only reads the chain and writes the file.
Check(a) ==
    /\ tool[a].pc = "off"
    /\ \E l \in MarkedLists(file[a]) : file' = [file EXCEPT ![a] = l]
    /\ UNCHANGED <<vars, tool, mempool, faults>>

NewEpoch ==
    /\ epoch < MaxEpoch
    /\ AdvanceEpoch
    /\ UNCHANGED batchVars

Step(a) ==
    \/ Connect(a) \/ Fetch(a) \/ Skip(a) \/ Send(a) \/ Reject(a) \/ Answered(a)
    \/ Expired(a) \/ Finish(a)

BatchNext ==
    \/ NewEpoch
    \/ \E a \in Auth : Step(a) \/ Commit(a) \/ Lost(a) \/ Crash(a) \/ Check(a) \/ OtherTx(a)
                       \/ Evict(a)

BatchSpec == BatchInit /\ [][BatchNext]_allVars

-----------------------------------------------------------------------------
\* An entry of a saved file says "proposed" or "approved" only of a payment
\* that has, or had, such a ballot: BatchTx::run never reports work that the
\* chain did not do, whatever was lost on the way.
FilesAreBacked ==
    \A a \in Auth, k \in DOMAIN Batch :
        /\ file[a][k].proposed = "yes" => \E i \in DOMAIN props : props[i].data = Batch[k]
        /\ file[a][k].approved =>
              \E i \in DOMAIN props : props[i].data = Batch[k] /\ props[i].status = "approved"

\* Two live ballots for a payment with a vote of the same authority.
VotedTwice(a, pay) ==
    \E i, j \in DOMAIN props :
        /\ i # j
        /\ props[i].data = pay /\ props[j].data = pay
        /\ a \in props[i].votes \cap props[j].votes
        /\ "rejected" \notin {props[i].status, props[j].status}

\* Running a batch again after a lost answer, a crash or an expired ballot
\* never adds a second vote of an authority for the first payment of the file:
\* Sender::new reads the sequence number before BatchTx::run reads the ballots,
\* so a transaction still in flight is either among the ballots or makes the
\* number of the new one stale.
FirstPaymentVotedOnce == \A a \in Auth : ~VotedTwice(a, Batch[1])
=============================================================================
