------------------------------- MODULE Client -------------------------------
(***************************************************************************)
(* Client.triggerTransactions (src/byzcoin_lib/protocol/client.go): parse *)
(* the transactions of the block files, then hand them to the server with *)
(* srv.AddTransaction.  A transaction is its index in the parsed list;    *)
(* parser.Parse is an external collaborator that returns any number of    *)
(* transactions up to MaxTx, with or without an error.  One step per call *)
(* of AddTransaction, the only interaction with the server.               *)
(***************************************************************************)
EXTENDS Naturals

CONSTANTS
    MaxTx,    \* most transactions parser.Parse returns in the model
    MaxReq    \* largest nTxs a caller passes

ASSUME MaxTx \in Nat /\ MaxReq \in Nat

VARIABLES
    pc,            \* "parse", "check", "outer", "inner" or "done"
    nTxs,          \* the caller's argument
    transactions,  \* len(transactions)
    parseErr,      \* err != nil after parser.Parse
    consumed,
    i,             \* index of the inner range loop
    sent,          \* sent[t]: AddTransaction calls with transaction t
    result         \* "none", "nil", "errNoTx" or "errParse"

vars == <<pc, nTxs, transactions, parseErr, consumed, i, sent, result>>

Tx == 1..MaxTx

TypeOK ==
    /\ pc \in {"parse", "check", "outer", "inner", "done"}
    /\ nTxs \in 0..MaxReq
    /\ transactions \in 0..MaxTx
    /\ parseErr \in BOOLEAN
    /\ consumed \in Nat
    /\ i \in 1..(MaxTx + 1)
    /\ sent \in [Tx -> Nat]
    /\ result \in {"none", "nil", "errNoTx", "errParse"}

Init ==
    /\ pc = "parse"
    /\ nTxs \in 0..MaxReq
    /\ transactions = 0
    /\ parseErr = FALSE
    /\ consumed = 0
    /\ i = 1
    /\ sent = [t \in Tx |-> 0]
    /\ result = "none"

(* parser, err := blockchain.NewParser(...) (its err is overwritten)     *)
(* transactions, err := parser.Parse(0, ReadFirstNBlocks)                 *)
Parse ==
    /\ pc = "parse"
    /\ transactions' \in 0..MaxTx
    /\ parseErr' \in BOOLEAN
    /\ pc' = "check"
    /\ UNCHANGED <<nTxs, consumed, i, sent, result>>

(* The two early returns, in the code's order, then                      *)
(* consumed := min(len(transactions), nTxs).                              *)
Check ==
    /\ pc = "check"
    /\ \/ /\ transactions = 0
          /\ result' = "errNoTx" /\ pc' = "done"
          /\ UNCHANGED consumed
       \/ /\ transactions > 0 /\ parseErr
          /\ result' = "errParse" /\ pc' = "done"
          /\ UNCHANGED consumed
       \/ /\ transactions > 0 /\ ~parseErr
          /\ consumed' = IF transactions < nTxs THEN transactions ELSE nTxs
          /\ pc' = "outer"
          /\ UNCHANGED result
    /\ UNCHANGED <<nTxs, transactions, parseErr, i, sent>>

(* for consumed > 0 { ...; consumed-- }, then return nil                  *)
Outer ==
    /\ pc = "outer"
    /\ \/ /\ consumed > 0
          /\ pc' = "inner" /\ i' = 1
          /\ UNCHANGED result
       \/ /\ consumed = 0
          /\ pc' = "done" /\ result' = "nil"
          /\ UNCHANGED i
    /\ UNCHANGED <<nTxs, transactions, parseErr, consumed, sent>>

(* A variant of the inner loop that runs one index past the end.         *)
InnerPastEnd ==
    /\ pc = "inner"
    /\ \/ /\ i <= transactions + 1
          /\ sent' = [sent EXCEPT ![i] = @ + 1]
          /\ i' = i + 1
          /\ UNCHANGED <<pc, consumed>>
       \/ /\ i > transactions + 1
          /\ consumed' = consumed - 1
          /\ pc' = "outer"
          /\ UNCHANGED <<i, sent>>
    /\ UNCHANGED <<nTxs, transactions, parseErr, result>>

(* for _, tr := range transactions { c.srv.AddTransaction(tr) }           *)
Inner ==
    /\ pc = "inner"
    /\ \/ /\ i <= transactions
          /\ sent' = [sent EXCEPT ![i] = @ + 1]
          /\ i' = i + 1
          /\ UNCHANGED <<pc, consumed>>
       \/ /\ i > transactions
          /\ consumed' = consumed - 1
          /\ pc' = "outer"
          /\ UNCHANGED <<i, sent>>
    /\ UNCHANGED <<nTxs, transactions, parseErr, result>>

Done == pc = "done" /\ UNCHANGED vars

Next == Parse \/ Check \/ Outer \/ Inner \/ Done

Spec == Init /\ [][Next]_vars

TotalSent == LET RECURSIVE S(_)
                 S(k) == IF k = 0 THEN 0 ELSE sent[k] + S(k - 1)
             IN  S(MaxTx)

(* The client triggers "up to nTxs transactions" (its log line and the    *)
(* comment of StartClientSimulation): at most nTxs AddTransaction calls.  *)
AtMostRequested == TotalSent <= nTxs

=============================================================================
