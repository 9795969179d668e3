------------------------------- MODULE Ntree -------------------------------
(***************************************************************************)
(* The Ntree two-round tree signing protocol of src/unnamed/part_000.      *)
(*                                                                         *)
(* One Ntree instance runs per tree node.  Its listen goroutine selects on *)
(* four message channels; VerifyBlock and verifySignatureRequest run as    *)
(* goroutines that hand one boolean to the listen goroutine over the       *)
(* unbuffered channels verifyBlockChan and verifySignatureRequestChan.     *)
(* A handler that calls computeBlockSignature or computeSignatureResponse  *)
(* blocks the listen goroutine on that channel: pc[n] records where it is  *)
(* blocked, and msgArg[n] the handler's msg argument it still holds.       *)
(*                                                                         *)
(* Data is abstracted: the block is one value, a Schnorr signature is the  *)
(* pair (signer, payload) where payload "Block" stands for                 *)
(* json.Marshal(nt.block) and "Header" for json.Marshal(nt.block.Header),  *)
(* and the Sigs and Exceptions slices are bags (their order carries no     *)
(* meaning).  The tree overlay delivers messages in any order.  A SendTo   *)
(* may fail (at most MaxLoss times), and the overlay may deliver a message *)
(* twice (at most MaxDup times); with both bounds 0 it delivers every      *)
(* message exactly once.                                                   *)
(***************************************************************************)
EXTENDS Naturals, FiniteSets, Sequences, BagsExt, ThresholdPolicy
LOCAL INSTANCE SequencesExt

CONSTANTS
    Nodes,        \* the tree nodes
    Root,         \* the node that runs NewNTreeRootProtocol and Start
    Parent,       \* Parent[n]: nt.Parent() of every non-root node
    SignCanFail,  \* whether json.Marshal / SignSchnorr may return an error
    MaxLoss,      \* how many SendTo calls may fail
    MaxDup        \* how many messages the overlay may deliver twice

Children(n) == {m \in Nodes \ {Root} : Parent[m] = n}
IsLeaf(n) == Children(n) = {}

RECURSIVE Subtree(_)
Subtree(n) == {n} \cup UNION {Subtree(c) : c \in Children(n)}

ASSUME
    /\ Root \in Nodes
    /\ Parent \in [Nodes \ {Root} -> Nodes]
    /\ Subtree(Root) = Nodes          \* Parent describes a tree
    /\ SignCanFail \in BOOLEAN
    /\ MaxLoss \in Nat /\ MaxDup \in Nat

(* len(nt.Tree().List())                                                  *)
TreeSize == Cardinality(Nodes)

-----------------------------------------------------------------------------
(* Signatures and bundles (NaiveBlockSignature)                           *)

Payloads == {"Block", "Header"}
Sigs == [signer : Nodes, payload : Payloads \cup {"Zero"}]

(* The zero crypto.SchnorrSig that SignSchnorr returns with its error: it *)
(* verifies under no key and for no payload.  The signer field only       *)
(* records whose computeBlockSignature appended it.                       *)
ZeroSig(n) == [signer |-> n, payload |-> "Zero"]

(* crypto.SignSchnorr(nt.Suite(), nt.Private(), marshalled)               *)
SignSchnorr(n, payload) == [signer |-> n, payload |-> payload]

(* crypto.VerifySchnorr(nt.Suite(), public, marshalled, sig) == nil       *)
VerifySchnorr(public, payload, sig) ==
    sig.signer = public /\ sig.payload = payload

EmptyBundle == [sigs |-> EmptyBag, exc |-> EmptyBag]
NoBundle == [none |-> TRUE]

(* Variants of the merge: one that drops the child's exceptions, one that *)
(* appends the child's signatures to the exceptions (a copy-paste slip).  *)
MergeSigsOnly(b, msg) == [sigs |-> b.sigs (+) msg.sigs, exc |-> b.exc]
MergeSigsAsExceptions(b, msg) ==
    [sigs |-> b.sigs (+) msg.sigs, exc |-> b.exc (+) msg.sigs]

(* append(b.Sigs, msg.Sigs...); append(b.Exceptions, msg.Exceptions...)   *)
Merge(b, msg) == [sigs |-> b.sigs (+) msg.sigs, exc |-> b.exc (+) msg.exc]

AddSig(b, s) == [b EXCEPT !.sigs = b.sigs (+) SetToBag({s})]
AddException(b, n) == [b EXCEPT !.exc = b.exc (+) SetToBag({n})]

(* The number of signatures in a bag that pass a test, with multiplicity. *)
CountSigs(bag, Test(_)) ==
    BagCardinality([s \in {x \in DOMAIN bag : Test(x)} |-> bag[s]])

(* goodSig in verifySignatureRequest: the signatures of the request that  *)
(* verify under nt.Public(), the verifying node's own key, against the    *)
(* marshalled block.                                                      *)
GoodSigs(n, req) ==
    LET Good(s) == VerifySchnorr(n, "Block", s) IN CountSigs(req.sigs, Good)

-----------------------------------------------------------------------------
(* Messages over the tree overlay                                         *)

Kinds == {"BlockAnnounce", "NaiveBlockSignature",
          "RoundSignatureRequest", "RoundSignatureResponse"}

Msg(kind, from, to, body) ==
    [kind |-> kind, from |-> from, to |-> to, body |-> body]

(* nt.SendTo(tn, m) for every tn in nt.Children()                         *)
ToChildren(kind, n, body) == {Msg(kind, n, c, body) : c \in Children(n)}

(* nt.SendTo(nt.Parent(), m)                                              *)
ToParent(kind, n, body) == {Msg(kind, n, Parent[n], body)}

(* nt.Children() in the order the loops of Start and listen visit them.   *)
ChildOrder(n) == SetToSeq(Children(n))

(* The network is a bag of messages; sending a set of messages adds one   *)
(* copy of each.                                                          *)
Send(net, msgs) == net (+) SetToBag(msgs)

-----------------------------------------------------------------------------
VARIABLES
    started,                        \* Start() has run on the root
    pc,                             \* where each listen goroutine is
    msgArg,                         \* the msg a blocked handler holds
    verifyBlockRunning,             \* VerifyBlock goroutines still deciding
    verifyBlockChan,                \* their pending sends on verifyBlockChan
    verifySig,                      \* verifySignatureRequest goroutine
    tempBlockSig,
    tempBlockSigReceived,
    tempSignatureResponse,
    tempSignatureResponseReceived,
    network,                        \* bag of messages sent, not yet received
    doneCalls,                      \* invocations of onDoneCallback
    final,                          \* the NtreeSignature passed to it
    lost,                           \* SendTo calls that failed so far
    duplicated                      \* messages the overlay delivered twice

vars == <<started, pc, msgArg, verifyBlockRunning, verifyBlockChan,
          verifySig, tempBlockSig, tempBlockSigReceived,
          tempSignatureResponse, tempSignatureResponseReceived,
          network, doneCalls, final, lost, duplicated>>

PCs == {"listen", "startBlockSignature", "handleBlockSignature",
        "startSignatureResponse", "handleRoundSignatureResponse"}

(* verifySig[n]: NoTask, or the request the goroutine checks and the      *)
(* values it still has to send on verifySignatureRequestChan.             *)
NoTask == [none |-> TRUE]

Init ==
    /\ started = FALSE
    /\ pc = [n \in Nodes |-> "listen"]
    /\ msgArg = [n \in Nodes |-> NoBundle]
    /\ verifyBlockRunning = [n \in Nodes |-> 0]
    /\ verifyBlockChan = [n \in Nodes |-> <<>>]
    /\ verifySig = [n \in Nodes |-> NoTask]
    /\ tempBlockSig = [n \in Nodes |-> EmptyBundle]
    /\ tempBlockSigReceived = [n \in Nodes |-> 0]
    /\ tempSignatureResponse = [n \in Nodes |-> EmptyBundle]
    /\ tempSignatureResponseReceived = [n \in Nodes |-> 0]
    /\ network = EmptyBag
    /\ doneCalls = 0
    /\ final = NoBundle
    /\ lost = 0
    /\ duplicated = 0

IsBundle(b) ==
    /\ IsABag(b.sigs) /\ BagToSet(b.sigs) \subseteq Sigs
    /\ IsABag(b.exc) /\ BagToSet(b.exc) \subseteq Nodes

TypeOK ==
    /\ started \in BOOLEAN
    /\ pc \in [Nodes -> PCs]
    /\ \A n \in Nodes : msgArg[n] = NoBundle \/ IsBundle(msgArg[n])
    /\ verifyBlockRunning \in [Nodes -> Nat]
    /\ verifyBlockChan \in [Nodes -> Seq(BOOLEAN)]
    /\ \A n \in Nodes : verifySig[n] = NoTask
                        \/ /\ IsBundle(verifySig[n].req)
                           /\ verifySig[n].sends \in Seq(BOOLEAN)
    /\ \A n \in Nodes : IsBundle(tempBlockSig[n])
                        /\ IsBundle(tempSignatureResponse[n])
    /\ tempBlockSigReceived \in [Nodes -> Nat]
    /\ tempSignatureResponseReceived \in [Nodes -> Nat]
    /\ IsABag(network)
    /\ \A m \in DOMAIN network : m.kind \in Kinds /\ m.from \in Nodes
                                 /\ m.to \in Nodes /\ IsBundle(m.body)
    /\ doneCalls \in Nat
    /\ final = NoBundle \/ IsBundle(final)
    /\ lost \in 0..MaxLoss /\ duplicated \in 0..MaxDup

-----------------------------------------------------------------------------
(* Helpers shared by the handlers                                         *)

(* The outcomes of json.Marshal and SignSchnorr in computeSignature-     *)
(* Response: TRUE when both succeed.                                      *)
SignOutcomes == IF SignCanFail THEN BOOLEAN ELSE {TRUE}

(* The outcomes of computeBlockSignature's json.Marshal and SignSchnorr.  *)
BlockSignOutcomes ==
    IF SignCanFail THEN {"signed", "marshalFailed", "signFailed"}
    ELSE {"signed"}

(* computeBlockSignature: the bundle after appending the node's own       *)
(* contribution.  The verification result ok has already been received;   *)
(* a failing json.Marshal returns before anything is appended, and the    *)
(* error of SignSchnorr is dropped (schnorr, _ :=), so its zero value is  *)
(* appended.                                                              *)
ComputeBlockSignature(b, n, ok, outcome) ==
    CASE outcome = "marshalFailed" -> b
      [] ~ok                       -> AddException(b, n)
      [] outcome = "signFailed"    -> AddSig(b, ZeroSig(n))
      [] OTHER                     -> AddSig(b, SignSchnorr(n, "Block"))

(* computeSignatureResponse: an exception when the request was rejected,  *)
(* otherwise a signature over the header unless marshalling or signing    *)
(* fails, in which case the function returns without appending.           *)
ComputeSignatureResponse(b, n, ok, signed) ==
    IF ~ok THEN AddException(b, n)
    ELSE IF signed THEN AddSig(b, SignSchnorr(n, "Header"))
    ELSE b

(* go nt.verifySignatureRequest(req): the goroutine's request and the     *)
(* booleans it will send.  Its inputs (the request, nt.block, the tree    *)
(* size) do not change while it runs, so its sends are fixed at launch.   *)
LaunchVerifySignatureRequest(n, req) ==
    verifySig' = [verifySig EXCEPT ![n] =
        [req |-> req,
         sends |-> VerdictSends(BagCardinality(req.exc), GoodSigs(n, req),
                                TreeSize)]]

(* A value is ready on verifySignatureRequestChan.                        *)
VerdictReady(n) == verifySig[n] # NoTask /\ verifySig[n].sends # <<>>

(* The receive <-nt.verifySignatureRequestChan.                           *)
ReceiveVerdict(n) ==
    verifySig' = [verifySig EXCEPT ![n].sends = Tail(@)]

(* A variant of the early-return test that never passes (<= instead of <). *)
BlockSigsCompleteNever(n, received) ==
    received > Cardinality(Children(n))

(* if nt.tempBlockSigReceived < len(nt.Children()) { return }             *)
BlockSigsComplete(n, received) == received >= Cardinality(Children(n))

(* A variant of the round-2 test that goes on one child too early.       *)
ResponsesCompleteEarly(n, received) ==
    received + 1 >= Cardinality(Children(n))

(* if nt.tempSignatureResponseReceived < len(nt.Children()) { return }    *)
ResponsesComplete(n, received) == received >= Cardinality(Children(n))

-----------------------------------------------------------------------------
(* Goroutines other than the listen loops                                 *)

(* Start(): the root launches VerifyBlock and announces the block to its  *)
(* children in order; a failing SendTo returns the error at once, so the  *)
(* children after it are never announced.                                 *)
Start ==
    /\ ~started
    /\ started' = TRUE
    /\ verifyBlockRunning' = [verifyBlockRunning EXCEPT ![Root] = @ + 1]
    /\ LET order == ChildOrder(Root)
           Announce(k) == {Msg("BlockAnnounce", Root, order[i], EmptyBundle) :
                              i \in 1..k}
       IN  \/ /\ network' = Send(network, Announce(Len(order)))
              /\ UNCHANGED lost
           \/ /\ lost < MaxLoss
              /\ \E failed \in 1..Len(order) :
                    network' = Send(network, Announce(failed - 1))
              /\ lost' = lost + 1
    /\ UNCHANGED <<duplicated, pc, msgArg, verifyBlockChan, verifySig, tempBlockSig,
                   tempBlockSigReceived, tempSignatureResponse,
                   tempSignatureResponseReceived, doneCalls, final>>

(* byzcoin.VerifyBlock decides whether the block is valid; its send on    *)
(* verifyBlockChan then waits for the listen goroutine.                   *)
VerifyBlock(n) ==
    /\ verifyBlockRunning[n] > 0
    /\ verifyBlockRunning' = [verifyBlockRunning EXCEPT ![n] = @ - 1]
    /\ \E ok \in BOOLEAN :
          verifyBlockChan' = [verifyBlockChan EXCEPT ![n] = Append(@, ok)]
    /\ UNCHANGED <<started, pc, msgArg, verifySig, tempBlockSig,
                   tempBlockSigReceived, tempSignatureResponse,
                   tempSignatureResponseReceived, network, doneCalls, final,
                   lost, duplicated>>

-----------------------------------------------------------------------------
(* The listen goroutine of node n: one action per case of its select, and *)
(* one per blocked handler resuming when its verification result arrives. *)

Pending(n, kind) == {m \in DOMAIN network : m.to = n /\ m.kind = kind}

(* case msg := <-nt.announceChan: store the block, launch VerifyBlock;    *)
(* a leaf starts the block signature phase, another node relays the       *)
(* announcement to its children.                                          *)
ReceiveBlockAnnounce(n) ==
    /\ pc[n] = "listen"
    /\ \E m \in Pending(n, "BlockAnnounce") :
          /\ verifyBlockRunning' = [verifyBlockRunning EXCEPT ![n] = @ + 1]
          /\ \/ /\ IsLeaf(n)
                /\ pc' = [pc EXCEPT ![n] = "startBlockSignature"]
                /\ network' = BagRemove(network, m)
             \/ /\ ~IsLeaf(n)
                /\ network' = Send(BagRemove(network, m),
                              ToChildren("BlockAnnounce", n, m.body))
                /\ UNCHANGED pc
    /\ UNCHANGED <<started, msgArg, verifyBlockChan, verifySig, tempBlockSig,
                   tempBlockSigReceived, tempSignatureResponse,
                   tempSignatureResponseReceived, doneCalls, final>>

(* startBlockSignature (a leaf, blocked in computeBlockSignature): take   *)
(* the verification result, append the own contribution and send the      *)
(* bundle to the parent.                                                  *)
StartBlockSignature(n) ==
    /\ pc[n] = "startBlockSignature"
    /\ verifyBlockChan[n] # <<>>
    /\ \E outcome \in BlockSignOutcomes :
          LET sig == ComputeBlockSignature(tempBlockSig[n], n,
                                           Head(verifyBlockChan[n]), outcome)
          IN  /\ tempBlockSig' = [tempBlockSig EXCEPT ![n] = sig]
              /\ network' = Send(network,
                                  ToParent("NaiveBlockSignature", n, sig))
    /\ verifyBlockChan' = [verifyBlockChan EXCEPT ![n] = Tail(@)]
    /\ pc' = [pc EXCEPT ![n] = "listen"]
    /\ UNCHANGED <<started, msgArg, verifyBlockRunning, verifySig,
                   tempBlockSigReceived, tempSignatureResponse,
                   tempSignatureResponseReceived, doneCalls, final>>

(* case msg := <-nt.blockSignatureChan: handleBlockSignature up to its    *)
(* early return: merge the child's bundle and count it; once every child  *)
(* has reported, go on to computeBlockSignature holding msg.              *)
ReceiveBlockSignature(n) ==
    /\ pc[n] = "listen"
    /\ \E m \in Pending(n, "NaiveBlockSignature") :
          LET received == tempBlockSigReceived[n] + 1
          IN  /\ network' = BagRemove(network, m)
              /\ tempBlockSig' = [tempBlockSig EXCEPT ![n] = Merge(@, m.body)]
              /\ tempBlockSigReceived' =
                    [tempBlockSigReceived EXCEPT ![n] = received]
              /\ \/ /\ ~BlockSigsComplete(n, received)
                    /\ UNCHANGED <<pc, msgArg>>
                 \/ /\ BlockSigsComplete(n, received)
                    /\ pc' = [pc EXCEPT ![n] = "handleBlockSignature"]
                    /\ msgArg' = [msgArg EXCEPT ![n] = m.body]
    /\ UNCHANGED <<started, verifyBlockRunning, verifyBlockChan, verifySig,
                   tempSignatureResponse, tempSignatureResponseReceived,
                   doneCalls, final>>

(* handleBlockSignature after the early return: computeBlockSignature,    *)
(* then the root calls startSignatureRequest(msg), which launches its own *)
(* verifySignatureRequest and broadcasts msg (the bundle of the child     *)
(* that reported last) as the request; any other node sends its merged    *)
(* bundle up.                                                             *)
FinishBlockSignature(n) ==
    /\ pc[n] = "handleBlockSignature"
    /\ verifyBlockChan[n] # <<>>
    /\ \E outcome \in BlockSignOutcomes :
          LET sig == ComputeBlockSignature(tempBlockSig[n], n,
                                           Head(verifyBlockChan[n]), outcome)
          IN  /\ tempBlockSig' = [tempBlockSig EXCEPT ![n] = sig]
              /\ \/ /\ n = Root
                    /\ LaunchVerifySignatureRequest(n, msgArg[n])
                    /\ network' = Send(network,
                          ToChildren("RoundSignatureRequest", n, msgArg[n]))
                 \/ /\ n # Root
                    /\ network' = Send(network,
                          ToParent("NaiveBlockSignature", n, sig))
                    /\ UNCHANGED verifySig
    /\ verifyBlockChan' = [verifyBlockChan EXCEPT ![n] = Tail(@)]
    /\ pc' = [pc EXCEPT ![n] = "listen"]
    /\ msgArg' = [msgArg EXCEPT ![n] = NoBundle]
    /\ UNCHANGED <<started, verifyBlockRunning, tempBlockSigReceived,
                   tempSignatureResponse, tempSignatureResponseReceived,
                   doneCalls, final>>

(* case msg := <-nt.roundSignatureRequestChan: launch                     *)
(* verifySignatureRequest; a leaf starts the response phase, another node *)
(* relays the request to its children.                                    *)
ReceiveSignatureRequest(n) ==
    /\ pc[n] = "listen"
    /\ \E m \in Pending(n, "RoundSignatureRequest") :
          /\ LaunchVerifySignatureRequest(n, m.body)
          /\ \/ /\ IsLeaf(n)
                /\ pc' = [pc EXCEPT ![n] = "startSignatureResponse"]
                /\ network' = BagRemove(network, m)
             \/ /\ ~IsLeaf(n)
                /\ network' = Send(BagRemove(network, m),
                              ToChildren("RoundSignatureRequest", n, m.body))
                /\ UNCHANGED pc
    /\ UNCHANGED <<started, msgArg, verifyBlockRunning, verifyBlockChan,
                   tempBlockSig, tempBlockSigReceived, tempSignatureResponse,
                   tempSignatureResponseReceived, doneCalls, final>>

(* startSignatureResponse (a leaf, blocked in computeSignatureResponse):  *)
(* take the first verdict, append the own contribution, send the bundle   *)
(* to the parent.                                                         *)
StartSignatureResponse(n) ==
    /\ pc[n] = "startSignatureResponse"
    /\ VerdictReady(n)
    /\ \E signed \in SignOutcomes :
          LET resp == ComputeSignatureResponse(tempSignatureResponse[n], n,
                                               Head(verifySig[n].sends), signed)
          IN  /\ tempSignatureResponse' =
                    [tempSignatureResponse EXCEPT ![n] = resp]
              /\ network' = Send(network,
                    ToParent("RoundSignatureResponse", n, resp))
    /\ ReceiveVerdict(n)
    /\ pc' = [pc EXCEPT ![n] = "listen"]
    /\ UNCHANGED <<started, msgArg, verifyBlockRunning, verifyBlockChan,
                   tempBlockSig, tempBlockSigReceived,
                   tempSignatureResponseReceived, doneCalls, final>>

(* case msg := <-nt.roundSignatureResponseChan: handleRoundSignature-     *)
(* Response up to its early return.                                       *)
ReceiveSignatureResponse(n) ==
    /\ pc[n] = "listen"
    /\ \E m \in Pending(n, "RoundSignatureResponse") :
          LET received == tempSignatureResponseReceived[n] + 1
          IN  /\ network' = BagRemove(network, m)
              /\ tempSignatureResponse' =
                    [tempSignatureResponse EXCEPT ![n] = Merge(@, m.body)]
              /\ tempSignatureResponseReceived' =
                    [tempSignatureResponseReceived EXCEPT ![n] = received]
              /\ \/ /\ ~ResponsesComplete(n, received)
                    /\ UNCHANGED <<pc, msgArg>>
                 \/ /\ ResponsesComplete(n, received)
                    /\ pc' = [pc EXCEPT ![n] = "handleRoundSignatureResponse"]
                    /\ msgArg' = [msgArg EXCEPT ![n] = m.body]
    /\ UNCHANGED <<started, verifyBlockRunning, verifyBlockChan, verifySig,
                   tempBlockSig, tempBlockSigReceived, doneCalls, final>>

(* handleRoundSignatureResponse after the early return:                   *)
(* computeSignatureResponse; the root invokes onDoneCallback with its     *)
(* bundle, any other node sends msg (the response of the child that       *)
(* reported last) to its parent.                                          *)
FinishSignatureResponse(n) ==
    /\ pc[n] = "handleRoundSignatureResponse"
    /\ VerdictReady(n)
    /\ \E signed \in SignOutcomes :
          LET resp == ComputeSignatureResponse(tempSignatureResponse[n], n,
                                               Head(verifySig[n].sends), signed)
          IN  /\ tempSignatureResponse' =
                    [tempSignatureResponse EXCEPT ![n] = resp]
              /\ \/ /\ n = Root
                    /\ doneCalls' = doneCalls + 1
                    /\ final' = resp
                    /\ UNCHANGED network
                 \/ /\ n # Root
                    /\ network' = Send(network,
                          ToParent("RoundSignatureResponse", n, msgArg[n]))
                    /\ UNCHANGED <<doneCalls, final>>
    /\ ReceiveVerdict(n)
    /\ pc' = [pc EXCEPT ![n] = "listen"]
    /\ msgArg' = [msgArg EXCEPT ![n] = NoBundle]
    /\ UNCHANGED <<started, verifyBlockRunning, verifyBlockChan, tempBlockSig,
                   tempBlockSigReceived, tempSignatureResponseReceived>>

(* The listen goroutine of n takes one step.  The sends of a step that    *)
(* fail are the Lose steps below.                                         *)
Listen(n) ==
    /\ \/ ReceiveBlockAnnounce(n)
       \/ StartBlockSignature(n)
       \/ ReceiveBlockSignature(n)
       \/ FinishBlockSignature(n)
       \/ ReceiveSignatureRequest(n)
       \/ StartSignatureResponse(n)
       \/ ReceiveSignatureResponse(n)
       \/ FinishSignatureResponse(n)
    /\ UNCHANGED <<lost, duplicated>>

(* A SendTo in listen, startBlockSignature, handleBlockSignature,         *)
(* startSignatureRequest, startSignatureResponse or handleRoundSignature- *)
(* Response returns an error: the handler logs it and goes on, and the    *)
(* message never arrives.  As delivery takes arbitrarily long, dropping a *)
(* message in flight is the same to every node as a failed send.          *)
Lose ==
    /\ lost < MaxLoss
    /\ \E m \in DOMAIN network : network' = BagRemove(network, m)
    /\ lost' = lost + 1
    /\ UNCHANGED <<started, pc, msgArg, verifyBlockRunning, verifyBlockChan,
                   verifySig, tempBlockSig, tempBlockSigReceived,
                   tempSignatureResponse, tempSignatureResponseReceived,
                   doneCalls, final, duplicated>>

(* The overlay delivers a message a second time.                          *)
Duplicate ==
    /\ duplicated < MaxDup
    /\ \E m \in DOMAIN network : network' = BagAdd(network, m)
    /\ duplicated' = duplicated + 1
    /\ UNCHANGED <<started, pc, msgArg, verifyBlockRunning, verifyBlockChan,
                   verifySig, tempBlockSig, tempBlockSigReceived,
                   tempSignatureResponse, tempSignatureResponseReceived,
                   doneCalls, final, lost>>

(* The run is over once the root has reported its signature; the leaked   *)
(* goroutines and idle listen loops take no further step.                 *)
Finished == doneCalls > 0 /\ UNCHANGED vars

Next ==
    \/ Start
    \/ \E n \in Nodes : VerifyBlock(n) \/ Listen(n)
    \/ Lose
    \/ Duplicate
    \/ Finished

(* The simulation driver calls Start, and the Go scheduler runs every     *)
(* runnable goroutine eventually: each listen loop and each VerifyBlock   *)
(* goroutine is weakly fair.  The overlay delivers every message.         *)
Spec ==
    /\ Init /\ [][Next]_vars
    /\ WF_vars(Start)
    /\ \A n \in Nodes : WF_vars(VerifyBlock(n)) /\ WF_vars(Listen(n))

-----------------------------------------------------------------------------
(* Properties                                                             *)

(* How many contributions of node m a bundle holds for the round whose    *)
(* signatures are over payload: its signatures plus its exceptions.       *)
Contributions(b, m, payload) ==
    LET ByM(s) == s.signer = m /\ s.payload = payload
    IN  CountSigs(b.sigs, ByM) + CopiesIn(m, b.exc)

(* b holds exactly one contribution of every node of S and none other.    *)
ExactlyOnce(b, S, payload) ==
    \A m \in Nodes : Contributions(b, m, payload) = IF m \in S THEN 1 ELSE 0

(* b holds at most one contribution of every node of S and none other.    *)
AtMostOnce(b, S, payload) ==
    \A m \in Nodes : Contributions(b, m, payload) <= IF m \in S THEN 1 ELSE 0

(* The root's phase-1 bundle is complete.                                 *)
Phase1Complete == ExactlyOnce(tempBlockSig[Root], Nodes, "Block")

(* Round 1 aggregates exactly: a node's tempBlockSig never holds more     *)
(* than one contribution per node of its subtree, the bundle a node sends *)
(* up (startBlockSignature, handleBlockSignature) holds exactly one per   *)
(* node of its subtree, and when the root starts the signature request    *)
(* its bundle holds one contribution of every node.  Breaking it takes a  *)
(* mistake in merging, counting or forwarding at any level of the tree.   *)
Phase1BundleExact ==
    /\ \A n \in Nodes : AtMostOnce(tempBlockSig[n], Subtree(n), "Block")
    /\ \A m \in DOMAIN network :
          m.kind = "NaiveBlockSignature" =>
          ExactlyOnce(m.body, Subtree(m.from), "Block")
    /\ verifySig[Root] # NoTask => Phase1Complete

(* Round 2 starts only after round 1 is complete at the root (spec 5): no *)
(* node has launched verifySignatureRequest or contributed to a phase-2   *)
(* bundle before the root's phase-1 bundle holds every node's             *)
(* contribution.  The only gate is handleBlockSignature's counter, which  *)
(* counts deliveries, not distinct children.                              *)
Phase2AfterPhase1 ==
    \A n \in Nodes :
        (verifySig[n] # NoTask \/ tempSignatureResponse[n] # EmptyBundle)
            => Phase1Complete

(* The root invokes onDoneCallback, and does so exactly once.             *)
Termination == <>[](doneCalls = 1)

(* onDoneCallback receives &NtreeSignature{nt.block, nt.tempSignature-   *)
(* Response}: a pointer to the root's live round-2 bundle, not a copy.    *)
(* Once the root has reported, no later step may change that bundle, or   *)
(* the signature the caller holds changes under it.                       *)
ReportedSignatureStable ==
    [][doneCalls > 0 => UNCHANGED tempSignatureResponse[Root]]_vars

(* The child counters of handleBlockSignature and handleRoundSignature-   *)
(* Response are the only completion test: once any SendTo has failed (a   *)
(* lost announcement, bundle, request or response, or Start returning     *)
(* early), the root invokes onDoneCallback only if the overlay has also   *)
(* delivered some message twice, whose second copy stands in for the lost *)
(* one in a counter.  A node that went on with a child missing for any    *)
(* other reason would let the run report a partial signature.             *)
CompletionImpliesNoLoss == doneCalls > 0 => lost <= duplicated

(* onDoneCallback is invoked at most once (spec 9: the result is          *)
(* "fulfilled exactly once by the root"), whatever the overlay delivers:  *)
(* handleRoundSignatureResponse at the root calls it each time its        *)
(* counter reaches the number of children.                                *)
AtMostOneReport == doneCalls <= 1

(* A run in which no SendTo fails and the overlay delivers no message     *)
(* twice ends with the root invoking onDoneCallback exactly once, even    *)
(* when json.Marshal or SignSchnorr fails at some nodes:                  *)
(* computeBlockSignature and computeSignatureResponse return early but    *)
(* the handlers still send their bundles up.                              *)
TerminationUnlessFault == <>(lost + duplicated > 0) \/ <>[](doneCalls = 1)

(* The request the root broadcasts is its phase-1 bundle (spec 4.4:       *)
(* "packages the full phase1Bundle as a request").                        *)
RequestIsPhase1Bundle ==
    \A n \in Nodes :
        \A m \in Pending(n, "RoundSignatureRequest") :
            m.body = tempBlockSig[Root]

(* The final NtreeSignature holds one round-2 contribution of every node  *)
(* (spec 8: N contributions in each phase).                               *)
FinalBundleComplete ==
    doneCalls > 0 => ExactlyOnce(final, Nodes, "Header")

(* verifySignatureRequest counts as good every signature of the request   *)
(* that is a valid signature over the block.                              *)
GoodSigsCounted ==
    \A n \in Nodes :
        verifySig[n] # NoTask =>
            LET OverBlock(s) == s.payload = "Block"
            IN  GoodSigs(n, verifySig[n].req)
                    = CountSigs(verifySig[n].req.sigs, OverBlock)

(* Every verifySignatureRequest goroutine eventually delivers all it      *)
(* sends and exits.                                                       *)
VerifierExits ==
    <>[](\A n \in Nodes : verifySig[n] # NoTask => verifySig[n].sends = <<>>)


-----------------------------------------------------------------------------
(* Refinement of NtreeAbstract.  The stage is read off the root: Start     *)
(* begins round 1, the root launching its verifySignatureRequest begins    *)
(* round 2, onDoneCallback ends the run.  A node has contributed to a      *)
(* round once its own signature or exception is in its own bundle of that  *)
(* round (marshalling and signing must not fail for this to be exact).     *)
AbstractStage ==
    IF ~started THEN "idle"
    ELSE IF verifySig[Root] = NoTask THEN "round1"
    ELSE IF doneCalls = 0 THEN "round2"
    ELSE "done"

SignedIn(bundle, payload) ==
    {n \in Nodes : Contributions(bundle[n], n, payload) > 0}

Abstract == INSTANCE NtreeAbstract WITH
    stage <- AbstractStage,
    signed1 <- SignedIn(tempBlockSig, "Block"),
    signed2 <- SignedIn(tempSignatureResponse, "Header")

(* Ntree implements NtreeAbstract: each node contributes once per round,  *)
(* no node contributes to round 1 after the root has requested round 2 or *)
(* to round 2 before it, the root contributes last in each round, and the *)
(* run reaches its end.  The child counters of handleBlockSignature and   *)
(* handleRoundSignatureResponse, relayed up the tree, are what order the   *)
(* root's steps after every other node's.                                 *)
ImplementsAbstract == Abstract!Spec

=============================================================================
