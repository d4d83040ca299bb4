------------------------------ MODULE UtxoSet ------------------------------
(***************************************************************************)
(* The unspent-output set of bitrst-core (utxo.rs) and the way the chain    *)
(* validates, applies and undoes the transactions of a block with it.       *)
(*                                                                          *)
(* The set is modelled by its keys, the outpoints.  An outpoint names its   *)
(* creating transaction, so the value and the script stored with it are     *)
(* determined by the key; checks on them (value conservation, u64 overflow, *)
(* scripts) have the same verdict in every state and are the set BadTx.     *)
(*                                                                          *)
(* Folding transactions over the set is written without recursion: an       *)
(* outpoint is present before transaction i exactly when its last creation  *)
(* (or the initial set) is not followed by a spend.                         *)
(***************************************************************************)
EXTENDS Naturals, Sequences, FiniteSets, FiniteSetsExt

CONSTANTS
    Tx,         \* transaction ids
    OutPoint,   \* (txid, index) pairs
    Coinbase,   \* the transactions for which is_coinbase holds
    BadTx,      \* fail value conservation, overflow or script checks
    inputs,     \* [Tx -> Seq(OutPoint)]: previous outputs, empty for a coinbase
    outputs     \* [Tx -> SUBSET OutPoint]: the outpoints a transaction creates

ASSUME TxAssumption ==
    /\ Coinbase \subseteq Tx
    /\ BadTx \subseteq Tx
    /\ inputs \in [Tx -> Seq(OutPoint)]
    /\ outputs \in [Tx -> SUBSET OutPoint]
    /\ \A t \in Coinbase : inputs[t] = << >>

\* The set of outpoints a transaction spends.  A coinbase's null input is
\* never looked up in the set.
Spends(t) == { inputs[t][k] : k \in DOMAIN inputs[t] }

\* The set U after the first i - 1 transactions of the list txs:
\* apply_transaction removes the spent outpoints, then inserts the created ones.
ViewBefore(U, txs, i) ==
    { o \in OutPoint :
        \/ /\ o \in U
           /\ \A k \in 1..(i - 1) : o \notin Spends(txs[k])
        \/ \E j \in 1..(i - 1) :
              /\ o \in outputs[txs[j]]
              /\ \A k \in (j + 1)..(i - 1) : o \notin Spends(txs[k]) }

\* U after every transaction of txs.
ApplyTransactions(U, txs) == ViewBefore(U, txs, Len(txs) + 1)

\* The TxUndo list that applying txs to U returns.
UndoOf(U, txs) ==
    [ i \in DOMAIN txs |->
        [ removed |-> Spends(txs[i]) \cap ViewBefore(U, txs, i),
          created |-> outputs[txs[i]] ] ]

\* Mutant of DisconnectUndo: the entries are undone first to last.
MutForwardUndo(U, undo) ==
    { o \in OutPoint :
        LET touching == { i \in DOMAIN undo :
                            o \in undo[i].removed \cup undo[i].created }
        IN  IF touching = {} THEN o \in U
            ELSE o \in undo[Max(touching)].removed }

\* The set after disconnect_undo of every entry, last transaction first.  The
\* entry processed last, the one with the least index, decides; within one
\* entry the created outpoints are removed before the spent ones come back.
DisconnectUndo(U, undo) ==
    { o \in OutPoint :
        LET touching == { i \in DOMAIN undo :
                            o \in undo[i].removed \cup undo[i].created }
        IN  IF touching = {} THEN o \in U
            ELSE o \in undo[Min(touching)].removed }

\* No outpoint is spent twice by the inputs of the block's transactions.
NoDuplicateSpend(txs) ==
    \A i, j \in DOMAIN txs :
        \A k \in DOMAIN inputs[txs[i]], m \in DOMAIN inputs[txs[j]] :
            inputs[txs[i]][k] = inputs[txs[j]][m] => i = j /\ k = m

\* validate_block_transactions_for_utxo: every transaction in turn finds its
\* inputs in the view left by the transactions before it.
ValidTransactions(U, txs) ==
    /\ NoDuplicateSpend(txs)
    /\ \A i \in DOMAIN txs :
        /\ txs[i] \notin BadTx
        /\ Spends(txs[i]) \subseteq ViewBefore(U, txs, i)

=============================================================================
