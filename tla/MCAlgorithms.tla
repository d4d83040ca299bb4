---------------------------- MODULE MCAlgorithms ----------------------------
(***************************************************************************)
(* Two-bit bytes and four-byte integers for the arithmetic, three-bit bytes   *)
(* for the wire, four-bit bytes for scripts.                                 *)
(***************************************************************************)
EXTENDS Algorithms

MCDivisors == [Index -> {0, 1, 3}] \cup {t \in Number : t[3] = 0 /\ t[2] = 2}
MCScalings == [t : {t \in Number : t[1] = t[2]}, num : {0, 1, 2, 5, 17, 30}, den : {0, 1, 2, 3, 8}]
MCCompactBits == 0 .. 447
MCTimespans == {0, 1, 2, 3, 5, 8, 9, 20, 32, 33}
MCPushLengths == 0 .. 33 \cup 254 .. 258
MCMinings ==
    LET low == [Zero EXCEPT ![0] = 1]
        high == [Zero EXCEPT ![2] = 1]
    IN [hash : [0 .. 3 -> {low, high}], nonce : 0 .. 3, threshold : {low, Zero}, attempts : {0, 1, 3, 5}]

MCInput(n, script) == [previous_output |-> << n >>, index |-> n, script_sig |-> script, sequence |-> 4095]
MCOutput(n, script) == [value |-> n, script_pubkey |-> script]
Long(n) == [i \in 1 .. n |-> i % WireRadix]
MCTransactions == [version : {1}, inputs : {<< >>, << MCInput(1, << 7 >>) >>,
                                            << MCInput(1, << 7 >>), MCInput(2, << >>) >>,
                                            << MCInput(1, << >>), MCInput(2, << 5, 6 >>) >>},
                   outputs : {<< >>, << MCOutput(4096, << 1 >>) >>}, lock_time : {0, 9}]
    \cup [version : {4095}, inputs : {<< MCInput(0, Long(n)) >> : n \in {4, 5, 6, 7}}
                                        \cup {<< MCInput(0, << >>), MCInput(1, << >>), MCInput(2, << >>) >>},
          outputs : {<< MCOutput(3, Long(n)) >> : n \in {0, 4, 5, 7}}, lock_time : {0}]
MCEmptyTx == [version |-> 1, inputs |-> << >>, outputs |-> << >>, lock_time |-> 3]
MCHeader == [version |-> 1, prev_blockhash |-> << 3 >>, merkle_root |-> << 4 >>,
             time |-> 70, bits |-> 4095, nonce |-> 8]
MCBlocks == [header : {MCHeader},
             transactions : {[i \in 1 .. n |-> MCEmptyTx] : n \in {0, 1, 5, 6, 7}}]
MCInv(t, n) == [inv_type |-> t, hash |-> << n >>]
MCInventories == {<< >>, << MCInv(2, 3) >>, << MCInv(1, 7), MCInv(3, 0) >>}
                 \cup {[i \in 1 .. n |-> MCInv(2, 1)] : n \in {5, 6, 7}}
MCVersions == [version : {2, 3}, services : {0}, timestamp : {9}, nonce : {4097},
               user_agent : {<< >>, << 2, 3 >>, Long(7)}, start_height : {4095}, relay : BOOLEAN]

MCTxidLists == {[i \in DOMAIN l |-> << l[i] >>] : l \in BoundedSeq(1 .. 4, 4)}
MCScriptSigs == BoundedSeq({0, 1, 2, OP_1, OP_DUP, OP_HASH160, 12, 13, 14}, 5)

MCCommandName == [verack |-> << 2 >>, version |-> << 2, 2 >>, inv |-> << 3, 3 >>,
                  getdata |-> << 4, 3 >>, block |-> << 5, 5 >>, tx |-> << 6 >>]
MCSessions ==
    LET verack == [kind |-> "verack", body |-> << >>]
        inv == [kind |-> "inv", body |-> << MCInv(2, 3) >>]
        getdata == [kind |-> "getdata", body |-> << MCInv(1, 7) >>]
        tx == [kind |-> "tx", body |-> MCEmptyTx]
        block == [kind |-> "block", body |-> [header |-> MCHeader, transactions |-> << MCEmptyTx >>]]
        version == [kind |-> "version", body |-> [version |-> 2, services |-> 1, timestamp |-> 9,
                        nonce |-> 5, user_agent |-> << 2 >>, start_height |-> 6, relay |-> FALSE]]
    IN {<< version, verack >>, << inv, getdata, tx >>, << verack, block >>}
=============================================================================
