-------------------------------- MODULE Script --------------------------------
(***************************************************************************)
(* The script interpreter of bitrst-script: interpreter.rs, stack.rs and the  *)
(* templates of p2pkh.rs.                                                    *)
(*                                                                          *)
(* A byte is 0 .. ScriptRadix - 1 and a direct push has 1 .. MaxDirect        *)
(* bytes, followed in the opcode space by the operations.  A public key is    *)
(* one byte, a DER signature one byte that depends on the key and the signed  *)
(* hash, and a HASH160 one value that no other item has.                     *)
(***************************************************************************)
EXTENDS Integers, SequencesExt

CONSTANTS ScriptRadix,      \* 256
          MaxDirect         \* 75

OP_PUSHDATA1 == MaxDirect + 1
OP_PUSHDATA2 == MaxDirect + 2
OP_PUSHDATA4 == MaxDirect + 3
OP_1 == MaxDirect + 4
OP_DUP == MaxDirect + 5
OP_EQUAL == MaxDirect + 6
OP_EQUALVERIFY == MaxDirect + 7
OP_HASH160 == MaxDirect + 8
OP_CHECKSIG == MaxDirect + 9

ScriptValue(bytes) == MapThenSumSet(LAMBDA i : bytes[i] * ScriptRadix ^ (i - 1), DOMAIN bytes)

\* bitrst-crypto: the hash of an item, and the check of a signature.
hash160(item) == << ScriptRadix * (1 + ScriptValue(item)) + Len(item) >>
SignatureOf(key, sighash) == << (key + sighash) % ScriptRadix >>
sign_der_with_hashtype(key, sighash, sighash_type) == Append(SignatureOf(key, sighash), sighash_type)

\* The hash type, the last byte, is not looked at.
verify_der_signature(signature, pubkey, sighash) ==
    Len(signature) >= 2 /\ Len(pubkey) = 1 /\ Front(signature) = SignatureOf(pubkey[1], sighash)

\* Bytes that are all zero are false, and so is a negative zero.
script_bool(bytes) ==
    \E i \in DOMAIN bytes : bytes[i] # 0 /\ ~(i = Len(bytes) /\ bytes[i] = ScriptRadix \div 2)
-----------------------------------------------------------------------------
(* A machine is the program counter (bytes consumed), the stack and the error. *)

Machine == [pc : Nat, stack : Seq(Seq(Nat)), err : STRING]

Fail(m, e) == [m EXCEPT !.err = e]
Push(m, item) == [m EXCEPT !.stack = Append(@, item)]

\* The `width` bytes at the counter are the length of the data pushed.
read_push(m, script, width) ==
    LET start == m.pc + width
        end == start + ScriptValue(SubSeq(script, m.pc + 1, start))
    IN IF start > Len(script) THEN Fail(m, "UnexpectedEnd")
       ELSE IF end > Len(script) THEN Fail(m, "UnexpectedEnd")
       ELSE Push([m EXCEPT !.pc = end], SubSeq(script, start + 1, end))

\* Pops n items, the top one last in the argument of Then.
Popping(m, n, Then(_, _)) ==
    LET depth == Len(m.stack) - n
    IN IF depth < 0 THEN Fail(m, "StackUnderflow")
       ELSE Then([m EXCEPT !.stack = SubSeq(@, 1, depth)], SubSeq(m.stack, depth + 1, Len(m.stack)))

\* One turn of the loop of execute_script.
Execute(m, script, sighash) ==
    LET opcode == script[m.pc + 1]
        next == [m EXCEPT !.pc = @ + 1]
    IN CASE opcode = 0 -> Push(next, << >>)
         [] opcode \in 1 .. MaxDirect -> read_push(m, script, 1)
         [] opcode = OP_PUSHDATA1 -> read_push(next, script, 1)
         [] opcode = OP_PUSHDATA2 -> read_push(next, script, 2)
         [] opcode = OP_PUSHDATA4 -> read_push(next, script, 4)
         [] opcode = OP_1 -> Push(next, << 1 >>)
         [] opcode = OP_DUP -> Popping(next, 1, LAMBDA n, it : Push(Push(n, it[1]), it[1]))
         [] opcode = OP_HASH160 -> Popping(next, 1, LAMBDA n, it : Push(n, hash160(it[1])))
         [] opcode = OP_EQUAL ->
                Popping(next, 2, LAMBDA n, it : Push(n, IF it[1] = it[2] THEN << 1 >> ELSE << >>))
         [] opcode = OP_EQUALVERIFY ->
                Popping(next, 2, LAMBDA n, it : IF it[1] = it[2] THEN n ELSE Fail(n, "EqualVerifyFailed"))
         [] opcode = OP_CHECKSIG ->
                Popping(next, 2, LAMBDA n, it : IF verify_der_signature(it[1], it[2], sighash)
                                                THEN Push(n, << 1 >>) ELSE Fail(n, "CheckSigFailed"))
         [] OTHER -> Fail(next, "UnknownOpcode")

execute_script(script, stack, sighash) ==
    LET run[m \in Machine] ==
            IF m.err = "none" /\ m.pc < Len(script) THEN run[Execute(m, script, sighash)] ELSE m
    IN run[[pc |-> 0, stack |-> stack, err |-> "none"]]

verify_script(script_sig, script_pubkey, sighash) ==
    LET unlock == execute_script(script_sig, << >>, sighash)
        lock == execute_script(script_pubkey, unlock.stack, sighash)
    IN CASE unlock.err # "none" -> unlock.err
         [] unlock.err = "none" /\ lock.err # "none" -> lock.err
         [] OTHER -> IF lock.stack = << >> THEN "StackUnderflow"
                     ELSE IF script_bool(Last(lock.stack)) THEN "ok" ELSE "EvalFalse"
-----------------------------------------------------------------------------
(* p2pkh.rs *)

push_data(data) ==
    LET n == Len(data)
        size(width) == [i \in 1 .. width |-> (n \div ScriptRadix ^ (i - 1)) % ScriptRadix]
    IN CASE n = 0 -> << 0 >>
         [] n \in 1 .. MaxDirect -> << n >> \o data
         [] n \in MaxDirect + 1 .. ScriptRadix - 1 -> << OP_PUSHDATA1 >> \o size(1) \o data
         [] n \in ScriptRadix .. ScriptRadix ^ 2 - 1 -> << OP_PUSHDATA2 >> \o size(2) \o data
         [] OTHER -> << OP_PUSHDATA4 >> \o size(4) \o data

\* Mutant of p2pkh_script_pubkey: the key's hash is not checked.
MutScriptPubkey(pubkey_hash) == << OP_CHECKSIG >>

p2pkh_script_pubkey(pubkey_hash) ==
    << OP_DUP, OP_HASH160, Len(pubkey_hash) >> \o pubkey_hash \o << OP_EQUALVERIFY, OP_CHECKSIG >>

p2pkh_script_sig(signature, pubkey) == push_data(signature) \o push_data(pubkey)
=============================================================================
