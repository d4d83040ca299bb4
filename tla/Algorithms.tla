----------------------------- MODULE Algorithms -----------------------------
(***************************************************************************)
(* The pure parts of the program, called one at a time: call is the last      *)
(* call, with its arguments and its result, or the reading of one connection   *)
(* by FramedReader, which takes several steps.                               *)
(***************************************************************************)
EXTENDS Arithmetic, Codec, Script

CONSTANTS Dividends, Divisors,      \* Numbers
          Scalings,                 \* [t, num, den] for mul_div_threshold
          CompactBits, Timespans,
          Minings,                  \* [hash, nonce, threshold, attempts]
          Transactions, Blocks, Inventories, Versions,
          TxidLists,                \* lists of transaction ids
          PushLengths, ScriptSigs, Key, Sighash,
          Sessions                  \* sequences of messages sent on one connection

VARIABLE call

Idle == [op |-> "idle"]
Init == call = Idle

\* Nothing is being computed.
Ready == call.op = "idle"
-----------------------------------------------------------------------------
(* Arithmetic *)

Divide == Ready /\ \E build \in Builds, a \in Dividends, b \in Divisors :
    call' = [op |-> "div", build |-> build, a |-> a, b |-> b, r |-> div_u256_le(build, a, b)]

Work == Ready /\ \E build \in Builds, bits \in CompactBits :
    call' = [op |-> "work", build |-> build, bits |-> bits, r |-> block_work(build, bits)]

Scale == Ready /\ \E s \in Scalings :
    call' = [op |-> "scale", s |-> s, r |-> mul_div_threshold(s.t, s.num, s.den)]

Compact == Ready /\ \E t \in Dividends : call' = [op |-> "compact", t |-> t, r |-> to_bits(t)]

Adjust == Ready /\ \E bits \in CompactBits, span \in Timespans :
    call' = [op |-> "adjust", bits |-> bits, span |-> span, r |-> adjust_bits(bits, span)]

Mine == Ready /\ \E m \in Minings :
    call' = [op |-> "mine", m |-> m, r |-> mine(m.hash, m.nonce, m.threshold, m.attempts)]
-----------------------------------------------------------------------------
(* Codecs *)

Encode == Ready /\
    \/ \E tx \in Transactions : call' = [op |-> "tx", v |-> tx, r |-> Ok(serialize_transaction(tx))]
    \/ \E b \in Blocks : call' = [op |-> "block", v |-> b, r |-> Ok(serialize_block(b))]
    \/ \E l \in Inventories : call' = [op |-> "inv", v |-> l, r |-> encode_inventory_list(l)]
    \/ \E m \in Versions : call' = [op |-> "version", v |-> m, r |-> encode_version(m)]

DecodeAs(op, bytes) ==
    CASE op = "tx" -> deserialize_transaction(bytes)
      [] op = "block" -> deserialize_block(bytes)
      [] op = "inv" -> decode_inventory_list(bytes)
      [] op = "version" -> decode_version(bytes)

\* Bytes near a well-formed encoding: one byte changed, one length written
\* with a wider CompactSize, bytes missing or added at the end.
Nearby(e) ==
    {[e EXCEPT ![i] = x] : i \in DOMAIN e, x \in Byte}
    \cup {SubSeq(e, 1, i - 1) \o << marker >> \o le_bytes(IF marker = WireRadix - 3 THEN 2 ELSE 4, e[i])
            \o SubSeq(e, i + 1, Len(e)) : i \in DOMAIN e, marker \in {WireRadix - 3, WireRadix - 2}}
    \cup {SubSeq(e, 1, i) : i \in 0 .. Len(e)} \cup {Append(e, x) : x \in Byte}

\* The bytes just encoded reach a decoder changed.
Decode ==
    /\ call.op \in {"tx", "block", "inv"} /\ call.r.kind = "ok"
    /\ \E bytes \in Nearby(call.r.v) :
           call' = [op |-> "decode", as |-> call.op, bytes |-> bytes, r |-> DecodeAs(call.op, bytes)]

HashForSigning == Ready /\ \E tx, other \in Transactions : \E i \in DOMAIN tx.inputs :
    LET scripts == [j \in DOMAIN tx.inputs |-> << 1, 2 >>]
    IN call' = [op |-> "sighash", tx |-> tx, other |-> other, i |-> i, scripts |-> scripts,
             r |-> sighash_all(tx, i, scripts)]

Merkle == Ready /\ \E l \in TxidLists : call' = [op |-> "merkle", l |-> l, r |-> merkle_root(l)]
-----------------------------------------------------------------------------
(* Scripts *)

PushData == Ready /\ \E n \in PushLengths :
    LET data == [i \in 1 .. n |-> i % ScriptRadix]
    IN call' = [op |-> "push", data |-> data, r |-> execute_script(push_data(data), << >>, Sighash)]

Spend == Ready /\ \E s \in ScriptSigs :
    call' = [op |-> "spend", script_sig |-> s,
          r |-> verify_script(s, p2pkh_script_pubkey(hash160(<< Key >>)), Sighash)]
-----------------------------------------------------------------------------
(* FramedReader::read_message, awaited in the select! of the peer's loop.      *)

StartRead == Ready /\ \E sent \in Sessions :
    LET wire == FlattenSeq([i \in DOMAIN sent |-> write_message(sent[i])])
        \* damage: bytes the connection loses at its end, or the payload byte
        \* of the last message that is changed
        damages == {[cut |-> n, flip |-> 0] : n \in 0 .. Len(wire)}
                   \cup {[cut |-> 0, flip |-> i] :
                            i \in Len(wire) - Len(encode_payload(Last(sent)).v) + 1 .. Len(wire)}
    IN \E d \in damages :
         call' = [op |-> "read", sent |-> sent, damage |-> d,
               wire |-> SubSeq(IF d.flip = 0 THEN wire
                               ELSE [wire EXCEPT ![d.flip] = (@ + 1) % WireRadix],
                               1, Len(wire) - d.cut),
               buffer |-> << >>, at |-> "header", header |-> << >>, total |-> MESSAGE_HEADER_SIZE,
               delivered |-> << >>, result |-> "reading"]

Reading == call.op = "read" /\ call.result = "reading"
Waiting == Reading /\ Len(call.buffer) < call.total

\* read_buf returns n bytes, or 0 at the end of the stream.
Receive == Waiting /\ \E n \in 1 .. Len(call.wire) :
    call' = [call EXCEPT !.buffer = @ \o SubSeq(call.wire, 1, n),
                         !.wire = SubSeq(@, n + 1, Len(@))]

EndOfStream == Waiting /\ call.wire = << >> /\ call' = [call EXCEPT !.result = "ConnectionClosed"]

ReadError == Waiting /\ call' = [call EXCEPT !.result = "Io"]

\* Mutant of Cancel: the buffer is a local of the future.
MutCancel ==
    /\ Waiting
    /\ call' = [call EXCEPT !.at = "header", !.header = << >>, !.total = MESSAGE_HEADER_SIZE,
                            !.buffer = << >>]

\* Another branch of select! wins: the future is dropped with its header, and
\* the next one starts with the bytes in the buffer.
Cancel ==
    /\ Waiting
    /\ call' = [call EXCEPT !.at = "header", !.header = << >>, !.total = MESSAGE_HEADER_SIZE]

ParseHeader ==
    /\ Reading /\ ~Waiting /\ call.at = "header"
    /\ LET header == decode_message_header(SubSeq(call.buffer, 1, MESSAGE_HEADER_SIZE))
       IN call' = IF header.kind # "ok" THEN [call EXCEPT !.result = header.kind]
                  ELSE [call EXCEPT !.at = "payload", !.header = << header.v >>,
                                    !.total = MESSAGE_HEADER_SIZE + header.v.payload_len]

\* The reader after a message: what became of it, and the bytes beyond it.
Delivered(decoded) ==
    LET rest == [call EXCEPT !.buffer = SubSeq(@, call.total + 1, Len(@)), !.at = "header",
                             !.header = << >>, !.total = MESSAGE_HEADER_SIZE]
    IN IF decoded.kind = "ok" THEN [rest EXCEPT !.delivered = Append(@, decoded.v)]
       ELSE [rest EXCEPT !.result = decoded.kind]

Deliver ==
    /\ Reading /\ ~Waiting /\ call.at = "payload"
    /\ LET header == call.header[1]
           payload == SubSeq(call.buffer, MESSAGE_HEADER_SIZE + 1, call.total)
       IN call' = Delivered(IF checksum(payload) = header.checksum
                            THEN decode_payload(header.command, payload) ELSE Err("ChecksumMismatch"))
-----------------------------------------------------------------------------
Return == call.op # "idle" /\ ~Reading /\ call' = Idle

Next == \/ Divide \/ Work \/ Scale \/ Compact \/ Adjust \/ Mine
        \/ Encode \/ Decode \/ HashForSigning \/ Merkle
        \/ PushData \/ Spend
        \/ StartRead \/ Receive \/ EndOfStream \/ ReadError \/ Cancel \/ ParseHeader \/ Deliver
        \/ Return

Spec == Init /\ [][Next]_call
-----------------------------------------------------------------------------
(* Reference definitions, over the integers. *)

Limit == Radix ^ Digits
Mantissa(bits) == bits % Mantissas
Decodes(bits) == Mantissa(bits) \in 1 .. SignBit - 1 /\ bits \div Mantissas <= Digits
TargetOf(bits) == (Mantissa(bits) * Radix ^ (bits \div Mantissas)) \div Radix ^ 3
BlockProof(bits) == (Limit - 1 - TargetOf(bits)) \div (TargetOf(bits) + 1) + 1
HasFullByte(n) == \E i \in Index : Digit(n, i) = Radix - 1
Returns(r, n) == r.kind = "some" /\ Value(r.v) = n

\* What is lost when n is kept with the three bytes of a mantissa, one of
\* which may hold only its sign.
Rounds(bits, n) ==
    /\ Decodes(bits) /\ TargetOf(bits) <= n
    /\ \E size \in 0 .. Digits : /\ n < Radix ^ size
                                 /\ size = 0 \/ n >= Radix ^ (size - 1)
                                 /\ n - TargetOf(bits) < Radix ^ (IF size > 2 THEN size - 2 ELSE 0)
-----------------------------------------------------------------------------
\* The long division of uint256.rs and the work block_work derives from it are
\* exact, and neither panics, whenever no byte of the divisor is 0xff; a
\* divisor of zero and a target of zero give no result.
WorkExact ==
    /\ call.op = "div" /\ ~HasFullByte(Value(call.b)) =>
           IF Value(call.b) = 0 THEN call.r = None
           ELSE Returns(call.r, Value(call.a) \div Value(call.b))
    /\ call.op = "work" =>
           IF Decodes(call.bits) /\ TargetOf(call.bits) > 0
           THEN HasFullByte(TargetOf(call.bits) + 1) \/ Returns(call.r, BlockProof(call.bits))
           ELSE call.r = None

\* "Matches Bitcoin Core GetBlockProof: (~target / (target + 1)) + 1", as the
\* comment on to_work says, for every target a header can claim, in a build
\* whose integer additions wrap.
WorkIsBlockProof ==
    call.op = "work" /\ call.build = "release" /\ Decodes(call.bits) /\ TargetOf(call.bits) > 0 =>
        Returns(call.r, BlockProof(call.bits))

\* mul_div_threshold is exact on its wide product, and refuses only what does
\* not fit: a product beyond its extra bytes or a quotient beyond 256 bits.
ScalingExact ==
    call.op = "scale" =>
        LET s == call.s
            product == Value(s.t) * s.num
        IN IF s.den = 0 THEN call.r = None
           ELSE IF product >= Radix ^ (Digits + ProductExtra) \/ product \div s.den >= Limit
           THEN call.r = None ELSE Returns(call.r, product \div s.den)

\* What the code computes with hand-made long division is exact, but for the
\* divisors that WorkExact leaves out.
ArithmeticExact == WorkExact /\ ScalingExact

\* A target at or below the maximum target survives to_bits and from_bits but
\* for the bytes below its mantissa, and encoding what came back gives the
\* same bits: a header's target is the same for every node that recomputes it.
CompactStable ==
    call.op = "compact" /\ Value(call.t) \in 1 .. TargetOf(MAX_COMPACT_BITS) =>
        /\ call.r.kind = "some" /\ Rounds(call.r.v, Value(call.t))
        /\ from_bits(call.r.v).kind = "some" /\ to_bits(from_bits(call.r.v).v) = call.r

\* The next period's target is the previous one scaled by the clamped
\* timespan and capped, rounded only as the compact form rounds; adjust_bits
\* fails only for bits that do not decode, a target beyond 256 bits or zero.
RetargetExact ==
    call.op = "adjust" =>
        LET low == TARGET_TIMESPAN \div 4
            high == TARGET_TIMESPAN * 4
            span == Min({Max({low, call.span}), high})
            scaled == (TargetOf(call.bits) * span) \div TARGET_TIMESPAN
            capped == Min({scaled, TargetOf(MAX_COMPACT_BITS)})
        IN CASE ~Decodes(call.bits) -> call.r.kind = "InvalidPreviousBits"
             [] Decodes(call.bits) /\ scaled >= Limit -> call.r.kind = "Overflow"
             [] OTHER -> IF capped = 0 THEN call.r.kind = "EncodingFailed"
                         ELSE call.r.kind = "some" /\ Rounds(call.r.v, capped)

\* Every node derives the same target from the same headers: retargeting is exact
\* and its result survives the compact form.
TargetsAgree == CompactStable /\ RetargetExact

\* mine stops at the first nonce from where it starts, wrapping around, whose
\* hash meets the target, and gives up only when its attempts hold none.
MineFindsFirst ==
    call.op = "mine" =>
        LET m == call.m
            nonces == Cardinality(DOMAIN m.hash)
            good(k) == Value(m.hash[(m.nonce + k) % nonces]) <= Value(m.threshold)
            hits == {k \in 0 .. m.attempts - 1 : good(k)}
        IN IF hits = {} THEN call.r.kind = "AttemptsExceeded"
           ELSE call.r = [kind |-> "some", nonce |-> (m.nonce + Min(hits)) % nonces]
-----------------------------------------------------------------------------
WithinTx(tx) ==
    /\ Len(tx.inputs) <= MAX_TRANSACTION_INPUTS /\ Len(tx.outputs) <= MAX_TRANSACTION_OUTPUTS
    /\ \A i \in DOMAIN tx.inputs : Len(tx.inputs[i].script_sig) <= MAX_SCRIPT_SIZE
    /\ \A i \in DOMAIN tx.outputs : Len(tx.outputs[i].script_pubkey) <= MAX_SCRIPT_SIZE

Within(op, v) ==
    CASE op = "tx" -> WithinTx(v) /\ transaction_size(v) <= MAX_TRANSACTION_SERIALIZED_SIZE
      [] op = "block" -> /\ \A i \in DOMAIN v.transactions : WithinTx(v.transactions[i])
                         /\ Len(v.transactions) <= MAX_TRANSACTIONS_PER_BLOCK
                         /\ block_size(v) <= MAX_BLOCK_SERIALIZED_SIZE
      [] op = "inv" -> Len(v) <= MAX_INV_COUNT
      [] op = "version" -> Len(v.user_agent) <= MAX_USER_AGENT_LEN

\* The relay flag of a peer too old to send one reads as set.
Arrives(op, v) == IF op = "version" /\ v.version < RelayVersion THEN [v EXCEPT !.relay = TRUE] ELSE v

\* A transaction, block, inventory or version message decodes to itself
\* exactly when it is within the limits, and the sizes computed without
\* serializing (the ones the chain and the mempool charge) are the real ones.
EncodingExact ==
    call.op \in {"tx", "block", "inv", "version"} =>
        LET sent == call.r.kind = "ok"
            back == DecodeAs(call.op, call.r.v)
        IN /\ IF Within(call.op, call.v)
              THEN sent /\ back.kind = "ok" /\ back.v = Arrives(call.op, call.v)
              ELSE sent => back.kind # "ok"
           /\ call.op = "tx" => transaction_size(call.v) = Len(call.r.v)
           /\ call.op = "block" => block_size(call.v) = Len(call.r.v)

\* No other bytes decode to the same value: whatever a decoder accepts is the
\* encoding of what it returns, so one transaction has one id and one size.
OneEncoding ==
    call.op = "decode" /\ call.r.kind = "ok" =>
        Ok(call.bytes) = CASE call.as = "tx" -> Ok(serialize_transaction(call.r.v))
                           [] call.as = "block" -> Ok(serialize_block(call.r.v))
                           [] call.as = "inv" -> encode_inventory_list(call.r.v)

\* Values and their bytes correspond one to one, and so do their ids and sizes.
CodecExact == EncodingExact /\ OneEncoding

\* A signature stays valid while the other inputs are being signed, and for
\* no transaction that differs in anything but the unlocking scripts; the
\* signatures of two inputs are never interchangeable.
SighashBinds ==
    call.op = "sighash" =>
        LET unsigned(tx) == [tx EXCEPT !.inputs = [j \in DOMAIN @ |-> [@[j] EXCEPT !.script_sig = << >>]]]
            again(j) == sighash_all(call.other, j, call.scripts)
        IN /\ call.r.kind = "ok"
           /\ \A j \in DOMAIN call.other.inputs :
                  Len(call.other.inputs) = Len(call.tx.inputs) =>
                      ((again(j) = call.r) <=> (j = call.i /\ unsigned(call.other) = unsigned(call.tx)))

\* Two lists of transaction ids have the same Merkle root only if they are
\* equal or one of them holds an id twice (an odd level repeats its last hash).
MerkleCommits ==
    call.op = "merkle" /\ IsInjective(call.l) =>
        \A l \in TxidLists : IsInjective(l) /\ merkle_root(l) = call.r => l = call.l

\* What is hashed for a signature or a header determines what it stands for.
HashesCommit == SighashBinds /\ MerkleCommits
-----------------------------------------------------------------------------
\* What push_data writes, the interpreter pushes as one item, at every length
\* where the encoding changes.
PushExact ==
    call.op = "push" => call.r.err = "none" /\ call.r.stack = << call.data >>

\* A P2PKH output is unlocked by exactly the scripts that leave the key's
\* signature of this hash, with any hash type, and the key on top of the
\* stack, whatever else the unlocking script does; what p2pkh_script_sig
\* builds is one of them.
SpendNeedsKey ==
    call.op = "spend" =>
        LET left == execute_script(call.script_sig, << >>, Sighash)
            n == Len(left.stack)
        IN /\ call.r = "ok" <=> /\ left.err = "none" /\ n >= 2
                                /\ left.stack[n] = << Key >>
                                /\ Len(left.stack[n - 1]) >= 2
                                /\ Front(left.stack[n - 1]) = SignatureOf(Key, Sighash)
           /\ \A t \in {1, 2} :
                  call.script_sig = p2pkh_script_sig(sign_der_with_hashtype(Key, Sighash, t), << Key >>)
                      => call.r = "ok"

\* The interpreter agrees with the builders of scripts, and a P2PKH output is spent
\* by nothing but its key's signature.
ScriptExact == PushExact /\ SpendNeedsKey

\* However the stream is cut into reads, and however often select! drops the
\* future in the middle of a message, FramedReader delivers the messages sent,
\* in order; it stops early only where the stream is truncated or damaged, and
\* never delivers a damaged message.
ReadsWhatWasSent ==
    call.op = "read" =>
        LET intact == Len(call.sent) - IF call.damage.cut + call.damage.flip > 0 THEN 1 ELSE 0
        IN /\ Len(call.delivered) <= Len(call.sent)
           /\ \A i \in DOMAIN call.delivered :
                  /\ call.delivered[i].kind = call.sent[i].kind
                  /\ call.delivered[i].body = Arrives(call.sent[i].kind, call.sent[i].body)
           /\ call.damage.flip > 0 => Len(call.delivered) <= intact
           /\ call.result \notin {"reading", "ConnectionClosed", "Io"} => call.damage.flip > 0
           /\ call.result \notin {"reading", "Io"} /\ call.damage.cut = 0 => Len(call.delivered) = intact
=============================================================================
