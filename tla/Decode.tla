------------------------------- MODULE Decode -------------------------------
(***************************************************************************)
(* From a block on the chain to the rows of a handler.  Both sources of    *)
(* subdex-source turn it into the framework's Block, by SCALE decoding     *)
(* over RPC (mapping.rs) and by bridging the portal's JSON                 *)
(* (sqd/mapping.rs); the handlers of the examples read the fields of its   *)
(* events back by name (value.rs, ss58.rs).                                *)
(*                                                                         *)
(* A raw block is [events, extrinsics, calls, now]: its calls are those of *)
(* the extrinsics and the ones nested in them (batches, proxies), in block *)
(* order, each [extrinsic, item] with an extrinsic's place and parts.  A   *)
(* raw field is an integer or a 32-byte account: [int |-> n] or            *)
(* [account |-> a].  Names are opaque, hashes and spec version are copied  *)
(* by both sources and left out.                                           *)
(***************************************************************************)
EXTENDS Integers, Sequences, SequencesExt, FiniteSets

CONSTANTS
  None,    \* Option::None, JSON null, SQL NULL
  I64,     \* 2^63: an i64 is -I64 .. I64-1, a u64 is 0 .. 2*I64-1
  Ulp      \* distance of the f64 values above 2^64

U64Max == 2 * I64 - 1

\* `as i64` on an unsigned integer.
AsI64(n) == LET m == n % (2 * I64) IN IF m >= I64 THEN m - 2 * I64 ELSE m

\* The f64 next to an integer above 2^64.
AsFloat(n) == ((n + Ulp \div 2) \div Ulp) * Ulp

-----------------------------------------------------------------------------
(* scale_value::Value.                                                     *)

U128(n)     == [def |-> "u128", int |-> n]
Text(s)     == [def |-> "string", text |-> s]
Bytes(b)    == [def |-> "bytes", bytes |-> b]     \* a composite of u8
Unnamed(vs) == [def |-> "unnamed", items |-> vs]
Named(fs)   == [def |-> "named", fields |-> fs]

Unit == Unnamed(<<>>)

\* What subxt's dynamic decoding makes of a field; an account is a newtype.
Scale(f) == IF "int" \in DOMAIN f THEN U128(f.int)
            ELSE Unnamed(<<Bytes(f.account)>>)

ScaleArgs(args) == Named([n \in DOMAIN args |-> Scale(args[n])])

-----------------------------------------------------------------------------
(* ss58.rs: an address keeps the account and the network prefix.           *)

Ss58(account, prefix) == [account |-> account, prefix |-> prefix]

\* The hex of an address's bytes, with the tag of its variant where they have one.
Hex(tag, of) == [hex |-> <<tag, of>>]

\* The bytes of an extrinsic's address are [tag, length, of]: a MultiAddress
\* with its variant's tag, or a bare account without one.
Faulty_AccountOf(addr) ==   \* only the bare form
  IF addr.length = 32 /\ addr.tag = None THEN addr.of ELSE None

AccountOf(addr) ==
  IF addr.length = 32 /\ addr.tag \in {None, "Id", "Address32"}
  THEN addr.of ELSE None

-----------------------------------------------------------------------------
(* mapping.rs: a block over RPC, None where it is a Decode error.          *)

\* Fields that do not decode: an error, or an empty value and a count.
Faulty_OnDecodeFailure(strict) == Unit

OnDecodeFailure(strict) == IF strict THEN None ELSE Unit

\* A raw item `decodes` whole, without its "fields", or not at all ("no").
DecodedArgs(item, strict) ==
  IF item.decodes = "whole" THEN ScaleArgs(item.args)
  ELSE OnDecodeFailure(strict)

Undecodable(items, strict) ==
  \E i \in DOMAIN items :
    items[i].decodes = "no" \/ DecodedArgs(items[i], strict) = None

\* System.ExtrinsicSuccess/Failed, the last one of an extrinsic.
SuccessOf(events, index) ==
  LET told == {i \in DOMAIN events :
                 /\ events[i].pallet = "System"
                 /\ events[i].extrinsic = index
                 /\ events[i].name \in {"ExtrinsicSuccess", "ExtrinsicFailed"}}
  IN  IF told = {} THEN TRUE
      ELSE events[CHOOSE i \in told : \A j \in told : j <= i].name
             = "ExtrinsicSuccess"

MapEvents(events, strict) ==
  [i \in DOMAIN events |->
     [index |-> i - 1, pallet |-> events[i].pallet, name |-> events[i].name,
      fields |-> DecodedArgs(events[i], strict),
      extrinsic |-> events[i].extrinsic]]

Signer(addr, prefix) ==
  IF addr = None THEN None
  ELSE IF AccountOf(addr) # None THEN Ss58(AccountOf(addr), prefix)
  ELSE Hex(addr.tag, addr.of)

MapExtrinsics(exts, events, prefix, strict) ==
  [i \in DOMAIN exts |->
     [index |-> i - 1, pallet |-> exts[i].pallet, call |-> exts[i].call,
      args |-> DecodedArgs(exts[i], strict),
      signed |-> exts[i].address # None,
      signer |-> Signer(exts[i].address, prefix),
      success |-> SuccessOf(events, i - 1)]]

\* The integer that the first Timestamp.set was called with.
ExtractTimestamp(exts) ==
  LET sets == {i \in DOMAIN exts :
                 exts[i].pallet = "Timestamp" /\ exts[i].call = "set"}
      first == CHOOSE i \in sets : \A j \in sets : i <= j
  IN  IF sets # {} /\ exts[first].args.def = "named"
      THEN exts[first].args.fields["now"].int ELSE None

\* cfg is [events, extrinsics, strict, prefix].
MapBlock(raw, number, cfg) ==
  LET evs  == IF cfg.events THEN raw.events ELSE <<>>
      exts == IF cfg.extrinsics THEN raw.extrinsics ELSE <<>>
      mapped == MapExtrinsics(exts, evs, cfg.prefix, cfg.strict)
  IN  IF Undecodable(evs, cfg.strict) \/ Undecodable(exts, cfg.strict) THEN None
      ELSE [number |-> number, timestamp |-> ExtractTimestamp(mapped),
            finalized |-> TRUE, extrinsics |-> mapped,
            events |-> MapEvents(evs, cfg.strict)]

-----------------------------------------------------------------------------
(* The portal: what it serves, and client.rs and sqd/mapping.rs.           *)

\* Decoded arguments as JSON: integers as numbers, accounts as hex strings.
Json(f) == IF "int" \in DOMAIN f THEN [number |-> f.int]
           ELSE [string |-> f.account]

JsonArgs(item) ==
  IF item.decodes # "whole" THEN None
  ELSE [n \in DOMAIN item.args |-> Json(item.args[n])]

\* A call's origin, if it is signed: the account or address without a tag.
Origin(address) ==
  IF address = None THEN None
  ELSE [length |-> address.length, of |-> address.of]

\* One line of the stream: the parts that stream_request selected.  It asks for every
\* call, nested ones too, but not for the extrinsic that a call belongs to.  (The
\* outcome of a nested call is taken to be its extrinsic's.)
PortalLine(raw, number, cfg) ==
  [number |-> number, timestamp |-> raw.now,
   events |-> IF ~cfg.events THEN <<>>
              ELSE [i \in DOMAIN raw.events |->
                      LET e == raw.events[i] IN
                      [extrinsicIndex |-> e.extrinsic,
                       name |-> <<e.pallet, e.name>>, args |-> JsonArgs(e)]],
   calls |-> IF ~cfg.extrinsics THEN <<>>
             ELSE [i \in DOMAIN raw.calls |->
                     LET x == raw.calls[i].item IN
                     [extrinsicIndex |-> None,
                      name |-> <<x.pallet, x.call>>, args |-> JsonArgs(x),
                      success |-> SuccessOf(raw.events, raw.calls[i].extrinsic),
                      origin |-> Origin(x.address)]]]

JsonNumber(n) == U128(IF n <= U64Max THEN n ELSE AsFloat(n))

JsonToValue(args) ==
  IF args = None THEN Unit
  ELSE Named([n \in DOMAIN args |->
                IF "number" \in DOMAIN args[n] THEN JsonNumber(args[n].number)
                ELSE Text(args[n].string)])

\* extract_signer: the hex string of a signed origin, SS58 if it has 32 bytes.
OriginSigner(origin, prefix) ==
  IF origin = None THEN None
  ELSE IF origin.length = 32 THEN Ss58(origin.of, prefix)
  ELSE Hex(None, origin.of)

Faulty_EventIndex(i) == i   \* counts from one

EventIndex(i) == i - 1

MapPortalBlock(line, prefix) ==
  [number |-> line.number, timestamp |-> line.timestamp, finalized |-> TRUE,
   extrinsics |->
     [i \in DOMAIN line.calls |->
        LET c == line.calls[i] IN
        [index |-> IF c.extrinsicIndex = None THEN i - 1 ELSE c.extrinsicIndex,
         pallet |-> c.name[1], call |-> c.name[2],
         args |-> JsonToValue(c.args), signed |-> c.origin # None,
         signer |-> OriginSigner(c.origin, prefix), success |-> c.success]],
   events |->
     [i \in DOMAIN line.events |->
        LET e == line.events[i] IN
        [index |-> EventIndex(i), pallet |-> e.name[1], name |-> e.name[2],
         fields |-> JsonToValue(e.args), extrinsic |-> e.extrinsicIndex]]]

-----------------------------------------------------------------------------
(* value.rs: total readers of a field by name.                             *)

Field(value, name) ==
  IF value.def = "named" /\ name \in DOMAIN value.fields
  THEN value.fields[name] ELSE None

AsU128(v) == IF v # None /\ v.def = "u128" THEN v.int ELSE None

\* Through one newtype layer; an empty composite is no account.
CollectBytes(v) ==
  CASE v.def = "bytes" -> v.bytes
    [] v.def = "unnamed" /\ Len(v.items) = 1 -> v.items[1].bytes
    [] OTHER -> None

AsAccountSs58(v, prefix) ==
  IF v = None \/ CollectBytes(v) = None THEN None
  ELSE Ss58(CollectBytes(v), prefix)

-----------------------------------------------------------------------------
(* The handlers of the examples.                                           *)

\* The events each one writes a row for.
Watched ==
  [transfers |-> {<<"Assets", "Deposited">>, <<"Assets", "Withdrawn">>},
   balances  |-> {<<"Balances", "Transfer">>},
   assets    |-> {<<"Assets", "Created">>, <<"Assets", "Destroyed">>}]

\* A row's columns and how each one is read.
Columns ==
  [transfers |-> [asset_id |-> "i64", who |-> "account", amount |-> "u128"],
   balances  |-> [from |-> "account", to |-> "account", amount |-> "u128"],
   assets    |-> [asset_id |-> "i64", owner |-> "account"]]

ReadColumn(value, name, type) ==
  LET v == Field(value, name) IN
  CASE type = "u128" -> AsU128(v)
    [] type = "i64" -> IF AsU128(v) = None THEN None ELSE AsI64(AsU128(v))
    [] type = "account" -> AsAccountSs58(v, 42)

RowsOf(handler, block) ==
  {[height |-> block.number, index |-> e.index, name |-> e.name,
    columns |-> [c \in DOMAIN Columns[handler] |->
                   ReadColumn(e.fields, c, Columns[handler][c])]] :
     e \in {x \in ToSet(block.events) :
              <<x.pallet, x.name>> \in Watched[handler]}}
=============================================================================
