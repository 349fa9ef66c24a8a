------------------------------ MODULE MCIngest ------------------------------
(***************************************************************************)
(* Small chains for Ingest.  A block has the Timestamp.set inherent and    *)
(* its success event, then signed extrinsics with what they emitted, the   *)
(* outcome last.                                                           *)
(***************************************************************************)
EXTENDS Ingest

Event(pallet, name, args, at) ==
  [pallet |-> pallet, name |-> name, args |-> args, extrinsic |-> at,
   decodes |-> "whole"]

Outcome(name, at) == Event("System", name, <<>>, at)

Call(pallet, call, args, address) ==
  [pallet |-> pallet, call |-> call, args |-> args, address |-> address,
   decodes |-> "whole"]

Address(tag, length) == [tag |-> tag, length |-> length, of |-> "alice"]

Inherent == Call("Timestamp", "set", [now |-> [int |-> 3]], None)

Transfer(n) ==
  Event("Balances", "Transfer",
        [from |-> [account |-> "alice"], to |-> [account |-> "bob"],
         amount |-> [int |-> n]], 1)

Deposited(n) ==
  Event("Assets", "Deposited",
        [asset_id |-> [int |-> n], who |-> [account |-> "bob"],
         amount |-> [int |-> 1]], 2)

Created == Event("Assets", "Created",
                 [asset_id |-> [int |-> 1], owner |-> [account |-> "bob"]], 2)

\* One block: an extrinsic that fails after a transfer was withdrawn, one that
\* succeeds, and an event of the block's end.  The first one may be a batch of one.
BlockOf(one, two, address, end, nested) ==
  LET exts == << Inherent,
                 Call("Balances", "transfer", <<>>, address),
                 Call("Assets", "mint", <<>>, Address("Id", 32)) >>
      CallOf(i) == [extrinsic |-> i - 1, item |-> exts[i]]
  IN  [now |-> 3,
       extrinsics |-> exts,
       calls |-> <<CallOf(1), CallOf(2)>> \o nested \o <<CallOf(3)>>,
       events |-> << Outcome("ExtrinsicSuccess", 0),
                     one, Outcome("ExtrinsicFailed", 1),
                     two, Outcome("ExtrinsicSuccess", 2), end >>]

Block(one, two, address, end) == BlockOf(one, two, address, end, <<>>)

Nested == [extrinsic |-> 1,
           item |-> Call("System", "remark", <<>>, Address("Id", 32))]

EndEvent == Event("Session", "NewSession", <<>>, None)

Undecoded(e) == [e EXCEPT !.decodes = "fields"]
Broken(e) == [e EXCEPT !.decodes = "no"]

Quiet == Block(Transfer(1), Created, Address("Id", 32), EndEvent)
Wide  == Block(Transfer(2 * I64 + 1), Deposited(I64 - 1), Address(None, 20), EndEvent)
Huge  == Block(Transfer(1), Deposited(I64), Address("Address20", 20), EndEvent)
Odd   == Block(Undecoded(Transfer(1)), Created, Address(None, 32), EndEvent)
Batch == BlockOf(Transfer(1), Created, Address("Id", 32), EndEvent, <<Nested>>)
Worst == Block(Transfer(1), Deposited(1), Address("Id", 32), Broken(EndEvent))

\* Chains without an item that cannot be decoded, with such fields, with such
\* an item.
SmallHistories ==
  {<<Quiet, Wide, Huge, Quiet>>, <<Batch, Odd, Wide>>, <<Wide, Quiet, Huge, Worst>>}

Settings(sources) ==
  {[source |-> s, events |-> e, extrinsics |-> x, strict |-> t, prefix |-> 42] :
     s \in sources, e \in BOOLEAN, x \in BOOLEAN, t \in BOOLEAN}

\* Something is selected, and the portal has no strict mode.
BothSources ==
  {c \in Settings({"rpc", "portal"}) :
     (c.events \/ c.extrinsics) /\ (c.source = "portal" => ~c.strict)}
=============================================================================
