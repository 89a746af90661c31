--------------------------- MODULE ScriptGenerator ---------------------------
(***************************************************************************)
(* The class Bitcoin of generator/btc_vm/bitcoin.ts: a script is written   *)
(* by calling methods that emit opcodes and, at the same time, move named  *)
(* items on a stack of their own.  Where an operand lies is read from that *)
(* stack when the opcode is emitted, so a script is right only if the      *)
(* stack of the generator and the stack of whoever runs the script agree.  *)
(*                                                                         *)
(* A call is a record; a method is the sequence of the calls it makes.     *)
(* The values the generator keeps beside the items feed only its own       *)
(* assertions, never the opcodes, and are left out.                        *)
(***************************************************************************)
EXTENDS Tapscript

\* Items are pairs <<name, index>>; the ones no method refers to share a name.
Anonymous == <<"", 0>>
Reg(name, n) == [i \in 1..n |-> <<name, i>>]

Call(kind, op, item, v) == <<[kind |-> kind, op |-> op, item |-> item, v |-> v]>>

Op(op)        == Call("op", op, Anonymous, Num(0))
Ops(ops)      == FlattenSeq([i \in DOMAIN ops |-> Op(ops[i])])
Data(v, item) == Call("data", "DATA", item, v)
N(n)          == Data(Num(n), Anonymous)
New(item)     == Data(Num(0), item)
Pick(item)    == Call("pick", "PICK", item, Num(0))
Drop(item)    == Call("drop", "DROP", item, Num(0))
ReplaceWithTop(item)    == Call("replace", "DROP", item, Num(0))
TableFetchInStack(table) == Call("fetch", "PICK", table[1], Num(0))
DropAll(items) == Call("dropAll", "DROP", {items[i] : i \in DOMAIN items}, Num(0))
\* stack.pop() without an opcode: the code drops an item a branch left twice.
Forget        == Call("forget", "", Anonymous, Num(0))
\* programToTemplate: drop the top until nothing is left, then push a 1.
Finish        == Call("finish", "DROP", Anonymous, Num(0))

\* for (i = lo; i <= hi; i++) Body(i)
Loop(lo, hi, Body(_)) == FlattenSeq([i \in 1..(hi - lo + 1) |-> Body(lo + i - 1)])
Each(items, Body(_)) == FlattenSeq([i \in DOMAIN items |-> Body(items[i])])

-----------------------------------------------------------------------------
(* The stack of the generator.                                             *)

\* getRelativeStackPosition
Rel(items, x) == CHOOSE d \in 0..(Len(items) - 1) : At(items, d) = x

\* drop(si)
DropOps(rel) ==
    CASE rel = 0 -> <<<<"DROP", Num(0)>>>>
      [] rel = 1 -> <<<<"NIP", Num(0)>>>>
      [] OTHER   -> <<<<"DATA", Num(rel)>>, <<"ROLL", Num(0)>>, <<"DROP", Num(0)>>>>

\* drop(si[]) drops one item after another, the nearest to the top first: it
\* is called again for as long as some of them are left.
Nearest(items, dropped) ==
    CHOOSE d \in 0..(Len(items) - 1) :
        At(items, d) \in dropped /\ \A e \in 0..(d - 1) : At(items, e) \notin dropped
Repeats(items, c) == c.kind = "dropAll" /\ \E i \in DOMAIN items : items[i] \in c.item

\* How many items a native operation takes from the stack and puts on it.
Taken(op) ==
    CASE op \in {"ELSE", "ENDIF", "DUP", "2DUP", "3DUP", "FROMALTSTACK",
                 "CHECKSEQUENCEVERIFY"} -> 0
      [] op \in {"DROP", "IF", "TOALTSTACK", "VERIFY", "NOT", "HASH160", "PICK"} -> 1
      [] op \in BinaryOps \cup {"EQUAL", "NUMEQUALVERIFY", "CHECKSIGVERIFY"} -> 2

Given(op) ==
    CASE op \in {"ELSE", "ENDIF", "CHECKSEQUENCEVERIFY", "DROP", "IF", "TOALTSTACK",
                 "VERIFY", "NUMEQUALVERIFY", "CHECKSIGVERIFY"} -> 0
      [] op \in {"DUP", "FROMALTSTACK", "NOT", "HASH160", "PICK", "EQUAL"} \cup BinaryOps -> 1
      [] op = "2DUP" -> 2
      [] op = "3DUP" -> 3

\* The opcodes a call emits.
Emitted(items, c) ==
    CASE c.kind = "op"   -> <<<<c.op, Num(0)>>>>
      [] c.kind = "data" -> <<<<"DATA", c.v>>>>
      [] c.kind = "pick" -> LET rel == Rel(items, c.item)
                            IN  IF rel = 0 THEN <<<<"DUP", Num(0)>>>>
                                ELSE <<<<"DATA", Num(rel)>>, <<"PICK", Num(0)>>>>
      [] c.kind \in {"drop", "replace"} -> DropOps(Rel(items, c.item))
      [] c.kind = "fetch" -> <<<<"DATA", Num(Rel(items, c.item) - 1)>>, <<"SWAP", Num(0)>>,
                               <<"SUB", Num(0)>>, <<"PICK", Num(0)>>>>
      [] c.kind = "position" -> <<<<"DATA", Num(Rel(items, c.item))>>>>
      [] c.kind = "dropAll" -> DropOps(Nearest(items, c.item))
      [] c.kind = "finish" -> IF items = <<>> THEN <<<<"DATA", Num(1)>>>>
                              ELSE <<<<"DROP", Num(0)>>>>
      [] c.kind \in {"forget", "name"} -> <<>>

\* What becomes of the generator's own stack.  replaceWithTop gives the item
\* the value of the top and puts it where the top was.
Moved(items, c) ==
    CASE c.kind = "op"   -> Below(items, Taken(c.op)) \o
                            [i \in 1..Given(c.op) |-> Anonymous]
      [] c.kind = "data" -> Append(items, c.item)
      [] c.kind \in {"pick", "position"} -> Append(items, Anonymous)
      [] c.kind = "drop" -> RemoveAt(items, Len(items) - Rel(items, c.item))
      [] c.kind = "replace" -> Append(Front(RemoveAt(items, Len(items) - Rel(items, c.item))),
                                      c.item)
      [] c.kind = "fetch"  -> Append(Front(items), Anonymous)
      [] c.kind = "dropAll" -> RemoveAt(items, Len(items) - Nearest(items, c.item))
      [] c.kind = "finish" -> IF items = <<>> THEN <<Anonymous>> ELSE Front(items)
      [] c.kind = "name"   -> Below(items, c.item[2]) \o Reg(c.item[1], c.item[2])
      [] c.kind = "forget" -> Front(items)

\* A call that leaves alone which block is open: it never names an item that
\* is not there (getRelativeStackPosition throws), and what replaces an item
\* is not the item itself.
StraightOps ==
    BinaryOps \cup {"DROP", "DUP", "2DUP", "3DUP", "TOALTSTACK", "FROMALTSTACK", "VERIFY", "NOT",
                    "HASH160", "PICK", "EQUAL", "NUMEQUALVERIFY", "CHECKSIGVERIFY",
                    "CHECKSEQUENCEVERIFY"}

Straight(items, c) ==
    \/ c.kind = "op" /\ c.op \in StraightOps
    \/ c.kind = "data" /\ c.v \in Element
    \/ c.kind \in {"pick", "position", "fetch", "drop", "replace"} /\ \E i \in DOMAIN items :
          items[i] = c.item /\ (c.kind = "replace" => At(items, 0) # c.item)
    \/ Repeats(items, c)
    \/ c.kind = "name" /\ c.item[2] \in 0..Len(items)
    \/ c.kind = "finish"

-----------------------------------------------------------------------------
(* The methods built from these.                                           *)

NewNibbles(items) == Each(items, New)

\* newNibblesFast: n zeros made with 2DUP, 3DUP and DUP; the items are the
\* last n of the stack.
NewNibblesFast(name, n) ==
    N(0) \o N(0) \o Op("2DUP")
    \o Loop(1, (n - 4) \div 3, LAMBDA i : Op("3DUP"))
    \o Loop(1, (n - 4) % 3, LAMBDA i : Op("DUP"))
    \o Call("name", "", <<name, n>>, Num(0))

\* mul(n), n a power of two or 10: a copy for every bit, doubled and added up.
Bits(n) ==
    LET len == CHOOSE k \in 1..n : 2^(k - 1) <= n /\ n < 2^k
    IN  [i \in 1..len |-> (n \div 2^(len - i)) % 2]

Mul(n) ==
    LET bits == Bits(n)
        len  == Len(bits)
        ones == Len(SelectSeq(bits, LAMBDA b : b = 1))
    IN  Loop(1, len - 1, LAMBDA i : Op("DUP"))
        \o Loop(1, len, LAMBDA i :
               IF bits[i] = 1
               THEN Loop(1, len - i, LAMBDA j : Ops(<<"DUP", "ADD">>)) \o Op("TOALTSTACK")
               ELSE Op("DROP"))
        \o Loop(1, ones, LAMBDA i :
               Op("FROMALTSTACK") \o IF i > 1 THEN Op("ADD") ELSE <<>>)

Mov(target, source) == Pick(source) \o ReplaceWithTop(target)
AddItems(target, a, b) == Pick(a) \o Pick(b) \o Op("ADD") \o ReplaceWithTop(target)
SetBit0(target) == N(0) \o ReplaceWithTop(target)

AssertZero(a) == Pick(a) \o N(0) \o Op("NUMEQUALVERIFY")
AssertEqual(a, b) == Pick(a) \o Pick(b) \o Op("NUMEQUALVERIFY")

\* The nibble of a register, or zero past its end.
PickOrZero(a, i) == IF i <= Len(a) THEN Pick(a[i]) ELSE N(0)
Longer(a, b) == IF Len(a) >= Len(b) THEN Len(a) ELSE Len(b)

EqualNibbles(target, a, b) ==
    N(0)
    \o Loop(1, Longer(a, b), LAMBDA i :
           PickOrZero(a, i) \o PickOrZero(b, i) \o Ops(<<"NUMEQUAL", "ADD">>))
    \o N(Longer(a, b)) \o Op("NUMEQUAL") \o ReplaceWithTop(target)

EqualMany(target, a, b) ==
    N(1)
    \o Loop(1, Longer(a, b), LAMBDA i :
           PickOrZero(a, i) \o PickOrZero(b, i) \o Ops(<<"NUMEQUAL", "BOOLAND">>))
    \o ReplaceWithTop(target)

\* tableFetch: the entry of a table at the depth `index` says.
TableFetch(target, table, index) ==
    Call("position", "DATA", table[1], Num(0)) \o Pick(index)
    \o Ops(<<"SUB", "PICK">>) \o ReplaceWithTop(target)

VerifySignature(key) == Data(Digest(key, 0), Anonymous) \o Op("CHECKSIGVERIFY")
CheckTimeout(blocks) == N(blocks) \o Ops(<<"CHECKSEQUENCEVERIFY", "DROP">>)

\* nibbles4To3: 4-bit nibbles to bits on the alternative stack, most
\* significant first, and back as 3-bit nibbles.  The two leading zero bits
\* make 4n + 2 divisible by three, which is so for 64 nibbles.
Nibbles4To3(result, si) ==
    N(0) \o Op("TOALTSTACK") \o N(0) \o Op("TOALTSTACK")
    \o Each(Reverse(si), LAMBDA x :
           Pick(x)
           \o Each(<<8, 4, 2, 1>>, LAMBDA bit :
                  Op("DUP") \o N(bit) \o Ops(<<"GREATERTHANOREQUAL", "DUP", "TOALTSTACK", "IF">>)
                  \o N(bit) \o Ops(<<"SUB", "ENDIF">>))
           \o Op("DROP"))
    \o NewNibbles(result)
    \o Each(result, LAMBDA r :
           Ops(<<"FROMALTSTACK", "FROMALTSTACK">>) \o Mul(2) \o Ops(<<"ADD", "FROMALTSTACK">>)
           \o Mul(4) \o Op("ADD") \o ReplaceWithTop(r))
=============================================================================
