----------------------------- MODULE BridgeLine -----------------------------
(***************************************************************************)
(* Bridge lines (crates/bridge-line/src/lib.rs): a line is a sequence of   *)
(* tokens, read by FromStr and written back by Display.  What a token is   *)
(* depends on where it stands: a hexadecimal word that begins with a       *)
(* letter is a transport name in front of the address and a fingerprint    *)
(* behind it, and "Bridge" is a directive or a transport.                  *)
(***************************************************************************)
EXTENDS Integers, SequencesExt

Word(name) == [kind |-> "word", name |-> name]               \* no colon, no equal sign
Address(text) == [kind |-> "address", text |-> text]         \* has a colon
Hex(digits, upper) == [kind |-> "hex", digits |-> digits, upper |-> upper]
Param(key, value) == [kind |-> "param", key |-> key, value |-> value]

None == [kind |-> "none"]
Rejected == [ok |-> FALSE]

(* str::parse::<SocketAddr>: texts that are different ways to write the    *)
(* same address are read as the one Display writes.                        *)
SocketAddr == [v4 |-> "v4", v6 |-> "v6", v6long |-> "v6"]

LooksLikeAddress(t) == t.kind = "address"
IsValidTransportName(t) == (t.kind = "word" /\ t.name # "9bad") \/ t.kind = "hex"
IsHexFingerprint(t) == t.kind = "hex"
IsBridge(t) == t.kind = "word" /\ t.name \in {"bridge", "Bridge"}

(* The tokens behind the address: parameters, of which a later one with    *)
(* the same key wins, and at most one fingerprint.                         *)
ReadRest(rest) ==
    LET prints == SelectSeq(rest, IsHexFingerprint)
        params == SelectSeq(rest, LAMBDA t : t.kind = "param")
        keys == {params[i].key : i \in DOMAIN params}
        Latest(k) == CHOOSE i \in DOMAIN params :
                      /\ params[i].key = k
                      /\ \A j \in DOMAIN params : params[j].key = k => j <= i
    IN  [ok |-> /\ Len(prints) <= 1 /\ "" \notin keys
                /\ Len(prints) + Len(params) = Len(rest),
         fingerprint |-> IF prints = <<>> THEN None ELSE Hex(prints[1].digits, TRUE),
         params |-> [k \in keys |-> params[Latest(k)].value]]

(* BridgeLine::from_str.                                                   *)
FromStr(line) ==
    LET body == IF line # <<>> /\ IsBridge(line[1]) THEN Tail(line) ELSE line
        named == body # <<>> /\ ~LooksLikeAddress(body[1])
        at == IF named THEN 2 ELSE 1
        rest == ReadRest(SubSeq(body, at + 1, Len(body)))
    IN  IF /\ Len(body) >= at
           /\ named => IsValidTransportName(body[1])
           /\ LooksLikeAddress(body[at]) /\ body[at].text \in DOMAIN SocketAddr
           /\ rest.ok
        THEN [ok |-> TRUE,
              transport |-> IF named THEN body[1] ELSE None,
              addr |-> SocketAddr[body[at].text],
              fingerprint |-> rest.fingerprint, params |-> rest.params]
        ELSE Rejected

(* Mutant: a transport called "bridge" is written without the directive.   *)
DisplayBare(b) ==
    (IF b.transport = None THEN <<>> ELSE <<b.transport>>)
    \o <<Address(b.addr)>>
    \o (IF b.fingerprint = None THEN <<>> ELSE <<b.fingerprint>>)
    \o SetToSeq({Param(k, b.params[k]) : k \in DOMAIN b.params})

(* Display::fmt; a BTreeMap lists each key once.                           *)
Display(b) ==
    (IF b.transport # None /\ IsBridge(b.transport) THEN <<Word("Bridge")>> ELSE <<>>)
    \o (IF b.transport = None THEN <<>> ELSE <<b.transport>>)
    \o <<Address(b.addr)>>
    \o (IF b.fingerprint = None THEN <<>> ELSE <<b.fingerprint>>)
    \o SetToSeq({Param(k, b.params[k]) : k \in DOMAIN b.params})
=============================================================================
