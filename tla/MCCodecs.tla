------------------------------ MODULE MCCodecs ------------------------------
(***************************************************************************)
(* Conversions checked against what they are meant to undo: transport      *)
(* arguments, bridge lines, alias tables, and the hellos on the wire.      *)
(* Init chooses a job; the conversions compute in one step, a hello is     *)
(* read in as many as the stream takes.                                    *)
(***************************************************************************)
EXTENDS Args, BridgeLine, AliasTable, HelloWire

CONSTANTS CredCap,     \* characters a SOCKS user name holds (255 in the protocol)
          MaxWeight,   \* weights are 0..MaxWeight
          MaxValues    \* MAX_VALUES

ASSUME CodecConstants ==
    CredCap \in Nat \ {0} /\ MaxWeight \in Nat \ {0} /\ MaxValues \in Nat \ {0}

VARIABLES job, out

mcVars == <<job, out, wireVars>>

Texts(chars, n) == UNION {[1..k -> chars] : k \in 0..n}
Keys == {<<"k">>, <<"=">>, <<Esc, ";">>}
Values == {<<>>, <<"v">>, <<";">>, <<Esc>>, <<",", Esc>>, <<"=", ":">>}
ValueLists == {<<v>> : v \in Values} \union {<<v, w>> : v, w \in Values}
Bags1 == UNION {[K -> ValueLists] : K \in {{k} : k \in Keys}}
Bags2 == [{<<"k">>, <<Esc, ";">>} -> {<<v>> : v \in Values} \union {<<<<>>, <<Esc>>>>}]

Tokens == {Word("Bridge"), Word("bridge"), Word("obfs4"), Word("9bad"),
           Address("v4"), Address("v6long"), Address("no port"),
           Hex("ab12", FALSE), Param("k", "1"), Param("k", "2"), Param("", "1")}
Rests == Texts({Hex("ab12", TRUE), Hex("ab12", FALSE), Param("k", "1"), Param("k", "2"),
                Param("l", ""), Word("obfs4")}, 3)
Lines == Texts(Tokens, 3)
         \union {<<Word("Bridge"), t, Address("v4")>> \o r :
                    t \in {Word("bridge"), Hex("ab12", FALSE)}, r \in Rests}

Jobs ==
    [what : {"args"}, bag : Bags1 \union Bags2]
    \union [what : {"text"}, text : Texts({"k", "=", ";", ":", Esc}, 5)]
    \union [what : {"line"}, line : Lines]
    \union UNION {[what : {"alias"}, range : {r},
                   weights : UNION {{w \in [1..n -> 0..MaxWeight] : Total(w) > 0} :
                                        n \in ValueCounts(r[1], r[2], MaxValues)}] :
                   r \in {<<2, 2>>, <<0, 1>>, <<1, 4>>, <<0, 6>>}}

(* The parent's side of TOR_PT_SERVER_TRANSPORT_OPTIONS.                   *)
EncodeOptions(method, bag) ==
    LET esc(s) == BackslashEscaped(s, {":", "=", ";"})
        Pairs(k) == [j \in DOMAIN bag[k] |->
                        method \o <<":">> \o esc(k) \o <<"=">> \o esc(bag[k][j])]
    IN  Joined(FlattenSeq(LET keys == SetToSeq(DOMAIN bag)
                          IN  [i \in DOMAIN keys |-> Pairs(keys[i])]), ";")

Compute(j) ==
    CASE j.what = "args" ->
            LET text == EncodeDelimited(j.bag, ";")
                login == ArgStringFromCreds(SplitIntoCreds(text, CredCap))
            IN  [login |-> ParseClientParameters(login),
                 smethod |-> ParseSmethodArgs(EncodeDelimited(j.bag, ",")),
                 prefixed |-> ParseSmethodArgs(<<SmethodPrefix>> \o EncodeDelimited(j.bag, ",")),
                 options |-> ParseServerTransportOptions(EncodeOptions(<<"o">>, j.bag)
                                \o <<";">> \o EncodeOptions(<<"w">>, j.bag))]
      [] j.what = "text" ->
            LET p == ParseClientParameters(j.text)
            IN  [first |-> p,
                 again |-> IF p.ok THEN ParseClientParameters(EncodeDelimited(p.args, ";")) ELSE p]
      [] j.what = "line" ->
            LET b == FromStr(j.line) IN [first |-> b, again |-> IF b.ok THEN FromStr(Display(b)) ELSE b]
      [] j.what = "alias" -> [drawn |-> [i \in DOMAIN j.weights |-> Drawn(j.weights, i)]]

NotYet == [done |-> FALSE]
Idle == [what |-> "wire"]

MCInit ==
    \/ /\ job \in Jobs /\ out = NotYet
       /\ wire = <<>> /\ kind = "none" /\ read = 0 /\ reader = "idle" /\ remainder = <<>>
    \/ job = Idle /\ out = NotYet /\ WireInit

Convert ==
    /\ job # Idle /\ out = NotYet
    /\ out' = Compute(job)
    /\ UNCHANGED <<job, wireVars>>

MCNext == Convert \/ (job = Idle /\ WireNext /\ UNCHANGED <<job, out>>)

MCSpec == MCInit /\ [][MCNext]_mcVars

Done(what) == job.what = what /\ out # NotYet

(* Arguments survive each of their ways unchanged: escaped, cut in two     *)
(* anywhere by the SOCKS login and joined again; as SMETHOD arguments with *)
(* or without the prefix; and as options of two transports                 *)
(* (encode_delimited, arg_string_from_creds, parse_delimited,              *)
(* parse_server_transport_options).                                        *)
ArgsSurvive ==
    /\ Done("args") =>
         /\ out.login = [ok |-> TRUE, args |-> job.bag]
         /\ out.smethod = out.login /\ out.prefixed = out.login
         /\ out.options = [ok |-> TRUE, opts |-> [m \in {<<"o">>, <<"w">>} |-> job.bag]]
    /\ Done("text") => out.again = out.first

(* A bridge line that was accepted is, written out and read again, the     *)
(* same bridge: also when the transport is itself called "bridge" or looks *)
(* like a fingerprint (from_str, Display::fmt).                            *)
LineSurvives == Done("line") => out.again = out.first

(* Every value is drawn exactly in proportion to its weight, whichever     *)
(* order the queues of gen_tables pair the entries in, and there are never *)
(* more of them than values from min to max (gen_values, gen_tables,       *)
(* sample).                                                                *)
DrawnByWeight ==
    Done("alias") =>
        /\ Len(job.weights) <= job.range[2] - job.range[1] + 1
        /\ \A i \in DOMAIN job.weights : out.drawn[i] = job.weights[i] * Len(job.weights)
=============================================================================
