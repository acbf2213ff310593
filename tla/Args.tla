-------------------------------- MODULE Args --------------------------------
(***************************************************************************)
(* Transport arguments (crates/core/src/args.rs) and their way into a SOCKS*)
(* login (crates/lyrebird/src/lib.rs).  A text is a sequence of characters,*)
(* of which only the punctuation matters: the backslash escapes, the equal *)
(* sign ends a key, a delimiter ends a pair.  A bag of arguments maps each *)
(* key to the sequence of its values.                                      *)
(***************************************************************************)
EXTENDS Integers, SequencesExt

Esc == "\\"
Nul == "NUL"
SmethodPrefix == "ARGS:"     \* one character here: nothing looks inside it

NoArgs == <<>>               \* the function with no keys
Failure == [ok |-> FALSE]

(* Args::add.                                                              *)
Add(args, key, value) ==
    [k \in DOMAIN args \union {key} |->
        IF k \notin DOMAIN args THEN <<value>>
        ELSE IF k = key THEN Append(args[k], value) ELSE args[k]]

-----------------------------------------------------------------------------
(* Whether the character at j is escaped, for a scan that begins at from.  *)
Escaped(s, from) ==
    [j \in from..Len(s) |->
        LET back == CHOOSE n \in 0..(j - from) :
                        /\ \A i \in (j - n)..(j - 1) : s[i] = Esc
                        /\ j - n = from \/ s[j - n - 1] # Esc
        IN  back % 2 = 1]

FieldEnd(s, from, esc, term) ==
    Min({j \in from..Len(s) : ~esc[j] /\ s[j] \in term} \union {Len(s) + 1})

FieldText(s, from, esc, end) ==
    LET kept == SelectSeq([i \in 1..(end - from) |-> from + i - 1],
                          LAMBDA j : esc[j] \/ s[j] # Esc)
    IN  [i \in DOMAIN kept |-> s[kept[i]]]

Field(s, from, esc, end) ==
    [ok |-> end <= Len(s) \/ from > Len(s) \/ esc[Len(s)] \/ s[Len(s)] # Esc,
     end |-> end,
     text |-> FieldText(s, from, esc, end)]

(* index_unescaped: up to where a field reaches, and its text without the  *)
(* escapes.  A last backslash that escapes nothing is an error.            *)
IndexUnescaped(s, from, term) ==
    LET In(esc) == Field(s, from, esc, FieldEnd(s, from, esc, term)) IN In(Escaped(s, from))

(* One entry: as many non-empty fields as there are separators, each ended *)
(* by its own separator, then the value, ended by the delimiter.           *)
ParseEntry(s, from, seps, delimiter) ==
    LET Later(n) == {seps[i] : i \in n..Len(seps)} \union {delimiter}
        Take(e, n, f) ==
            [ok |-> /\ f.ok
                    /\ n <= Len(seps) => f.end <= Len(s) /\ s[f.end] = seps[n] /\ f.text # <<>>,
             end |-> f.end, fields |-> Append(e.fields, f.text)]
        Next(e, n) == IF e.ok THEN Take(e, n, IndexUnescaped(s, e.end + 1, Later(n))) ELSE e
        upTo[n \in 0..(Len(seps) + 1)] ==
            IF n = 0 THEN [ok |-> TRUE, end |-> from - 1, fields |-> <<>>]
            ELSE Next(upTo[n - 1], n)
    IN  upTo[Len(seps) + 1]

(* The loop over the entries; a delimiter at the very end opens an entry   *)
(* that is not there.                                                      *)
ParseEntries(s, seps, delimiter) ==
    LET Before(e, more) ==
            IF more.ok THEN [ok |-> TRUE, entries |-> <<e.fields>> \o more.entries] ELSE Failure
        rest[from \in 1..(Len(s) + 1)] ==
            LET From(e) ==
                    IF ~e.ok THEN Failure
                    ELSE IF e.end > Len(s) THEN [ok |-> TRUE, entries |-> <<e.fields>>]
                    ELSE Before(e, rest[e.end + 1])
            IN  From(ParseEntry(s, from, seps, delimiter))
    IN  IF s = <<>> THEN [ok |-> TRUE, entries |-> <<>>] ELSE rest[1]

(* Args::parse_delimited.                                                  *)
ParseDelimited(s, delimiter) ==
    LET p == ParseEntries(s, <<"=">>, delimiter)
    IN  IF ~p.ok THEN Failure
        ELSE [ok |-> TRUE,
              args |-> FoldLeft(LAMBDA a, e : Add(a, e[1], e[2]), NoArgs, p.entries)]

(* Args::parse_client_parameters and Args::parse_smethod_args.             *)
ParseClientParameters(s) == ParseDelimited(s, ";")

ParseSmethodArgs(s) ==
    ParseDelimited(IF s # <<>> /\ s[1] = SmethodPrefix THEN Tail(s) ELSE s, ",")

(* Opts::parse_server_transport_options: a bag of arguments per transport. *)
ParseServerTransportOptions(s) ==
    LET AddTo(opts, e) ==
            [m \in DOMAIN opts \union {e[1]} |->
                LET old == IF m \in DOMAIN opts THEN opts[m] ELSE NoArgs
                IN  IF m = e[1] THEN Add(old, e[2], e[3]) ELSE old]
        p == ParseEntries(s, <<":", "=">>, ";")
    IN  IF ~p.ok THEN Failure
        ELSE [ok |-> TRUE, opts |-> FoldLeft(AddTo, NoArgs, p.entries)]

-----------------------------------------------------------------------------
(* Mutant: the backslash itself is not escaped.                            *)
BackslashUnescaped(s, set) ==
    FlattenSeq([i \in DOMAIN s |-> IF s[i] \in set THEN <<Esc, s[i]>> ELSE <<s[i]>>])

(* push_backslash_escaped.                                                 *)
BackslashEscaped(s, set) ==
    FlattenSeq([i \in DOMAIN s |-> IF s[i] \in set \union {Esc} THEN <<Esc, s[i]>> ELSE <<s[i]>>])

Joined(pairs, delimiter) ==
    FlattenSeq([i \in DOMAIN pairs |-> IF i = 1 THEN pairs[i] ELSE <<delimiter>> \o pairs[i]])

(* Args::encode_delimited, with the keys in some fixed order.              *)
EncodeDelimited(args, delimiter) ==
    LET esc(text) == BackslashEscaped(text, {"=", delimiter})
        Pairs(k) == [j \in DOMAIN args[k] |-> esc(k) \o <<"=">> \o esc(args[k][j])]
    IN  Joined(FlattenSeq(LET keys == SetToSeq(DOMAIN args)
                          IN  [i \in DOMAIN keys |-> Pairs(keys[i])]), delimiter)

-----------------------------------------------------------------------------
(* The parent packs the text into a user name of at most cap characters    *)
(* and a password, which is a single NUL when the name took everything.    *)
SplitIntoCreds(s, cap) ==
    IF Len(s) <= cap THEN <<s, <<Nul>>>>
    ELSE <<SubSeq(s, 1, cap), SubSeq(s, cap + 1, Len(s))>>

(* arg_string_from_creds.                                                  *)
ArgStringFromCreds(creds) ==
    IF creds[2] = <<Nul>> THEN creds[1] ELSE creds[1] \o creds[2]
=============================================================================
