------------------------------- MODULE Config -------------------------------
(* config.Parser: the extractors of a program's configuration, each over     *)
(* what the ones before it left. yaml.v3, envconfig and pflag are external.  *)
EXTENDS Integers, FiniteSets, Sequences, SequencesExt

CONSTANTS
    Shapes,     \* configuration types: their fields [name, kind, flag] in the order
                \* in which they are visited, a struct's own fields before the struct
    Orders,     \* what WithExtractors was given
    FlagSet,    \* the flags there are: [flag, kind]
    ZeroDefault, \* the fields whose flag has the zero value of its type as its default
    Overwritten \* the fields whose env tag says overwrite

FieldKinds == {"string", "int", "duration", "durationalias", "slice", "aliasslice", "struct",
               "pointer"}
Field == [name : STRING, kind : FieldKinds, flag : STRING]

Extractors == {"yaml", "env", "flags"}

\* What an extractor is given for a field: the zero value of a type is a value
\* like any other, but not to envconfig.
Amounts == {"nothing", "zero", "value"}

\* A variable that is set but empty says nothing of a string or of a slice, and
\* the slice that a flag returns is never nil.
NeverZero == {<<"env", "string">>, <<"env", "slice">>, <<"env", "aliasslice">>,
              <<"flags", "slice">>, <<"flags", "aliasslice">>}

ASSUME ConfigAssumption ==
    /\ Shapes \subseteq Seq(Field)
    /\ Orders \subseteq Seq(Extractors)
    /\ \A s \in Shapes : \A n \in DOMAIN s :
          s[n].kind \in {"slice", "aliasslice"} => s[n].name \notin ZeroDefault

VARIABLES
    fields,                 \* input: the type of the configuration
    order, given, sane,     \* input: the extractors, what each is given, which can be read
    extractor, field,       \* how far Parse is
    conf,                   \* where the value of each field is from
    parsed                  \* "running", "ok", "error" or "panic"

configVars == <<fields, order, given, sane, extractor, field, conf, parsed>>

Leaves == {fields[n].name : n \in {m \in DOMAIN fields : fields[m].kind # "struct"}}

ConfigInit ==
    /\ fields \in Shapes
    /\ order \in Orders
    /\ given \in [Range(order) -> [Leaves -> Amounts]]
    /\ \A e \in Range(order), n \in DOMAIN fields :
          <<e, fields[n].kind>> \in NeverZero => given[e][fields[n].name] # "zero"
    /\ sane \in SUBSET Range(order)
    /\ extractor = 1 /\ field = 1
    /\ conf = [f \in Leaves |-> "nothing"]
    /\ parsed = "running"

On(e) == parsed = "running" /\ extractor <= Len(order) /\ order[extractor] = e

Ends(with) ==
    /\ parsed' = with
    /\ UNCHANGED <<fields, order, given, sane, extractor, field, conf>>

\* The first error ends it, and conf goes back with the error as it is.
ExtractFails(e) ==
    /\ On(e)
    /\ field = 1 /\ e \notin sane
    /\ Ends("error")

ParseEnds ==
    /\ parsed = "running" /\ extractor > Len(order)
    /\ Ends("ok")

Extracts(new) ==
    /\ conf' = new
    /\ extractor' = extractor + 1 /\ field' = 1
    /\ UNCHANGED <<fields, order, given, sane, parsed>>

ExtractYaml ==
    /\ On("yaml") /\ "yaml" \in sane
    /\ Extracts([f \in Leaves |-> IF given["yaml"][f] # "nothing" THEN "yaml" ELSE conf[f]])

\* reflect.Value.IsZero of a field, wherever its value is from.
Zero(f) ==
    \/ conf[f] = "nothing"
    \/ conf[f] = "default" /\ f \in ZeroDefault
    \/ conf[f] \in Extractors /\ given[conf[f]][f] = "zero"

\* envconfig leaves a field alone that is not the zero value, without "overwrite".
ExtractEnv ==
    /\ On("env") /\ "env" \in sane
    /\ Extracts([f \in Leaves |->
                    IF given["env"][f] # "nothing" /\ (Zero(f) \/ f \in Overwritten)
                    THEN "env" ELSE conf[f]])

----------------------------------------------------------------------------
(* PFlagExtractor: one field after the other, into the configuration itself. *)

Tagged(x) == x.flag \notin {"", "-"}

\* The getter for a field is chosen by its kind, and a type with a name of its
\* own is not time.Duration.
Getter(kind) ==
    CASE kind = "durationalias" -> "int64"
      [] kind = "aliasslice" -> "slice"
      [] OTHER -> kind

Readable(x) ==
    /\ x.kind \notin {"struct", "pointer"}
    /\ [flag |-> x.flag, kind |-> Getter(x.kind)] \in FlagSet

\* Variant: only flags on the command line are set.
FlagValueIfGiven(x) == IF given["flags"][x.name] # "nothing" THEN "flags" ELSE conf[x.name]

\* A flag that was not on the command line has its default, and that is set too.
FlagValue(x) == IF given["flags"][x.name] # "nothing" THEN "flags" ELSE "default"

InFlags == On("flags") /\ "flags" \in sane /\ field <= Len(fields)

FlagsField ==
    LET x == fields[field]
    IN /\ InFlags
       /\ Tagged(x) => Readable(x) /\ x.kind # "aliasslice"
       /\ conf' = IF Tagged(x) THEN [conf EXCEPT ![x.name] = FlagValue(x)] ELSE conf
       /\ field' = field + 1
       /\ UNCHANGED <<fields, order, given, sane, extractor, parsed>>

\* The fields before this one stay set.
FlagsFieldFails ==
    /\ InFlags
    /\ Tagged(fields[field]) /\ ~ Readable(fields[field])
    /\ Ends("error")

\* []string does not convert to a slice of another type.
FlagsFieldPanics ==
    /\ InFlags
    /\ Tagged(fields[field]) /\ Readable(fields[field]) /\ fields[field].kind = "aliasslice"
    /\ Ends("panic")

FlagsEnd ==
    /\ On("flags") /\ field > Len(fields)
    /\ Extracts(conf)

ConfigNext ==
    \/ \E e \in Extractors : ExtractFails(e)
    \/ ExtractYaml \/ ExtractEnv
    \/ FlagsField \/ FlagsFieldFails \/ FlagsFieldPanics \/ FlagsEnd
    \/ ParseEnds

ConfigSpec == ConfigInit /\ [][ConfigNext]_configVars

----------------------------------------------------------------------------
(* Properties.                                                               *)

ConfigTypeOK ==
    /\ fields \in Shapes /\ order \in Orders
    /\ given \in [Range(order) -> [Leaves -> Amounts]] /\ sane \subseteq Extractors
    /\ extractor \in 1 .. Len(order) + 1 /\ field \in 1 .. Len(fields) + 1
    /\ conf \in [Leaves -> Extractors \cup {"nothing", "default"}]
    /\ parsed \in {"running", "ok", "error", "panic"}

HasFlag(f) == \E n \in DOMAIN fields : fields[n].name = f /\ Tagged(fields[n])

\* What the n-th extractor has for a field: flags have a default where nothing
\* is given.
Offer(n, f) ==
    IF order[n] # "flags" THEN given[order[n]][f]
    ELSE IF ~ HasFlag(f) THEN "nothing"
    ELSE IF given["flags"][f] # "nothing" THEN given["flags"][f]
    ELSE IF f \in ZeroDefault THEN "zero" ELSE "value"

\* Before the n-th extractor the field was given something, and nothing since has
\* put the zero value over it: the environment does not do so.
Filled(n, f) ==
    \E m \in 1 .. n - 1 :
        /\ Offer(m, f) = "value"
        /\ \A k \in m + 1 .. n - 1 : order[k] # "env" => Offer(k, f) # "zero"

\* It has a say in the field with what it offers, but the environment only where
\* the field is not filled or its tag says overwrite.
Says(n, f) ==
    /\ Offer(n, f) # "nothing"
    /\ order[n] = "env" /\ f \notin Overwritten => ~ Filled(n, f)

\* What a field ends up with is from the last extractor that has a say in it, and
\* flags have one in a field whether or not its flag is given: behind a file or
\* the environment they put the flag's default over what these gave, while a
\* default that is the zero value does not keep the environment out behind them
\* (config/parser.go 27-35, config/env.go 20-25, config/flags.go 46-68).
LastSayWins ==
    parsed = "ok" => \A f \in Leaves :
        LET say == {n \in DOMAIN order : Says(n, f)}
            last == order[CHOOSE n \in say : \A m \in say : m <= n]
        IN conf[f] = IF say = {} THEN "nothing"
                     ELSE IF last = "flags" /\ given["flags"][f] = "nothing" THEN "default"
                     ELSE last
=============================================================================
