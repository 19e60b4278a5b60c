-------------------------------- MODULE ArgParser --------------------------------
(***************************************************************************)
(* essence::cli::arg_parser (src/src/cli/arg_parser.cpp) and the options   *)
(* it shares with its caller (src/include/essence/cli/option.hpp).         *)
(*                                                                         *)
(* An argument is [kind, name, value]: "plain", or "long" for --abc, named *)
(* <<"--abc">>, or "short" for -abc, named <<"-a", "-b", "-c">>.  A value  *)
(* is the sequence of its comma-separated parts, empty if there is none.   *)
(* A parse goes argument by argument, and through the options an argument  *)
(* mentions one by one.  What it leaves behind when it fails half-way, and *)
(* what the next parse then finds, is what the model is about.             *)
(***************************************************************************)
EXTENDS Naturals, SequencesExt

CONSTANTS
    Option,             \* the options a program may add, the help option included
    Help,               \* the option that every parser starts with
    About,              \* of an option: [bound, names, type, default, valid]
    Ranges,             \* the types of options that are ranges
    Lists,              \* the lists of arguments a program may be given
    Vetoed,             \* <<option, value>> that a subscribed validator rejects
    Thread,             \* the threads that parse, one at a time
    Name, Part,         \* what names and values in arguments are made of
    MaxParses,          \* bound on the number of parses
    Unset               \* an empty std::optional

(* valid is what converts to the option's type and is allowed: the parts   *)
(* of a range, and the whole values of any other option.  A number has one *)
(* part, a string may have many, or none.                                  *)
ASSUME HelpAssumption == Help \in Option /\ About[Help].type = "bool"
ASSUME RangesAssumption == "bool" \notin Ranges
ASSUME ListsAssumption ==
    /\ Lists \subseteq Seq([kind : {"plain", "long", "short"}, name : Seq(Name), value : Seq(Part)])
    /\ \A list \in Lists : \A i \in DOMAIN list : list[i].kind = "plain" => list[i].name = <<>>

(* The locals of parse_argument(). *)
Locals == [todo : Seq(Option), single : BOOLEAN, value : Seq(Part), nextAsValue : BOOLEAN,
           anyBoolean : BOOLEAN]

ASSUME PartAssumption == "true" \in Part /\ Unset \notin Seq(Part) /\ Unset \notin Locals

VARIABLES
    options,            \* options_
    mapping,            \* option_mapping_
    thread, args,       \* the caller of parse() and args_
    index,              \* index in parse_args_and_cache()
    current,            \* the locals of parse_argument(), Unset outside
    result,             \* result_: bound name -> [option, raw]
    unmatched,          \* unmatched_args_
    present,            \* present_option_ptrs_
    ok,                 \* success_
    reported,           \* on_error_ has been invoked since parse() began
    cached,             \* cached_value_ of every option
    success,            \* the flag in option<T>::parse_value_and_cache, one for every
                        \* thread and range T
    state,              \* "idle", "parsing", "parsed", "exited"
    parses              \* how many parses there were

registry == <<options, mapping>>
outcome == <<result, unmatched, present, reported, cached, success>>
parserVars == <<registry, thread, args, index, current, outcome, ok, state, parses>>

Bool(o) == About[o].type = "bool"
Ranged(o) == About[o].type \in Ranges
Flag(o) == success[thread][About[o].type]
True == <<"true">>

(* What is in the first map replaces what is in the second. *)
Over(f, g) == [x \in DOMAIN f \cup DOMAIN g |-> IF x \in DOMAIN f THEN f[x] ELSE g[x]]

(* add_option() of a new name, in a mapping: later options win. *)
Mapped(o, m) == Over([n \in About[o].names |-> o], m)

ParserInit ==
    /\ options = <<Help>> /\ mapping = Mapped(Help, <<>>)
    /\ thread = Unset /\ args = <<>> /\ index = 0 /\ current = Unset
    /\ result = <<>> /\ unmatched = <<>> /\ present = {} /\ reported = FALSE
    /\ cached = [o \in Option |-> Unset]
    /\ success = [t \in Thread |-> [type \in Ranges |-> TRUE]]
    /\ ok = FALSE /\ state = "idle" /\ parses = 0

BoundNames == {About[o].bound : o \in ToSet(options)}

(* A second option of the same bound name is ignored. *)
AddOption(o) ==
    /\ state \in {"idle", "parsed"}
    /\ parses < MaxParses
    /\ About[o].bound \notin BoundNames
    /\ options' = Append(options, o)
    /\ mapping' = Mapped(o, mapping)
    /\ state' = "idle"
    /\ UNCHANGED <<thread, args, index, current, outcome, ok, parses>>

(* parse(): what the last one left in the options and in the flags stays. *)
Parse(t, list) ==
    /\ state \in {"idle", "parsed"}
    /\ parses < MaxParses
    /\ thread' = t /\ args' = list /\ index' = 0
    /\ result' = <<>> /\ unmatched' = <<>> /\ present' = {} /\ reported' = FALSE
    /\ state' = "parsing" /\ parses' = parses + 1
    /\ UNCHANGED <<registry, current, ok, cached, success>>

-----------------------------------------------------------------------------
(* parse_argument() *)

AtArgument == state = "parsing" /\ current = Unset /\ index < Len(args)

Argument == args[index + 1]

Plain(i) == i \in DOMAIN args /\ args[i].kind = "plain"

(* -ab=x *)
AssignsCluster(a) == a.kind = "short" /\ Len(a.name) > 1 /\ a.value # <<>>

(* The elements of a sequence at the places of a set, in order: of its     *)
(* first k elements, and of all.                                           *)
PickedUpTo(s, places) ==
    LET picked[k \in 0 .. Len(s)] ==
            IF k = 0 THEN <<>>
            ELSE IF k \in places THEN Append(picked[k - 1], s[k]) ELSE picked[k - 1]
    IN  picked

Picked(s, places) == PickedUpTo(s, places)[Len(s)]

(* The options that match_option() yields for an argument.  A letter that  *)
(* is no option's is passed over, and so is a name.                        *)
Matches(a) ==
    LET names == Picked(a.name, {k \in DOMAIN a.name : a.name[k] \in DOMAIN mapping})
    IN  [k \in DOMAIN names |-> mapping[names[k]]]

(* An argument takes the next one as its value. *)
NextAsValue(i) == args[i].kind # "plain" /\ args[i].value = <<>> /\ Plain(i + 1)

SkipPlain ==
    /\ AtArgument /\ Argument.kind = "plain"
    /\ unmatched' = Append(unmatched, Argument.value)
    /\ index' = index + 1
    /\ UNCHANGED <<registry, thread, args, current, result, present, reported, cached, success, ok,
                   state, parses>>

MatchArgument ==
    /\ AtArgument /\ Argument.kind # "plain" /\ ~AssignsCluster(Argument)
    /\ current' = [todo |-> Matches(Argument), single |-> Len(Matches(Argument)) <= 1,
                   value |-> IF NextAsValue(index + 1) THEN args[index + 2].value ELSE Argument.value,
                   nextAsValue |-> NextAsValue(index + 1), anyBoolean |-> FALSE]
    /\ UNCHANGED <<registry, thread, args, index, outcome, ok, state, parses>>

(* An error reports and returns a position past the end of the arguments,  *)
(* which the loop increments as any other.                                 *)
FailAt(position) ==
    /\ reported' = TRUE
    /\ index' = position
    /\ current' = Unset

(* Fault: the position is the end itself, or too far. *)
FailAtEnd == FailAt(Len(args))
FailBeyond == FailAt(Len(args) + 2)

Fail == FailAt(Len(args) + 1)

RejectAssignment ==
    /\ AtArgument /\ AssignsCluster(Argument)
    /\ Fail
    /\ UNCHANGED <<registry, thread, args, result, unmatched, present, cached, success, ok, state, parses>>

(* The value of the option at the head of current.todo: a boolean option   *)
(* takes no value from the next argument and is true without one.          *)
ValueFor(o) ==
    LET value == IF (Bool(o) \/ current.anyBoolean) /\ current.nextAsValue THEN <<>> ELSE current.value
    IN  IF Bool(o) /\ value = <<>> THEN True ELSE value

AtOption == current # Unset /\ current.todo # <<>>

RejectCluster ==
    /\ AtOption /\ ~current.single /\ ~Bool(Head(current.todo))
    /\ Fail
    /\ UNCHANGED <<registry, thread, args, result, unmatched, present, cached, success, ok, state, parses>>

(* parse_value_and_cache(): [cached, good] from the value, the option's    *)
(* cache and, for a range, the flag.  A bad value stays away from the      *)
(* cache, and so does what follows a bad part of a range; a value that     *)
(* only the validator rejects is cached.                                   *)
ReadPart(o, part) == part \in About[o].valid

ReadScalar(o, value, old) ==
    LET good == value \in About[o].valid
    IN  [cached |-> IF good THEN value ELSE old, good |-> good]

ReadRange(o, value, flag) ==
    LET readable(n) == \A k \in 1 .. n : ReadPart(o, value[k])
        prefix == CHOOSE n \in 0 .. Len(value) :
                     readable(n) /\ (n < Len(value) => ~readable(n + 1))
    IN  IF flag THEN [cached |-> SubSeq(value, 1, prefix), good |-> prefix = Len(value)]
        ELSE [cached |-> Unset, good |-> FALSE]

(* Fault: what an earlier parse has cached is kept. *)
ReadOnce(o, value, old, flag) ==
    [(IF Ranged(o) THEN ReadRange(o, value, flag) ELSE ReadScalar(o, value, old))
        EXCEPT !.cached = IF old = Unset THEN @ ELSE old]

ReadValue(o, value, old, flag) ==
    IF Ranged(o) THEN ReadRange(o, value, flag) ELSE ReadScalar(o, value, old)

Apply ==
    /\ AtOption
    /\ current.single \/ Bool(Head(current.todo))
    /\ LET o == Head(current.todo)
           value == ValueFor(o)
           read == ReadValue(o, value, cached[o], Ranged(o) /\ Flag(o))
           good == read.good /\ <<o, value>> \notin Vetoed
       IN  /\ cached' = [cached EXCEPT ![o] = read.cached]
           /\ success' = IF Ranged(o) THEN [success EXCEPT ![thread][About[o].type] = good] ELSE success
           /\ IF good
              THEN /\ present' = present \cup {o}
                   /\ result' = Over([b \in {About[o].bound} |-> [option |-> o, raw |-> value]], result)
                   /\ current' = [current EXCEPT !.todo = Tail(@), !.value = value,
                                                 !.anyBoolean = @ \/ Bool(o)]
                   /\ UNCHANGED <<index, reported>>
              ELSE /\ Fail
                   /\ UNCHANGED <<present, result>>
    /\ UNCHANGED <<registry, thread, args, unmatched, ok, state, parses>>

EndArgumentAt(position) ==
    /\ current # Unset /\ current.todo = <<>>
    /\ index' = position
    /\ current' = Unset
    /\ UNCHANGED <<registry, thread, args, outcome, ok, state, parses>>

(* Fault: the value of a boolean option is skipped as well. *)
EndArgumentSwallowing == EndArgumentAt(index + 1 + IF current.nextAsValue THEN 1 ELSE 0)

EndArgument ==
    EndArgumentAt(index + 1 + IF current.nextAsValue /\ ~current.anyBoolean THEN 1 ELSE 0)

-----------------------------------------------------------------------------
(* The end of parse_args_and_cache() *)

AtEnd == state = "parsing" /\ current = Unset /\ index >= Len(args)

(* Help is shown and the program ends, whatever else the arguments were. *)
Exit ==
    /\ AtEnd /\ About[Help].bound \in DOMAIN result
    /\ state' = "exited"
    /\ UNCHANGED <<registry, thread, args, index, current, outcome, ok, parses>>

Absent == ToSet(options) \ present

Missing == {o \in Absent : About[o].default = Unset}

(* add_absent_options(), unless an argument was in error. *)
FinishWith(accepted) ==
    /\ AtEnd /\ About[Help].bound \notin DOMAIN result
    /\ ok' = (accepted /\ Missing = {})
    /\ reported' = (reported \/ (accepted /\ Missing # {}))
    /\ result' = IF accepted
                 THEN Over([b \in {About[o].bound : o \in Absent} |->
                               LET o == CHOOSE x \in Absent : About[x].bound = b
                               IN  [option |-> o, raw |-> About[o].default]], result)
                 ELSE result
    /\ state' = "parsed"
    /\ UNCHANGED <<registry, thread, args, index, current, unmatched, present, cached, success, parses>>

(* Fault: the absent options are added after an error too. *)
FinishAnyway == FinishWith(TRUE)

Finish == FinishWith(index <= Len(args))

Done == state = "exited" \/ (state = "parsed" /\ parses = MaxParses)

ParseStep ==
    SkipPlain \/ RejectAssignment \/ MatchArgument \/ RejectCluster \/ Apply \/ EndArgument \/ Exit \/ Finish

ParserNext ==
    \/ \E o \in Option : AddOption(o)
    \/ \E t \in Thread, list \in Lists : Parse(t, list)
    \/ ParseStep
    \/ Done /\ UNCHANGED parserVars

ParserSpec == ParserInit /\ [][ParserNext]_parserVars
-----------------------------------------------------------------------------
(* Properties *)

ParserTypeOK ==
    /\ ToSet(options) \subseteq Option /\ options # <<>> /\ Head(options) = Help
    /\ \A n \in DOMAIN mapping :
          mapping[n] \in ToSet(options) /\ n \in About[mapping[n]].names
    /\ state \in {"idle", "parsing", "parsed", "exited"}
    /\ index \in 0 .. Len(args) + 1
    /\ success \in [Thread -> [Ranges -> BOOLEAN]] /\ {ok, reported} \subseteq BOOLEAN
    /\ present \subseteq ToSet(options)
    /\ \A o \in present : About[o].bound \in DOMAIN result

(* What a list of arguments means, position by position. *)
Mentions(i) == ToSet(Matches(args[i]))

TakesNext(i) == NextAsValue(i) /\ \A o \in Mentions(i) : ~Bool(o)

Stray(i) == Plain(i) /\ ~(i > 1 /\ TakesNext(i - 1))

Given(i, o) ==
    IF args[i].value # <<>> THEN args[i].value
    ELSE IF Bool(o) THEN True
    ELSE IF TakesNext(i) THEN args[i + 1].value ELSE <<>>

Admissible(o, value) ==
    /\ IF Ranged(o) THEN \A k \in DOMAIN value : ReadPart(o, value[k])
                    ELSE value \in About[o].valid
    /\ <<o, value>> \notin Vetoed

Sound(i) ==
    /\ ~AssignsCluster(args[i])
    /\ Len(Matches(args[i])) > 1 => \A o \in Mentions(i) : Bool(o)
    /\ \A o \in Mentions(i) : Admissible(o, Given(i, o))

Places(o) == {i \in DOMAIN args : o \in Mentions(i)}

Words == [i \in DOMAIN args |-> args[i].value]

StrayPlaces == {i \in DOMAIN args : Stray(i)}

Strays == Picked(Words, StrayPlaces)

(* A parse succeeds if and only if every argument is sound and every       *)
(* mandatory option is there.  The one exception is the flag of a thread   *)
(* and a type: once a range was bad, none of its type is accepted on that  *)
(* thread any more, and those of other types still are.                    *)
Accepts ==
    state = "parsed" =>
        (ok <=> /\ \A i \in DOMAIN args : Sound(i)
                /\ \A o \in ToSet(options) : About[o].default = Unset => Places(o) # {}
                /\ \A o \in ToSet(options) :
                      Ranged(o) /\ Places(o) # {} => Flag(o))

(* After a success every option has the value of the last argument that    *)
(* mentions it, or else its default, and the plain arguments that nobody   *)
(* took as a value are the unmatched ones, in order.                       *)
Roles ==
    state = "parsed" /\ ok =>
        /\ unmatched = Strays
        /\ \A o \in ToSet(options) :
              result[About[o].bound] =
                  [option |-> o,
                   raw |-> IF Places(o) = {} THEN About[o].default ELSE Given(Max(Places(o)), o)]

(* set_target_from_cache(): what to_model() stores for an option. *)
ModelOf(o) == IF cached[o] # Unset THEN cached[o] ELSE About[o].default

(* The model has the value of every option that the arguments mention,     *)
(* whatever earlier parses, on whatever thread, have left in the options.  *)
(* (An option that is absent now has what an earlier parse has cached.)    *)
ModelFaithful ==
    state = "parsed" /\ ok =>
        \A o \in present : ModelOf(o) = result[About[o].bound].raw

(* A parse fails if and only if an error was reported, although an error   *)
(* is remembered only as a position past the end of the arguments.         *)
FailureReported == state = "parsed" => (ok <=> ~reported)

(* What parse() answers is right, and it is what on_error has been told,   *)
(* whatever happened half-way and in earlier parses.                       *)
Answer == ParserTypeOK /\ Accepts /\ FailureReported

(* Every argument has the role its place gives it, and to_model() finds    *)
(* the values of this parse, not those an earlier one has cached.          *)
Values == Roles /\ ModelFaithful
-----------------------------------------------------------------------------
(* The inductive invariant behind Answer and Values.                       *)

(* No two options have one bound name; parse_argument() has its locals     *)
(* while it is at an argument that names options.                          *)
ShapeInv ==
    /\ options \in Seq(Option) /\ args \in Lists \cup {<<>>}
    /\ \A o, p \in ToSet(options) : About[o].bound = About[p].bound => o = p
    /\ state = "parsing" => thread \in Thread
    /\ DOMAIN result = {About[o].bound : o \in present} \/ state # "parsing"
    /\ DOMAIN cached = Option
    /\ current # Unset =>
          /\ state = "parsing" /\ current \in Locals
          /\ index < Len(args) /\ Argument.kind # "plain" /\ ~AssignsCluster(Argument)

(* The options of the argument that parse_argument() is done with.         *)
Applied ==
    IF current = Unset THEN {}
    ELSE {Matches(Argument)[k] : k \in 1 .. Len(Matches(Argument)) - Len(current.todo)}

(* In the middle of an argument: every option that follows will get the    *)
(* value that its place gives it.                                          *)
LocalsInv ==
    current # Unset =>
        /\ \E n \in 0 .. Len(Matches(Argument)) :
              current.todo = SubSeq(Matches(Argument), n + 1, Len(Matches(Argument)))
        /\ (current.single <=> Len(Matches(Argument)) <= 1)
        /\ (current.nextAsValue <=> NextAsValue(index + 1))
        /\ (current.anyBoolean <=> \E o \in Applied : Bool(o))
        /\ ~current.single => \A o \in Applied : Bool(o)
        /\ \A o \in Applied : Admissible(o, Given(index + 1, o))
        /\ \A o \in ToSet(current.todo) :
              current.single \/ Bool(o) => ValueFor(o) = Given(index + 1, o)

(* What is known of an option when arguments 1 .. index, and then those in *)
(* Applied, have been seen.                                                *)
PlacesSeen(o) == {i \in 1 .. index : o \in Mentions(i)}

Latest(i, places) == i \in places /\ \A j \in places : j <= i

Known(o) ==
    /\ o \in present <=> PlacesSeen(o) # {} \/ o \in Applied
    /\ o \in present =>
          /\ Ranged(o) => Flag(o)
          /\ result[About[o].bound] = [option |-> o, raw |-> result[About[o].bound].raw]
          /\ result[About[o].bound].raw \in Seq(Part)
          /\ cached[o] = result[About[o].bound].raw
    /\ o \in Applied => result[About[o].bound].raw = Given(index + 1, o)
    /\ o \in present \ Applied =>
          \E i \in 1 .. index : Latest(i, PlacesSeen(o)) /\ result[About[o].bound].raw = Given(i, o)

(* What has been seen of the arguments, while nothing was wrong.           *)
SeenInv ==
    state = "parsing" /\ index <= Len(args) =>
        /\ ~reported
        /\ \A i \in 1 .. index : Sound(i)
        /\ index > 0 => ~TakesNext(index)
        /\ unmatched = PickedUpTo(Words, StrayPlaces)[index]
        /\ \A o \in ToSet(options) : Known(o)

(* The position past the end stands for an error, and there was one.       *)
FailedInv ==
    state = "parsing" /\ index > Len(args) =>
        /\ reported /\ current = Unset
        /\ \/ \E i \in DOMAIN args : ~Sound(i)
           \/ \E o \in ToSet(options) :
                 Ranged(o) /\ Places(o) # {} /\ ~Flag(o)

ParserIInv == Answer /\ Values /\ ShapeInv /\ LocalsInv /\ SeenInv /\ FailedInv
===============================================================================
