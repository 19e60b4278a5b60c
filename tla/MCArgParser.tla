------------------------------- MODULE MCArgParser -------------------------------
(* A small program's options and every short list of arguments, for TLC. *)
EXTENDS ArgParser, TLC

CONSTANTS help, quick, size, sizeAgain, tags, marks, t1, t2

Options == {help, size, sizeAgain, tags, marks, quick}
Threads == {t1, t2}
Interchangeable == Permutations(Threads)

Parts == {"1", "2", "3", "true", "false"}

RangeTypes == {"ints", "strings"}

(* quick has the letter of size, too; sizeAgain has its bound name and is a *)
(* string, any string; marks has the letter of tags and is a range of       *)
(* another type.                                                            *)
Catalog ==
    [o \in Options |->
        CASE o = help -> [bound |-> "help", names |-> {"--help", "-h"}, type |-> "bool",
                          default |-> <<"false">>, valid |-> {<<"true">>, <<"false">>}]
          [] o = quick -> [bound |-> "quick", names |-> {"--quick", "-q", "-s"}, type |-> "bool",
                           default |-> <<"false">>, valid |-> {<<"true">>, <<"false">>}]
          [] o = size -> [bound |-> "size", names |-> {"--size", "-s"}, type |-> "int",
                          default |-> Unset, valid |-> {<<"1">>, <<"2">>}]
          [] o = sizeAgain -> [bound |-> "size", names |-> {"--size"}, type |-> "string",
                               default |-> <<"2">>, valid |-> Seq(Parts)]
          [] o = tags -> [bound |-> "tags", names |-> {"--tags", "-t"}, type |-> "ints",
                          default |-> <<"1">>, valid |-> {"1", "2"}]
          [] o = marks -> [bound |-> "marks", names |-> {"--marks", "-t"}, type |-> "strings",
                           default |-> <<"1">>, valid |-> Parts]]

Long(name, value) == [kind |-> "long", name |-> <<name>>, value |-> value]
Short(letters, value) == [kind |-> "short", name |-> letters, value |-> value]
Word(value) == [kind |-> "plain", name |-> <<>>, value |-> value]

Arguments ==
    {Word(<<"1">>), Word(<<"1", "3">>), Long("--size", <<>>), Long("--tags", <<"2", "1">>),
     Long("--quick", <<"false">>), Short(<<"-s">>, <<"2">>), Short(<<"-t">>, <<>>),
     Short(<<"-q", "-s">>, <<>>), Short(<<"-x", "-s">>, <<>>), Short(<<"-h">>, <<"1">>)}

Names == {"--size", "--tags", "--quick", "-s", "-t", "-q", "-x", "-h"}

ShortLists == UNION {[1 .. n -> Arguments] : n \in 0 .. 2}

(* The longer lists: a mandatory value, and what may come around it. *)
LongLists ==
    {<<a, Word(<<"1">>), Short(<<"-s">>, <<"2">>)>> : a \in Arguments}
        \cup {<<Short(<<"-s", "-q">>, <<"1">>)>>, <<Short(<<"-h">>, <<>>)>>}

AllLists == ShortLists \cup LongLists

Vetoes == {<<size, <<"2">>>>, <<tags, <<"2", "1">>>>, <<marks, <<"1">>>>}
===============================================================================
