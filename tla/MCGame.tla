------------------------------- MODULE MCGame -------------------------------
(***************************************************************************)
(* Small game files for TLC: every combination of a few declarations of    *)
(* each kind, most of them in conflict with something elsewhere in the     *)
(* file; then files in conflict with nothing, of every mix of types.       *)
(***************************************************************************)
EXTENDS Languages

pos == <<"pos">>
dir == <<"dir">>
x == <<"x">>
f == <<"f">>
int == Plain(<<"int">>)
void == Plain(<<"void">>)

Entry(n, t) == [name |-> n, type |-> t, size |-> 3]
EnumField(n) == [name |-> n, size |-> 2]
Constant(n, v, t) == [name |-> n, val |-> v, type |-> t]
Enum(n, fields) == [name |-> n, fields |-> fields]
Struct(n, fields) == [name |-> n, tuple |-> FALSE, fields |-> fields]
Function(n, r, args) == [name |-> n, ret |-> r, args |-> args, action |-> FALSE]

MCConstants ==
    {<<>>,
     <<Constant(dir, "int", "none")>>,
     <<Constant(<<"max">>, "str", "int")>>,
     <<Constant(<<"max">>, "bool", "none")>>,
     <<Constant(<<"class">>, "int", "none")>>,
     <<Constant(<<"max">>, "str", "string"), Constant(<<"self">>, "int", "none")>>}

MCEnums ==
    {<<>>,
     <<Enum(dir, <<EnumField(<<"north">>), EnumField(x)>>)>>,
     <<Enum(dir, <<[name |-> <<"north">>, size |-> 1]>>)>>,
     <<Enum(pos, <<EnumField(<<"class">>)>>)>>,
     <<Enum(<<"v">>, <<EnumField(<<"north">>)>>)>>}

MCStructs ==
    {<<>>,
     <<Struct(pos, <<Entry(x, int)>>)>>,
     <<Struct(pos, <<Entry(<<"to">>, Plain(dir)), Entry(<<"past">>, ArrayOf(pos))>>)>>,
     <<Struct(pos, <<[name |-> x, type |-> int, size |-> 2]>>)>>,
     <<Struct(pos, <<[name |-> x, type |-> int, size |-> 4]>>)>>,
     <<Struct(dir, <<Entry(<<"class">>, int)>>), Struct(pos, <<>>)>>,
     <<Struct(<<"string">>, <<>>)>>}

MCFunctions ==
    {<<>>,
     <<Function(f, ArrayOf(pos), <<Entry(<<"v">>, Plain(pos)), Entry(<<"w">>, int)>>)>>,
     <<Function(f, void, <<Entry(<<"w">>, int), Entry(<<"w">>, int)>>)>>,
     <<Function(f, void, <<Entry(pos, ArrayOf(dir))>>)>>,
     <<Function(<<"afficher", "pos">>, void, <<>>)>>,
     <<Function(f, void, <<>>), Function(f, Plain(dir), <<>>)>>}

MCUserFunctions ==
    {<<>>,
     <<Function(f, void, <<>>)>>,
     <<Function(<<"play">>, void, <<Entry(<<"class">>, int)>>)>>}

\* Structs of scalars, arrays and structs, one of them of itself.
MixedStructs ==
    {<<[name |-> pos, tuple |-> flat, fields |-> <<Entry(x, s), Entry(<<"y">>, t)>>],
       [name |-> <<"tab">>, tuple |-> deep, fields |-> <<Entry(<<"z">>, u)>>]>> :
          flat \in BOOLEAN, deep \in BOOLEAN,
          s \in {int, Plain(<<"double">>), Plain(dir)},
          t \in {Plain(<<"bool">>), Plain(<<"double">>), Plain(<<"string">>), ArrayOf(dir)},
          u \in {Plain(pos), ArrayOf(pos), ArrayOf(<<"string">>), ArrayOf(<<"tab">>)}}
      \cup {<<Struct(pos, <<Entry(x, int)>>), Struct(<<"pos", "array">>, <<Entry(<<"y">>, int)>>)>>}

MixedFunctions ==
    {<<Function(f, ArrayOf(<<"string">>),
                <<Entry(<<"a">>, ArrayOf(pos)), Entry(<<"b">>, Plain(<<"string">>)),
                  Entry(<<"c">>, Plain(<<"bool">>))>>),
       Function(<<"g">>, ArrayOf(pos), <<>>)>>,
     <<Function(f, ArrayOf(<<"bool">>),
                <<Entry(<<"a">>, int), Entry(<<"b">>, Plain(<<"double">>)), Entry(<<"c">>, Plain(pos)),
                  Entry(<<"d">>, ArrayOf(<<"double">>)), Entry(<<"e">>, Plain(dir)),
                  Entry(<<"h">>, ArrayOf(dir))>>)>>,
     <<Function(f, Plain(pos), <<Entry(<<"unit">>, ArrayOf(int.base))>>)>>,
     <<Function(f, int, <<Entry(<<"a">>, void)>>),
       Function(<<"g">>, ArrayOf(<<"void">>), <<Entry(<<"a">>, Plain(<<"tab">>))>>)>>}

MixedFiles ==
    [name : {<<"chess">>}, constant : {<<>>},
     enum : {<<Enum(dir, <<EnumField(<<"north">>)>>)>>},
     struct : MixedStructs, function : MixedFunctions,
     user_function : {<<Function(<<"play">>, ArrayOf(dir), <<Entry(<<"k">>, ArrayOf(pos))>>)>>}]

MCFiles ==
    MixedFiles \cup
    [name : {f, <<"chess">>}, constant : MCConstants, enum : MCEnums, struct : MCStructs,
     function : MCFunctions, user_function : MCUserFunctions]
      \cup {[name |-> <<"chess">>], [constant |-> <<>>],
            [name |-> <<"class">>, constant |-> <<>>], [name |-> <<"chess">>, constant |-> <<>>]}

MCReserved == {<<"class">>, <<"int">>, <<"string">>}
MCReservedCapitalised == {<<"self">>}
=============================================================================
