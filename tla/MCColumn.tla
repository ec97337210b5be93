------------------------------ MODULE MCColumn -------------------------------
(* Instances of Column for TLC. *)
EXTENDS Column

V(name, major, minor, patch) == [name |-> name, number |-> <<major, minor, patch>>]
MCVersions ==
  {V("MySQL", 5, 7, 30), V("MySQL", 8, 0, 23), V("MariaDB", 10, 1, 48), V("MariaDB", 10, 2, 7),
   V("MariaDB", 10, 3, 0)}

D(goType, options) == [goType |-> goType, tag |-> Join(options), comment |-> <<>>]
T(type) == << <<"type", ":">> \o type >>
Def(text) == << <<"default", ":">> \o text >>

Str == <<"string">>
Varchar == <<"varchar", "(", "36", ")">>
Enum == <<"enum", "(", "a", ",", "b", ")">>

GoTypes ==
  {Str, <<"*", "string">>, <<"sql.NullString">>, <<"[]", "byte">>, <<"int">>, <<"*", "int">>,
   <<"int32">>, <<"uint">>, <<"int8">>, <<"bool">>, <<"sql.NullBool">>, <<"int64">>, <<"float32">>,
   <<"time.Time">>, <<"mysql.NullTime">>}
ByGoType == {D(g, <<>>) : g \in GoTypes}
ByTag ==
  {D(Str, T(t)) : t \in {Varchar, Enum, <<"char">>, <<"text">>, <<"mediumtext">>}}
    \union {D(<<"int">>, T(t)) : t \in {<<"int">>, <<"integer">>, <<"int", "(", "11", ")">>, <<"bigint">>,
                                        <<"tinyint", "(", "1", ")">>, <<"decimal">>, <<"bit">>,
                                        <<"int", " ", "unsigned">>}}
    \union {D(<<"float64">>, T(<<"decimal", "(", "20", ",", "2", ")">>))}
ByDefault ==
  {D(g, Def(t)) : g \in {Str, <<"*", "string">>, <<"bool">>, <<"int">>},
                  t \in {<<"yes">>, <<"true">>, <<"1">>, <<"NULL">>, <<"it", "'", "s">>, <<"'", "yes", "'">>,
                         <<"f", "()">>, <<"x", ",", "y">>, <<"'">>}}
    \union {D(Str, T(t) \o Def(d)) : t \in {<<"char">>, <<"varchar", "(", "3", ")">>},
                                     d \in {<<"x">>, <<"x", "y">>, <<"'", "'", "'">>, <<"x", "y", "z", "x">>}}
    \union {D(g, Def(t)) : g \in {Str, <<"*", "string">>},
                           t \in {<<"x", "backslash">>, <<"x", "backslash", "y">>,
                                  <<"x", "backslash", "'">>, <<"backslash", "'", "x">>}}
    \union {D(Str, T(t) \o Def(d)) : t \in {Enum, <<"mediumtext">>, <<"text">>},
                                     d \in {<<"a">>, <<"'", "a", "'">>}}
    \union {D(<<"time.Time">>, Def(t) \o n) : t \in {<<"current_timestamp">>, <<"CURRENT_TIMESTAMP">>},
                                              n \in {<<>>, << <<"null">> >>}}
ByExtra ==
  {D(<<"time.Time">>, << <<"extra", ":">> \o x >>) :
     x \in {<<"ON UPDATE", "CURRENT_TIMESTAMP">>, OnUpdate}}
    \union {D(<<"mysql.NullTime">>, << <<"extra", ":", "ON UPDATE", "CURRENT_TIMESTAMP">> >>)}
    \union {D(Str, << <<"extra", ":">> \o Hidden >>), D(<<"int64">>, << <<"pk">>, <<"autoincrement">> >>),
            D(<<"int64">>, << <<"pk">>, <<"type", ":", "bigint">>, <<"autoincrement">>, <<"null">> >>)}
Commented == {[D(Str, <<>>) EXCEPT !.comment = <<"c">>]}
MCDeclarations == ByGoType \union ByTag \union ByDefault \union ByExtra \union Commented

MCNumber == "1" :> 1 @@ "3" :> 3 @@ "36" :> 36 @@ "255" :> 255

C(type, nullable, default) ==
  [type |-> type, nullable |-> nullable, default |-> default, auto |-> FALSE, onUpdate |-> FALSE,
   comment |-> <<>>]
MCFound ==
  {C(<<"varchar", "(", "255", ")">>, n, Literal(t)) : n \in BOOLEAN, t \in {<<>>, <<"NULL">>, <<"yes">>}}
    \union {C(<<"datetime">>, FALSE, Literal(<<"0000-00-00 00:00:00">>)), C(Enum, FALSE, NoDefault)}

\* The entry of migu_test.go:816 that makes int a BIGINT.
IntIsBig == << ColumnType(<< <<"BIGINT">> >>, << <<"int">> >>, <<>>, <<>>) >>
=============================================================================
