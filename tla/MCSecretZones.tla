--------------------------- MODULE MCSecretZones ----------------------------
(* SecretZones and its mutants on a small instance. *)
EXTENDS SecretZones, TLC

Strings == {"a4", "b4", "a6", "t", "self", "junk"}

(* At most one of each name in a form, up to two in JSON ...               *)
Once(S) == {<<>>, <<"">>} \cup {<<s>> : s \in S}
Bodies ==
    {FormBody([n \in Name |-> IF n = "secret" THEN x ELSE y]) :
        x \in Once({"s"}), y \in Once({"a4", "t"})}
    \cup {JsonBody([n \in Name |-> IF n = "secret" THEN x ELSE y]) :
        x \in Once({"s", NotString}) \cup {<<"r", "s">>},
        y \in Once({"a4", "t", NotString})
                 \cup {<<"b4", "a4">>, <<NotString, "t">>, <<"a4", NotString>>}}
    \cup {TextBody(s) : s \in Strings \cup {""}}
    \cup {BrokenBody(s) : s \in {"a4", "t", ""}}

(* ... and at most two in the query.                                       *)
Queries ==
    {[n \in Name |-> IF n = "secret" THEN x ELSE y] :
        x \in {<<>>, <<"">>, <<"s">>, <<"s", "s">>, <<"s", "r">>},
        y \in {<<>>, <<"">>} \cup {<<s>> : s \in Strings}
                 \cup {<<"a4", "a4">>, <<"a4", "b4">>, <<"t", "">>}}

Requests ==
    [zone : {"dyn", "challenges"}, method : Method \cup {"PATCH"}, type : MediaType,
     body : Bodies, query : Queries, from : {"a4", None}]
=============================================================================
