--------------------------- MODULE MCConfigMerge ---------------------------
(* Menus of configs for ConfigMerge: options that share a merge rule are *)
(* combined, options that do not are given apart.                        *)
EXTENDS ConfigMerge, TLC

X(v) == "x" :> v
Y(v) == "y" :> v

StatusMenu ==
    {[Empty EXCEPT !.validateStatus = v, !.throwHttpErrors = t] :
        v \in {Absent, Undef, 1}, t \in {Absent, 1, 2}}

HeaderMenu ==
    {[Empty EXCEPT !.headers = h, !.removeHeaders = r] :
        h \in {Absent, X(1), X(2) @@ Y(1)}, r \in {Absent, {"x"}}}

QueryMenu ==
    {[Empty EXCEPT !.query = q, !.searchParams = p] :
        q \in {Absent, X(1), X(2) @@ Y(1)}, p \in {Absent, 1}}

ExtensionMenu ==
    {[Empty EXCEPT !.extensions = "cache" :> e] : e \in {Off, X(1), Y(1), X(2)}}

BodyMenu ==
    {[Empty EXCEPT !.body = b, !.json = j] : b \in {Absent, Undef, 1}, j \in {Absent, 2}}

TimeoutMenu == {[Empty EXCEPT !.timeout = t] : t \in {Undef, 1}}

MCMenu ==
    StatusMenu \cup HeaderMenu \cup QueryMenu \cup ExtensionMenu \cup BodyMenu
        \cup TimeoutMenu

\* A Request object always carries headers, and a body or null (0).
MCNativeMenu ==
    {[Empty EXCEPT !.headers = h, !.body = b] : h \in {<<>>, X(3)}, b \in {0, 3}}
=============================================================================
