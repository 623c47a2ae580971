----------------------------- MODULE ConfigMerge -----------------------------
(***************************************************************************)
(* How options reach a request: the constructor of a client normalises the *)
(* options it is given, extend() merges another layer over the defaults of *)
(* its parent and constructs a client from the result, and a request       *)
(* merges its own options over the defaults of its client.  A request made *)
(* from a native Request object is merged twice, once with the Request and *)
(* once with the options passed beside it.                                 *)
(*                                                                         *)
(* A config is a record over one representative of every merge rule.  The *)
(* code tells an option that is no own property from one that is present   *)
(* with the value undefined.                                               *)
(***************************************************************************)
EXTENDS Naturals, Sequences, FiniteSets

CONSTANTS
    Absent,     \* an option that is no own property
    Undef,      \* an option that is present with the value undefined
    Off,        \* plugin options that are no plain object: false switches a plugin off
    Menu,       \* the configs users pass: layers of clients and requests
    NativeMenu, \* what a native Request becomes (requestToConfig)
    MaxLayers   \* bound: clients extended from one another

VARIABLES
    layers,   \* the configs the user gave, from the first client to the request
    defaults, \* the defaults of the client at the end of the chain
    sent      \* the config the pipeline gets, or Absent while there is none

vars == <<layers, defaults, sent>>

----------------------------------------------------------------------------

Given(x) == x \notin {Absent, Undef}
Own(x) == x # Absent

IsFunction(f) == f = [x \in DOMAIN f |-> f[x]]

\* A config without own properties.
Empty ==
    [timeout |-> Absent, validateStatus |-> Absent, throwHttpErrors |-> Absent,
     headers |-> Absent, removeHeaders |-> Absent, query |-> Absent,
     searchParams |-> Absent, extensions |-> Absent, body |-> Absent, json |-> Absent]

\* A config of a user: queries and the options of plugins are objects.
IsConfig(c) ==
    /\ c = [f \in DOMAIN Empty |-> c[f]]
    /\ Own(c.query) => c.query # Undef /\ IsFunction(c.query)
    /\ c.searchParams # Undef
    /\ Own(c.extensions) =>
          /\ c.extensions # Undef /\ IsFunction(c.extensions)
          /\ \A p \in DOMAIN c.extensions : c.extensions[p] # Off => IsFunction(c.extensions[p])

ASSUME ConfigAssumption ==
    /\ Absent # Undef /\ MaxLayers \in Nat
    /\ \A c \in Menu \cup NativeMenu : IsConfig(c)

\* An option in the spread {...defaults, ...config}.
Over(d, c) == IF Own(c) THEN c ELSE d

\* An object that is not there spreads as an empty one.
Object(x) == IF Given(x) THEN x ELSE <<>>

Joined(d, c) == [n \in DOMAIN d \cup DOMAIN c |-> IF n \in DOMAIN c THEN c[n] ELSE d[n]]

\* The status policy is one choice: a layer that gives one of its two options
\* resets the other.
MergeStatus(r, c) ==
    CASE Own(c.validateStatus) /\ ~Own(c.throwHttpErrors) -> [r EXCEPT !.throwHttpErrors = Undef]
      [] Own(c.throwHttpErrors) /\ ~Own(c.validateStatus) -> [r EXCEPT !.validateStatus = Undef]
      [] OTHER -> r

Without(h, names) == [n \in DOMAIN h \ names |-> h[n]]
Names(x) == IF Given(x) THEN x ELSE {}

\* Default headers, default removals, headers and removals, in this order.
MergedHeaders(d, c) ==
    LET inherited == Without(Object(d.headers), Names(d.removeHeaders))
    IN Without(Joined(inherited, Object(c.headers)), Names(c.removeHeaders))

MergeHeaders(r, d, c) ==
    IF Given(r.headers) \/ Given(r.removeHeaders)
    THEN [r EXCEPT !.headers = MergedHeaders(d, c)]
    ELSE r

\* Search params replace an inherited query; a query merges with an inherited
\* query and replaces inherited search params.
MergeQuery(r, d, c) ==
    IF ~Given(r.query) /\ ~Given(r.searchParams) THEN r
    ELSE IF Given(c.searchParams)
    THEN [r EXCEPT !.query = IF Given(c.query) THEN c.query ELSE Undef,
                   !.searchParams = c.searchParams]
    ELSE IF Given(c.query)
    THEN [r EXCEPT !.query = Joined(IF Given(d.searchParams) THEN <<>> ELSE Object(d.query), c.query),
                   !.searchParams = Undef]
    ELSE [r EXCEPT !.query = IF Given(d.query) THEN d.query ELSE Undef,
                   !.searchParams = IF Given(d.searchParams) THEN d.searchParams ELSE Undef]

\* Options of a plugin: two plain objects merge, anything else is replaced.
MergedOptions(d, c) == IF c = Off \/ d = Off THEN c ELSE Joined(d, c)

MergeExtensions(r, d, c) ==
    IF ~Given(r.extensions) THEN r
    ELSE LET x == Object(d.extensions)
             y == Object(c.extensions)
         IN [r EXCEPT !.extensions =
                [p \in DOMAIN x \cup DOMAIN y |->
                    IF p \notin DOMAIN y THEN x[p]
                    ELSE IF p \notin DOMAIN x THEN y[p]
                    ELSE MergedOptions(x[p], y[p])]]

HasBodyConfig(c) == Own(c.body) \/ Own(c.json)
HasBodyValue(c) == Given(c.body) \/ Given(c.json)
Value(x) == IF Given(x) THEN x ELSE Undef

\* The mutant: shortcuts of the defaults survive beside those of the request.
KeepsBody(r, d, c) == r

\* The body is one choice of several shortcuts: a layer that gives one resets
\* the others.
MergeBody(r, d, c) ==
    IF (HasBodyConfig(d) \/ HasBodyValue(r)) /\ HasBodyConfig(c)
    THEN [r EXCEPT !.body = Value(c.body), !.json = Value(c.json)]
    ELSE r

Merge(d, c) ==
    LET spread == [f \in DOMAIN d |-> Over(d[f], c[f])]
    IN MergeBody(MergeExtensions(MergeQuery(MergeHeaders(
           MergeStatus(spread, c), d, c), d, c), d, c), d, c)

----------------------------------------------------------------------------

\* new Client(options): the options are merged over an empty config.
Construct(options) == defaults' = Merge(Empty, options)

Init ==
    /\ \E c \in Menu : layers = <<c>> /\ defaults = Merge(Empty, c)
    /\ sent = Absent

\* client.extend(options): a new client of the merged defaults.
Extend ==
    /\ sent = Absent
    /\ Len(layers) < MaxLayers
    /\ \E c \in Menu :
         /\ layers' = Append(layers, c)
         /\ Construct(Merge(defaults, c))
    /\ UNCHANGED sent

\* request(config), get(url, config) and the other methods.
RequestConfig ==
    /\ sent = Absent
    /\ \E c \in Menu :
         /\ layers' = Append(layers, c)
         /\ sent' = Merge(defaults, c)
    /\ UNCHANGED defaults

\* request(new Request(...), overrides): merged with the Request first, then
\* with the overrides when there are any.
RequestNative ==
    /\ sent = Absent
    /\ Len(layers) = 1
    /\ \E n \in NativeMenu, o \in Menu :
         /\ layers' = layers \o <<n, o>>
         /\ sent' = IF o = Empty THEN Merge(defaults, n)
                    ELSE Merge(Merge(defaults, n), o)
    /\ UNCHANGED defaults

Next == Extend \/ RequestConfig \/ RequestNative

Spec == Init /\ [][Next]_vars

----------------------------------------------------------------------------
\* What a reader of the documentation expects: each option is decided by the
\* last layer that says something about it.

LastOf(P(_)) == LET at == {i \in 1..Len(layers) : P(layers[i])}
                IN IF at = {} THEN 0 ELSE CHOOSE i \in at : \A j \in at : j <= i

\* The value an option of that layer has; layer 0 says nothing.
Says(i, f) == IF i = 0 THEN Undef ELSE Value(layers[i][f])

\* Shallow merge of an option over the layers after the first k.
Merged(k, f) ==
    LET names == UNION {DOMAIN Object(layers[i][f]) : i \in (k + 1)..Len(layers)}
        last(n) == LastOf(LAMBDA l : n \in DOMAIN Object(l[f]))
    IN [n \in names |-> layers[last(n)][f][n]]

StatusExpected ==
    LET i == LastOf(LAMBDA l : Own(l.validateStatus) \/ Own(l.throwHttpErrors))
    IN /\ Value(sent.validateStatus) = Says(i, "validateStatus")
       /\ Value(sent.throwHttpErrors) = Says(i, "throwHttpErrors")

QueryExpected ==
    LET k == LastOf(LAMBDA l : Given(l.searchParams))
        q == LastOf(LAMBDA l : Given(l.query))
    IN IF q > k
       THEN Object(sent.query) = Merged(k, "query") /\ ~Given(sent.searchParams)
       ELSE /\ Value(sent.searchParams) = Says(k, "searchParams")
            /\ Value(sent.query) = Says(k, "query")

BodyExpected ==
    LET i == LastOf(HasBodyConfig)
    IN Value(sent.body) = Says(i, "body") /\ Value(sent.json) = Says(i, "json")

\* The options of a plugin: those of the layers since it was last switched off.
Options(p) ==
    LET has(l) == p \in DOMAIN Object(l.extensions)
        off == LastOf(LAMBDA l : has(l) /\ l.extensions[p] = Off)
        since == {i \in (off + 1)..Len(layers) : has(layers[i])}
        names == UNION {DOMAIN layers[i].extensions[p] : i \in since}
        last(n) == LastOf(LAMBDA l : has(l) /\ l.extensions[p] # Off /\ n \in DOMAIN l.extensions[p])
    IN IF since = {} THEN Off ELSE [n \in names |-> layers[last(n)].extensions[p][n]]

ExtensionsExpected ==
    /\ DOMAIN Object(sent.extensions) = UNION {DOMAIN Object(layers[i].extensions) : i \in 1..Len(layers)}
    /\ \A p \in DOMAIN Object(sent.extensions) : sent.extensions[p] = Options(p)

\* Every option of a request is what the layers above it say, however the chain
\* of createClient, extend and request calls is cut: the last status policy, the
\* last body shortcut, the query or the search params, the merged plugin options.
\* The code merges pairwise and normalises at every construction.
LayersDecide ==
    sent # Absent =>
        /\ StatusExpected /\ QueryExpected /\ BodyExpected /\ ExtensionsExpected
        /\ Value(sent.timeout) = Says(LastOf(LAMBDA l : Own(l.timeout)), "timeout")

\* A header of the request is the one the last layer that names it gives, and is
\* missing when that layer removes it: removals delete inherited headers only.
HeadersFollowLayers ==
    sent # Absent =>
        \A n \in {"x"} :
            LET gives == LastOf(LAMBDA l : n \in DOMAIN Object(l.headers))
                drops == LastOf(LAMBDA l : n \in Names(l.removeHeaders))
            IN drops < gives => n \in DOMAIN Object(sent.headers)
=============================================================================
