------------------------------- MODULE Wayfinder -------------------------------
(* The URL builder that every generated route function calls: a route is a     *)
(* list of methods and a path whose segments are literal or parameters, and    *)
(* calling it gives the request a link, a form or a fetch will send.           *)
(*                                                                             *)
(* A path is a sequence of segments and a query string a sequence of entries;  *)
(* the key of an entry is the sequence of its bracketed parts, so `a[b][]` is  *)
(* <<"a", "[b]", "[]">>.  What a route function accepts as its arguments (a     *)
(* scalar, a model with an id, an array or a record of either) is abstracted   *)
(* to the values in the order of the parameters.                               *)

EXTENDS SequencesExt, Integers

Parameters == {"{channel}", "{credential}", "{destination}", "{device}",
               "{feature}", "{hash}", "{id}", "{kind}", "{model}",
               "{operation}", "{passkey}", "{path}", "{source}", "{token}",
               "{user}"}

IsParameter(segment) == segment \in Parameters

(* `definition`: the methods a route answers and its path; `as` is the name    *)
(* of the route or the handler the generated file stands for.                  *)
GetHead  == <<"get", "head">>
Post     == <<"post">>
Put      == <<"put">>
Patch    == <<"patch">>
Delete   == <<"delete">>
PutPatch == <<"put", "patch">>
AnyVerb  == <<"get", "head", "post", "put", "patch", "delete", "options">>

RouteDefinition(as, methods, path) == [as |-> as, methods |-> methods, path |-> path]

ParametersOf(route) == SelectSeq(route.path, IsParameter)

(* Values are given in the order of the parameters; a missing one is taken     *)
(* from the defaults (`applyUrlDefaults`).                                      *)
Missing == "undefined"

applyUrlDefaults(given, defaults) ==
    LET open == {p \in DOMAIN defaults : p \notin DOMAIN given \/ given[p] = Missing}
    IN [p \in open \cup DOMAIN given |-> IF p \in open THEN defaults[p] ELSE given[p]]

parsedArgs(route, values, defaults) ==
    LET order == ParametersOf(route)
        given == [p \in ToSet(order) |-> values[CHOOSE i \in DOMAIN order : order[i] = p]]
    IN applyUrlDefaults(given, defaults)

(* Trailing slashes go: an empty last segment is not part of the path.         *)
WithoutTrailing(path) == SubSeq(path, 1, Max({0} \cup {i \in DOMAIN path : path[i] # ""}))

PathOf(route, args) ==
    WithoutTrailing([i \in DOMAIN route.path |->
        IF IsParameter(route.path[i]) THEN args[route.path[i]] ELSE route.path[i]])

-------------------------------------------------------------------------------
(* Query strings.  A query is a sequence of fields [key, value]; a value is     *)
(* text, a list of texts, an object or nothing (null).  An object is abstracted *)
(* to its leaves, in the order in which a walk through it comes to them, each   *)
(* under the brackets that lead to it.                                          *)
Null          == [is |-> "null"]
Text(t)       == [is |-> "text", text |-> t]
ListOf(texts) == [is |-> "list", texts |-> texts]
Object(leaves) == [is |-> "object", leaves |-> leaves]
Leaf(brackets, value) == [brackets |-> brackets, value |-> value]
Field(key, value) == [key |-> key, value |-> value]

Entry(key, text) == [key |-> key, text |-> text]

(* URLSearchParams.set: the first entry of the key changes, the others go.     *)
SetParam(params, key, text) ==
    LET At     == {i \in DOMAIN params : params[i].key = key}
        first  == CHOOSE i \in At : \A j \in At : i <= j
        Kept   == {i \in DOMAIN params : i \notin At \/ i = first}
        order  == SetToSortSeq(Kept, <)
    IN IF At = {} THEN Append(params, Entry(key, text))
       ELSE [i \in DOMAIN order |->
                IF order[i] = first THEN Entry(key, text) ELSE params[order[i]]]

AppendAll(params, key, texts) ==
    params \o [i \in DOMAIN texts |-> Entry(Append(key, "[]"), texts[i])]

(* A list is appended entry by entry, and what is neither text nor list is     *)
(* left out.                                                                   *)
AddValue(params, key, value) ==
    CASE value.is = "list" -> AppendAll(params, key, value.texts)
      [] value.is = "text" -> SetParam(params, key, value.text)
      [] OTHER             -> params

(* Every key on the way into a nested object becomes one more bracket.         *)
addNestedParams(leaves, prefix, params) ==
    FoldLeft(LAMBDA added, leaf : AddValue(added, prefix \o leaf.brackets, leaf.value), params, leaves)

Family(entry) == Head(entry.key)

\* Mutation: only the entry without brackets is removed.
clearParamFamily_ExactKey(params, key) == SelectSeq(params, LAMBDA entry : entry.key # <<key>>)

clearParamFamily(params, key) == SelectSeq(params, LAMBDA entry : Family(entry) # key)

(* The fields of a query in their order; merging removes the old entries of a  *)
(* field even when its new value is nothing.                                   *)
AddFields(query, merging, params) ==
    LET Cleared(added, key) == IF merging THEN clearParamFamily(added, key) ELSE added
        AddField(added, field) ==
            IF field.value.is = "object"
            THEN addNestedParams(field.value.leaves, <<field.key>>, Cleared(added, field.key))
            ELSE AddValue(Cleared(added, field.key), <<field.key>>, field.value)
    IN FoldLeft(AddField, params, query)

(* The options of a call: at most one of `query` and `mergeQuery` is used, and *)
(* merging starts from the query string of the page.  `query` wins when both   *)
(* are given, but the page's entries are still merged in.                      *)
NoOptions      == [query |-> <<>>, mergeQuery |-> <<>>, gives |-> {}]
Query(q)       == [query |-> q, mergeQuery |-> <<>>, gives |-> {"query"}]
MergeQuery(q)  == [query |-> <<>>, mergeQuery |-> q, gives |-> {"mergeQuery"}]

Chosen(options) == IF "query" \in options.gives THEN options.query ELSE options.mergeQuery

queryParams(options, search) ==
    IF options.gives = {} THEN <<>>
    ELSE LET merging == "mergeQuery" \in options.gives
         IN AddFields(Chosen(options), merging, IF merging THEN search ELSE <<>>)

-------------------------------------------------------------------------------
(* What a generated function gives to its caller.                              *)
(* `route.<verb>(...)`, and `route(...)` for the first verb.                   *)
Call(route, verb, values, options, search) ==
    [method |-> verb,
     path   |-> PathOf(route, parsedArgs(route, values, <<>>)),
     query  |-> queryParams(options, search)]

(* `route.form.<verb>(...)`: an HTML form only sends get and post, so any      *)
(* other verb travels as the field _method of the query, which comes first; a  *)
(* _method of the query's own keeps its value.                                 *)
Spoofed(options, verb) ==
    LET given  == Chosen(options)
        own    == {i \in DOMAIN given : given[i].key = "_method"}
        spread == IF own = {} THEN <<Field("_method", Text(verb))>> \o given
                  ELSE LET i == CHOOSE i \in own : TRUE IN <<given[i]>> \o RemoveAt(given, i)
    IN IF "mergeQuery" \in options.gives THEN MergeQuery(spread) ELSE Query(spread)

FormMethod(verb) == IF verb \in {"get", "head", "options"} THEN "get" ELSE "post"

\* Mutation: the verb is not spoofed.
Form_Unspoofed(route, verb, values, options, search) ==
    Call(route, FormMethod(verb), values, options, search)

Form(route, verb, values, options, search) ==
    Call(route, FormMethod(verb), values,
         IF verb \in {"get", "post"} THEN options ELSE Spoofed(options, verb),
         search)
===============================================================================
