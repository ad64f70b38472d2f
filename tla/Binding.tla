-------------------------------- MODULE Binding --------------------------------
(***************************************************************************)
(* How tonic2axum-build binds a method's request message to an HTTP        *)
(* request: HttpOption::parse splits the fields over the path, the body    *)
(* and the query string (http.rs), NewMessages makes a struct for each     *)
(* part that is not the whole message, and shares it between the methods   *)
(* that need the same fields (message.rs), FunctionParts makes the         *)
(* extractors (codegen/helpers.rs), and generate_func the request that is  *)
(* passed to the service (codegen/generator.rs).                           *)
(*                                                                         *)
(* The methods of a service come one after the other, in any order; only   *)
(* NewMessages outlives a method.  A field is its name and its Rust type;  *)
(* names are model values, never put together from characters.  The fields *)
(* of a message, and of its parts, are sets: their names are distinct, and *)
(* their order only shows in the text of the generated code.               *)
(***************************************************************************)
EXTENDS Naturals, Sequences, Functions, FiniteSets

CONSTANTS Fields,       \* existing_messages: message name -> its fields
          Unit,         \* the name "()" of the empty message
          Methods,      \* the methods a service may have
          NoRule,       \* a method without an http option
          NoBody, Star, \* no body in the http option, or the body "*"
          BodySuffix, QuerySuffix,  \* the configured suffixes of the structs
          MaxMethods    \* bound on the methods of a run

ASSUME BindingAssumption ==
    /\ Unit \in DOMAIN Fields /\ Fields[Unit] = {}
    /\ \A m \in DOMAIN Fields :
           /\ IsFiniteSet(Fields[m])
           /\ \A f, g \in Fields[m] : f.name = g.name => f = g
    /\ {BodySuffix, QuerySuffix} \cap {""} = {}
    /\ NoBody # Star
    /\ MaxMethods \in Nat

Messages == DOMAIN Fields
Names(fs) == {f.name : f \in fs}
Without(fs, names) == {f \in fs : f.name \notin names}
Field(fs, name) == CHOOSE f \in fs : f.name = name

VARIABLES bodyMsgs,   \* NewMessages: input message -> structs, for bodies
          queryMsgs,  \* and for query strings
          handlers,   \* what was generated
          done,       \* how many methods were looked at
          failed      \* the build has panicked

vars == <<bodyMsgs, queryMsgs, handlers, done, failed>>

Init == /\ bodyMsgs = [m \in Messages |-> <<>>]
        /\ queryMsgs = [m \in Messages |-> <<>>]
        /\ handlers = {}
        /\ done = 0
        /\ failed = FALSE

-------------------------------------------------------------------------------
(* NewMessages.  A struct is named after its message, with a suffix for the  *)
(* part it is made for and its number, which is left out for the first.      *)
(* Suffixes that end in a letter, neither being the end of the other, make   *)
(* these as distinct as text as they are here ("Body" and "Query" do).       *)

TypeName(msg, suffix, num) == [msg |-> msg, suffix |-> suffix, num |-> num]
Existing(msg) == TypeName(msg, "", 1)

\* (mutant) forgets to compare the lengths.
SameFieldsSubset(s, fields) == s.fields \subseteq fields

SameFields(s, fields) ==
    Cardinality(s.fields) = Cardinality(fields) /\ s.fields \subseteq fields

\* (mutant) makes a new struct for every method.
CreateAlways(structs, msg, suffix, fields) ==
    Append(structs, [name |-> TypeName(msg, suffix, Len(structs) + 1), fields |-> fields])

\* The structs of one message after get_or_create_message.
GetOrCreate(structs, msg, suffix, fields) ==
    IF \E i \in DOMAIN structs : SameFields(structs[i], fields)
    THEN structs
    ELSE Append(structs, [name |-> TypeName(msg, suffix, Len(structs) + 1), fields |-> fields])

\* The struct that get_or_create_message answers with.
Matching(structs, fields) ==
    structs[CHOOSE i \in DOMAIN structs :
                /\ SameFields(structs[i], fields)
                /\ \A j \in 1 .. i - 1 : ~SameFields(structs[j], fields)].name

-------------------------------------------------------------------------------
(* HttpOption::parse.  A part is a MessageDetails: a type and its handling.  *)

Part(handling, type, fields) == [handling |-> handling, type |-> type, fields |-> fields]
NoPart == Part("none", Existing(Unit), {})
Verbatim(msg) == Part("verbatim", Existing(msg), {})

\* parse_pattern takes each variable out of the message in turn.
PathFound(fs, pattern) ==
    /\ \A i, j \in DOMAIN pattern : pattern[i] = pattern[j] => i = j
    /\ Range(pattern) \subseteq Names(fs)

\* (mutant) keeps the name of the variable in the place of its field.
PathNames(fs, pattern) == Range(pattern)

PathFields(fs, pattern) == {Field(fs, name) : name \in Range(pattern)}

\* (mutant) asks whether anything is left in the message.
IntactNonempty(msg, rest) == rest # {}

\* Nothing was taken out of the message.
Intact(msg, rest) == Cardinality(rest) = Cardinality(Fields[msg])

BodyFound(rest, body) == body \in {NoBody, Star} \cup Names(rest)

\* What parse_body takes out of the fields that the path left.
BodyFields(rest, body) == CASE body = NoBody -> {}
                            [] body = Star -> rest
                            [] OTHER -> {Field(rest, body)}

\* The body's handling, but for the name of the struct that "fields" needs.
BodyHandling(msg, rest, body) ==
    CASE body = NoBody -> "none"
      [] body = Star -> IF Intact(msg, rest) THEN "verbatim" ELSE "fields"
      [] OTHER -> IF Field(rest, body).type \in Messages THEN "single"
                  ELSE IF Intact(msg, rest) /\ Cardinality(Fields[msg]) = 1 THEN "verbatim"
                  ELSE "fields"

QueryHandling(msg, rest) == IF rest = {} THEN "none"
                            ELSE IF Intact(msg, rest) THEN "verbatim"
                            ELSE "fields"

-------------------------------------------------------------------------------
(* FunctionParts and the request of generate_func.                           *)

\* The fields that a part's pattern binds one by one.
Extracted(part) == IF part.handling \in {"fields", "single"} THEN part.fields ELSE {}

\* The request built from them, or {} when there is no builder.
Builder(path, query, body) == path \cup Extracted(query) \cup Extracted(body)

Payload(method, path, query, body) ==
    LET built == Builder(path, query, body) # {}
        hasBody == body # NoPart
    IN CASE hasBody /\ ~built /\ ~method.clientStreaming -> "req.0"
         [] ~hasBody /\ ~built /\ method.input = Unit -> "()"
         [] ~hasBody /\ ~built /\ method.input # Unit -> "T {}"
         [] OTHER -> "req"

\* Client streaming is refused with fields bound before the body is.
Refused(method, path, query) == method.clientStreaming /\ path \cup Extracted(query) # {}

Handler(method, path, query, body) ==
    [method |-> method, path |-> path, query |-> query, body |-> body,
     builder |-> Builder(path, query, body),
     payload |-> Payload(method, path, query, body)]

-------------------------------------------------------------------------------
(* generate_func for one method.  Any error panics, and ends the build.      *)

Path(m) == PathFields(Fields[m.input], m.pattern)

\* (mutant) looks the path fields up, but leaves them in the message.
AfterPathKeeps(m) == Fields[m.input]

AfterPath(m) == Without(Fields[m.input], Range(m.pattern))
TakenByBody(m) == BodyFields(AfterPath(m), m.body)
BodyField(m) == Field(AfterPath(m), m.body)

\* (mutant) leaves the fields in the message when the body is the message.
AfterBodyKeeps(m) ==
    IF BodyHandling(m.input, AfterPath(m), m.body) = "verbatim"
    THEN AfterPath(m)
    ELSE Without(AfterPath(m), Names(TakenByBody(m)))

AfterBody(m) == Without(AfterPath(m), Names(TakenByBody(m)))

\* The body part, with the structs known after it was parsed.
BodyPart(m, structs) ==
    LET handling == BodyHandling(m.input, AfterPath(m), m.body) IN
    CASE handling = "none" -> NoPart
      [] handling = "verbatim" -> Verbatim(m.input)
      [] handling = "single" -> Part("single", Existing(BodyField(m).type), TakenByBody(m))
      [] handling = "fields" -> Part("fields", Matching(structs, TakenByBody(m)), TakenByBody(m))

QueryPart(m, structs) ==
    LET handling == QueryHandling(m.input, AfterBody(m)) IN
    CASE handling = "none" -> NoPart
      [] handling = "verbatim" -> Verbatim(m.input)
      [] handling = "fields" -> Part("fields", Matching(structs, AfterBody(m)), AfterBody(m))

BodyStructs(m) ==
    IF BodyHandling(m.input, AfterPath(m), m.body) = "fields"
    THEN GetOrCreate(bodyMsgs[m.input], m.input, BodySuffix, TakenByBody(m))
    ELSE bodyMsgs[m.input]

QueryStructs(m) ==
    IF QueryHandling(m.input, AfterBody(m)) = "fields"
    THEN GetOrCreate(queryMsgs[m.input], m.input, QuerySuffix, AfterBody(m))
    ELSE queryMsgs[m.input]

\* MessageDetails::new makes an identifier of a type name, and "()" is none.
NamesUnit(m) == \/ m.input = Unit /\ m.body = Star
                \/ m.body \notin {NoBody, Star} /\ BodyField(m).type = Unit

\* The type, the path's fields and the body's field are found.
Parses(m) == /\ m.input \in Messages
             /\ PathFound(Fields[m.input], m.pattern)
             /\ BodyFound(AfterPath(m), m.body)
             /\ ~NamesUnit(m)

\* A method without an http option gets no handler.
SkipMethod(m) == /\ m.input \in Messages
                 /\ m.pattern = NoRule
                 /\ UNCHANGED <<bodyMsgs, queryMsgs, handlers, failed>>

BindMethod(m) ==
    /\ m.pattern # NoRule
    /\ Parses(m)
    /\ bodyMsgs' = [bodyMsgs EXCEPT ![m.input] = BodyStructs(m)]
    /\ queryMsgs' = [queryMsgs EXCEPT ![m.input] = QueryStructs(m)]
    /\ LET body == BodyPart(m, BodyStructs(m))
           query == QueryPart(m, QueryStructs(m))
       IN IF Refused(m, Path(m), query)
          THEN failed' = TRUE /\ UNCHANGED handlers
          ELSE /\ handlers' = handlers \cup {Handler(m, Path(m), query, body)}
               /\ UNCHANGED failed

Panic(m) == /\ m.input \notin Messages \/ (m.pattern # NoRule /\ ~Parses(m))
            /\ failed' = TRUE
            /\ UNCHANGED <<bodyMsgs, queryMsgs, handlers>>

GenerateFunc(m) == /\ ~failed
                   /\ done < MaxMethods
                   /\ done' = done + 1
                   /\ SkipMethod(m) \/ BindMethod(m) \/ Panic(m)

Over == (failed \/ done = MaxMethods) /\ UNCHANGED vars

Next == (\E m \in Methods : GenerateFunc(m)) \/ Over

Spec == Init /\ [][Next]_vars

-------------------------------------------------------------------------------
\* A struct has fields of its message, and a number.
Structures(msg, suffix) ==
    [name : [msg : {msg}, suffix : {suffix}, num : Nat], fields : SUBSET Fields[msg]]

TypeOK ==
    /\ DOMAIN bodyMsgs = Messages /\ DOMAIN queryMsgs = Messages
    /\ \A m \in Messages : /\ bodyMsgs[m] \in Seq(Structures(m, BodySuffix))
                          /\ queryMsgs[m] \in Seq(Structures(m, QuerySuffix))
    /\ \A h \in handlers :
           /\ h.method \in Methods /\ h.method.input \in Messages
           /\ h.path \cup h.builder \subseteq Fields[h.method.input]
           /\ h.query.handling \in {"none", "verbatim", "fields"}
           /\ h.body.handling \in {"none", "verbatim", "fields", "single"}
           /\ h.payload \in {"req.0", "()", "T {}", "req"}
    /\ done \in 0 .. MaxMethods
    /\ failed \in BOOLEAN

\* The fields of the request that a part of the HTTP request supplies.
Supplied(part) == IF part.handling = "verbatim" THEN Fields[part.type.msg] ELSE part.fields

\* Each field of the request message is taken from exactly one place: path,
\* body or query string, none of them twice and none left out.
FieldsBoundOnce ==
    \A h \in handlers :
        /\ h.path \cup Supplied(h.body) \cup Supplied(h.query) = Fields[h.method.input]
        /\ h.path \cap (Supplied(h.body) \cup Supplied(h.query)) = {}
        /\ Supplied(h.body) \cap Supplied(h.query) = {}

\* The struct literal that builds a request names every field of the message,
\* so that it compiles, and replaces no request that an extractor has bound:
\* parts that bind the whole message never mix with parts that bind fields.
BuilderComplete ==
    \A h \in handlers : h.builder # {} =>
        /\ h.builder = Fields[h.method.input]
        /\ "verbatim" \notin {h.query.handling, h.body.handling}

\* "There will only be a Json<T> tuple struct extractor" (generator.rs:359):
\* whenever the request is the body as it was extracted, nothing else is.
VerbatimStandsAlone ==
    \A h \in handlers : h.payload = "req.0" =>
        h.path = {} /\ h.query = NoPart /\ h.body = Verbatim(h.method.input)

Structs == UNION {Range(bodyMsgs[m]) \cup Range(queryMsgs[m]) : m \in Messages}

\* The pattern of an extractor names exactly the fields of the struct it takes
\* apart, whichever methods made or shared that struct before and after.
PatternsMatch ==
    \A h \in handlers : \A part \in {h.body, h.query} :
        part.handling = "fields" =>
            \E s \in Structs : s.name = part.type /\ s.fields = part.fields

\* Two structs of the generated file never share a name, and no two made for
\* the same part of the same message have the same fields.
StructsDistinct ==
    \A s, t \in Structs :
        \/ s = t
        \/ /\ s.name # t.name
           /\ \/ s.name.msg # t.name.msg
              \/ s.name.suffix # t.name.suffix
              \/ s.fields # t.fields

\* "... as there won't be any extractors at all" (generator.rs:366): a request
\* is made without fields only when the handler extracts none.
EmptyRequestExtractsNothing ==
    \A h \in handlers : h.payload = "T {}" => h.query = NoPart /\ h.path = {}

\* "Client streaming methods are not supported with query or path parameters"
\* (helpers.rs:159): a handler that is generated for one has neither.
ClientStreamingHasNoParams ==
    \A h \in handlers : h.method.clientStreaming => h.query = NoPart /\ h.path = {}
===============================================================================
