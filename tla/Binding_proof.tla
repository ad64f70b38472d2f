---------------------------- MODULE Binding_proof -----------------------------
(***************************************************************************)
(* Proofs about Binding: for every table of messages and fields, for any   *)
(* methods in any order, and for every choice of the two suffixes.         *)
(***************************************************************************)
EXTENDS Binding, FiniteSetTheorems, SequenceTheorems, TLAPS

\* A part of a message is the whole of it if it has as many fields.
LEMMA IntactIsWhole ==
  ASSUME NEW msg \in Messages, NEW rest \in SUBSET Fields[msg]
  PROVE  Intact(msg, rest) <=> rest = Fields[msg]
BY BindingAssumption, FS_Subset DEF Messages, Intact

\* A field is found by its name, and is the only one of that name.
LEMMA FieldFound ==
  ASSUME NEW msg \in Messages, NEW fs \in SUBSET Fields[msg], NEW name \in Names(fs)
  PROVE  Field(fs, name) \in fs /\ \A f \in fs : f.name = name <=> f = Field(fs, name)
<1>1. PICK f \in fs : f.name = name
  BY DEF Names
<1>2. Field(fs, name) \in fs /\ Field(fs, name).name = name
  BY <1>1 DEF Field
<1> QED
  BY <1>2, BindingAssumption DEF Messages

\* parse_pattern and parse_body share the fields out: what is taken out of the
\* message is gone from what is left, and everything else is still there.
LEMMA SharedOut ==
  ASSUME NEW m, Parses(m)
  PROVE  /\ Path(m) = Fields[m.input] \ AfterPath(m)
         /\ AfterPath(m) \subseteq Fields[m.input]
         /\ TakenByBody(m) \subseteq AfterPath(m)
         /\ AfterBody(m) = AfterPath(m) \ TakenByBody(m)
         /\ m.body \notin {NoBody, Star} => TakenByBody(m) = {BodyField(m)}
<1> DEFINE all == Fields[m.input]
<1>1. m.input \in Messages /\ Range(m.pattern) \subseteq Names(all)
  BY DEF Parses, PathFound
<1>2. AfterPath(m) = {f \in all : f.name \notin Range(m.pattern)}
  BY DEF AfterPath, Without
<1>3. Path(m) = {Field(all, name) : name \in Range(m.pattern)}
  BY DEF Path, PathFields
<1>4. \A name \in Range(m.pattern) :
         Field(all, name) \in all /\ \A f \in all : f.name = name <=> f = Field(all, name)
  BY <1>1, FieldFound
<1>5. Path(m) = all \ AfterPath(m)
  BY <1>2, <1>3, <1>4
<1>6. m.body \notin {NoBody, Star} => /\ TakenByBody(m) = {BodyField(m)}
                                      /\ BodyField(m) \in AfterPath(m)
  BY <1>1, <1>2, FieldFound DEF Parses, BodyFound, TakenByBody, BodyFields, BodyField
<1>7. TakenByBody(m) \subseteq AfterPath(m)
  BY <1>6 DEF TakenByBody, BodyFields
<1>8. \A f, g \in AfterPath(m) : f.name = g.name => f = g
  BY <1>1, <1>2, BindingAssumption DEF Messages
<1>9. AfterBody(m) = AfterPath(m) \ TakenByBody(m)
  BY <1>7, <1>8 DEF AfterBody, Without, Names
<1> QED
  BY <1>2, <1>5, <1>6, <1>7, <1>9

\* What each handling of the body means for the fields it takes.
LEMMA BodyCases ==
  ASSUME NEW m, Parses(m), NEW structs
  PROVE  LET body == BodyPart(m, structs) IN
         \/ body = NoPart /\ TakenByBody(m) = {}
         \/ /\ body = Verbatim(m.input)
            /\ TakenByBody(m) = Fields[m.input] /\ AfterBody(m) = {}
         \/ /\ body.handling = "single" /\ body.fields = TakenByBody(m)
            /\ TakenByBody(m) # {}
         \/ /\ body.handling = "fields" /\ body.fields = TakenByBody(m)
            /\ body.type = Matching(structs, TakenByBody(m))
            /\ BodyHandling(m.input, AfterPath(m), m.body) = "fields"
            /\ AfterPath(m) # Fields[m.input] \/ TakenByBody(m) # {}
<1> DEFINE rest == AfterPath(m)
           handling == BodyHandling(m.input, rest, m.body)
<1>1. /\ m.input \in Messages /\ rest \in SUBSET Fields[m.input]
      /\ Intact(m.input, rest) <=> rest = Fields[m.input]
  BY SharedOut, IntactIsWhole DEF Parses
<1>2. CASE m.body = NoBody
  <2>1. handling = "none"
    BY <1>2, BindingAssumption DEF BodyHandling
  <2> QED
    BY <1>2, <2>1, BindingAssumption DEF BodyPart, TakenByBody, BodyFields
<1>3. CASE m.body # NoBody /\ m.body = Star
  <2>1. TakenByBody(m) = rest
    BY <1>3 DEF TakenByBody, BodyFields
  <2>2. handling = IF Intact(m.input, rest) THEN "verbatim" ELSE "fields"
    BY <1>3 DEF BodyHandling
  <2>3. CASE rest = Fields[m.input]
    <3>1. BodyPart(m, structs) = Verbatim(m.input)
      BY <1>1, <2>2, <2>3 DEF BodyPart
    <3> QED
      BY <2>1, <2>3, <3>1, SharedOut
  <2>4. CASE rest # Fields[m.input]
    <3>1. handling = "fields"
      BY <1>1, <2>2, <2>4
    <3> QED
      BY <2>4, <3>1 DEF BodyPart, Part
  <2> QED
    BY <2>3, <2>4
<1>4. CASE m.body \notin {NoBody, Star}
  <2>1. TakenByBody(m) = {BodyField(m)} /\ TakenByBody(m) # {}
    BY <1>4, SharedOut
  <2>2. handling = IF Field(rest, m.body).type \in Messages THEN "single"
                   ELSE IF Intact(m.input, rest) /\ Cardinality(Fields[m.input]) = 1
                        THEN "verbatim" ELSE "fields"
    BY <1>4 DEF BodyHandling
  <2>3. CASE handling = "single"
    BY <2>1, <2>3 DEF BodyPart, Part
  <2>4. CASE handling = "verbatim"
    <3>1. rest = Fields[m.input] /\ Cardinality(Fields[m.input]) = 1
      BY <1>1, <2>2, <2>4
    <3>2. PICK f : Fields[m.input] = {f}
      BY <1>1, <3>1, FS_Singleton, BindingAssumption DEF Messages
    <3>3. TakenByBody(m) = Fields[m.input] /\ AfterBody(m) = {}
      BY <2>1, <3>1, <3>2, SharedOut
    <3>4. BodyPart(m, structs) = Verbatim(m.input)
      BY <2>4 DEF BodyPart
    <3> QED
      BY <3>3, <3>4
  <2>5. CASE handling = "fields"
    BY <2>1, <2>5 DEF BodyPart, Part
  <2> QED
    BY <2>2, <2>3, <2>4, <2>5
<1> QED
  BY <1>2, <1>3, <1>4

\* What each handling of the query string means for the fields left to it.
LEMMA QueryCases ==
  ASSUME NEW m, Parses(m), NEW structs
  PROVE  LET query == QueryPart(m, structs) IN
         \/ query = NoPart /\ AfterBody(m) = {}
         \/ /\ query = Verbatim(m.input)
            /\ AfterBody(m) = Fields[m.input] /\ AfterBody(m) # {}
         \/ /\ query.handling = "fields" /\ query.fields = AfterBody(m)
            /\ query.type = Matching(structs, AfterBody(m))
            /\ QueryHandling(m.input, AfterBody(m)) = "fields"
            /\ AfterBody(m) # {}
<1> DEFINE handling == QueryHandling(m.input, AfterBody(m))
<1>1. /\ m.input \in Messages
      /\ Intact(m.input, AfterBody(m)) <=> AfterBody(m) = Fields[m.input]
  BY SharedOut, IntactIsWhole DEF Parses
<1>2. CASE AfterBody(m) = {}
  <2>1. handling = "none"
    BY <1>2 DEF QueryHandling
  <2> QED
    BY <1>2, <2>1 DEF QueryPart
<1>3. CASE AfterBody(m) # {} /\ AfterBody(m) = Fields[m.input]
  <2>1. handling = "verbatim"
    BY <1>1, <1>3 DEF QueryHandling
  <2> QED
    BY <1>3, <2>1 DEF QueryPart
<1>4. CASE AfterBody(m) # {} /\ AfterBody(m) # Fields[m.input]
  <2>1. handling = "fields"
    BY <1>1, <1>4 DEF QueryHandling
  <2> QED
    BY <1>4, <2>1 DEF QueryPart, Part
<1> QED
  BY <1>2, <1>3, <1>4
-------------------------------------------------------------------------------
\* What is claimed of one handler.
BoundOnce(h) ==
    /\ h.path \cup Supplied(h.body) \cup Supplied(h.query) = Fields[h.method.input]
    /\ h.path \cap (Supplied(h.body) \cup Supplied(h.query)) = {}
    /\ Supplied(h.body) \cap Supplied(h.query) = {}

Complete(h) ==
    h.builder # {} => /\ h.builder = Fields[h.method.input]
                      /\ "verbatim" \notin {h.query.handling, h.body.handling}

StandsAlone(h) ==
    h.payload = "req.0" => h.path = {} /\ h.query = NoPart /\ h.body = Verbatim(h.method.input)

HandlerType(h) ==
    /\ h.method \in Methods /\ h.method.input \in Messages
    /\ h.path \cup h.builder \subseteq Fields[h.method.input]
    /\ h.query.handling \in {"none", "verbatim", "fields"}
    /\ h.body.handling \in {"none", "verbatim", "fields", "single"}
    /\ h.payload \in {"req.0", "()", "T {}", "req"}

\* What an absent part and a part that is a whole message hold.
LEMMA PartFacts ==
  /\ NoPart.handling = "none" /\ NoPart.fields = {}
  /\ \A msg : /\ Verbatim(msg).handling = "verbatim" /\ Verbatim(msg).type.msg = msg
              /\ Verbatim(msg) # NoPart
BY DEF NoPart, Verbatim, Part, Existing, TypeName

\* What FunctionParts makes of one method has every field of its message once.
LEMMA OneHandler ==
  ASSUME NEW m \in Methods, Parses(m), NEW bs, NEW qs,
         NEW h, h = Handler(m, Path(m), QueryPart(m, qs), BodyPart(m, bs))
  PROVE  HandlerType(h) /\ BoundOnce(h) /\ Complete(h) /\ StandsAlone(h)
<1> DEFINE all == Fields[m.input]
           body == BodyPart(m, bs)
           query == QueryPart(m, qs)
           built == Builder(Path(m), query, body)
<1>1. /\ h.method = m /\ h.path = Path(m) /\ h.query = query /\ h.body = body
      /\ h.builder = built /\ h.payload = Payload(m, Path(m), query, body)
  BY DEF Handler
<1>2. /\ Path(m) = all \ AfterPath(m) /\ AfterPath(m) \subseteq all
      /\ TakenByBody(m) \subseteq AfterPath(m) /\ AfterBody(m) = AfterPath(m) \ TakenByBody(m)
  BY SharedOut
<1>3. Supplied(body) = TakenByBody(m) /\ body.handling \in {"none", "verbatim", "fields", "single"}
  <2>1. CASE body = NoPart /\ TakenByBody(m) = {}
    BY <2>1, PartFacts DEF Supplied
  <2>2. CASE body = Verbatim(m.input) /\ TakenByBody(m) = all
    BY <2>2, PartFacts DEF Supplied
  <2>3. CASE body.handling \in {"single", "fields"} /\ body.fields = TakenByBody(m)
    BY <2>3 DEF Supplied
  <2> QED
    BY <2>1, <2>2, <2>3, BodyCases
<1>4. Supplied(query) = AfterBody(m) /\ query.handling \in {"none", "verbatim", "fields"}
  <2>1. CASE query = NoPart /\ AfterBody(m) = {}
    BY <2>1, PartFacts DEF Supplied
  <2>2. CASE query = Verbatim(m.input) /\ AfterBody(m) = all
    BY <2>2, PartFacts DEF Supplied
  <2>3. CASE query.handling = "fields" /\ query.fields = AfterBody(m)
    BY <2>3 DEF Supplied
  <2> QED
    BY <2>1, <2>2, <2>3, QueryCases
<1>5. Extracted(body) = IF body.handling = "verbatim" THEN {} ELSE TakenByBody(m)
  BY BodyCases, PartFacts DEF Extracted
<1>6. Extracted(query) = IF query.handling = "verbatim" THEN {} ELSE AfterBody(m)
  BY QueryCases, PartFacts DEF Extracted
<1>7. built = Path(m) \cup Extracted(query) \cup Extracted(body)
  BY DEF Builder
<1>8. BoundOnce(h)
  BY <1>1, <1>2, <1>3, <1>4 DEF BoundOnce
<1>9. Complete(h)
  <2>1. body.handling = "verbatim" => built = {}
    <3>1. SUFFICES ASSUME body.handling = "verbatim" PROVE built = {}
      OBVIOUS
    <3>2. TakenByBody(m) = all /\ AfterBody(m) = {}
      BY <3>1, BodyCases, PartFacts
    <3> QED
      BY <1>2, <1>5, <1>6, <1>7, <3>1, <3>2
  <2>2. query.handling = "verbatim" => built = {}
    <3>1. SUFFICES ASSUME query.handling = "verbatim" PROVE built = {}
      OBVIOUS
    <3>2. AfterBody(m) = all
      BY <3>1, QueryCases, PartFacts
    <3> QED
      BY <1>2, <1>5, <1>6, <1>7, <3>1, <3>2
  <2>3. query.handling # "verbatim" /\ body.handling # "verbatim" => built = all
    BY <1>2, <1>5, <1>6, <1>7
  <2> QED
    BY <1>1, <2>1, <2>2, <2>3 DEF Complete
<1>10. h.payload \in {"req.0", "()", "T {}", "req"}
  BY <1>1 DEF Payload
<1>11. HandlerType(h)
  <2>1. m.input \in Messages
    BY DEF Parses
  <2>2. Path(m) \cup built \subseteq all
    BY <1>2, <1>5, <1>6, <1>7
  <2> QED
    BY <1>1, <1>3, <1>4, <1>10, <2>1, <2>2 DEF HandlerType
<1>12. StandsAlone(h)
  <2>1. SUFFICES ASSUME h.payload = "req.0"
                 PROVE  Path(m) = {} /\ query = NoPart /\ body = Verbatim(m.input)
    BY <1>1 DEF StandsAlone
  <2>2. body # NoPart /\ built = {}
    BY <1>1, <2>1 DEF Payload
  <2>3. Path(m) = {} /\ Extracted(query) = {} /\ Extracted(body) = {}
    BY <1>7, <2>2
  <2>4. AfterPath(m) = all
    BY <1>2, <2>3
  <2>5. body = Verbatim(m.input) /\ AfterBody(m) = {}
    BY <1>5, <2>2, <2>3, <2>4, BodyCases
  <2>6. query = NoPart
    BY <2>5, QueryCases
  <2> QED
    BY <2>3, <2>5, <2>6
<1> QED
  BY <1>8, <1>9, <1>11, <1>12
-------------------------------------------------------------------------------
\* The structs of one message and one part are numbered through, and no two of
\* them have the same fields.
Numbered(structs) ==
    \A i, j \in 1 .. Len(structs) :
        /\ structs[i].name.num = i
        /\ structs[i].fields = structs[j].fields => i = j

\* The comparison of Message::same_fields, by length and then by name, is one of sets.
LEMMA SameFieldsAreEqual ==
  ASSUME NEW msg \in Messages, NEW fields \in SUBSET Fields[msg], NEW s, s.fields \in SUBSET Fields[msg]
  PROVE  SameFields(s, fields) <=> s.fields = fields
<1>1. IsFiniteSet(fields)
  BY BindingAssumption, FS_Subset DEF Messages
<1>2. s.fields \subseteq fields /\ Cardinality(fields) = Cardinality(s.fields) => fields = s.fields
  BY <1>1, FS_Subset
<1> QED
  BY <1>2 DEF SameFields

\* The search of a numbered list has one answer.
LEMMA MatchingIsUnique ==
  ASSUME NEW msg \in Messages, NEW suffix, NEW structs \in Seq(Structures(msg, suffix)),
         Numbered(structs), NEW fields \in SUBSET Fields[msg],
         NEW i \in 1 .. Len(structs), structs[i].fields = fields
  PROVE  Matching(structs, fields) = structs[i].name
<1>1. \A j \in 1 .. Len(structs) : structs[j] \in Structures(msg, suffix)
  BY ElementOfSeq
<1>2. \A j \in 1 .. Len(structs) : structs[j].fields \in SUBSET Fields[msg]
  BY <1>1 DEF Structures
<1>3. \A j \in 1 .. Len(structs) : SameFields(structs[j], fields) <=> j = i
  <2>1. \A j \in 1 .. Len(structs) : SameFields(structs[j], fields) <=> structs[j].fields = fields
    BY <1>2, SameFieldsAreEqual
  <2>2. \A j \in 1 .. Len(structs) : structs[j].fields = fields <=> j = i
    BY DEF Numbered
  <2> QED
    BY <2>1, <2>2
<1>4. DOMAIN structs = 1 .. Len(structs) /\ Len(structs) \in Nat
  OBVIOUS
<1>5. \A j \in DOMAIN structs :
         (/\ SameFields(structs[j], fields)
          /\ \A k \in 1 .. j - 1 : ~SameFields(structs[k], fields)) <=> j = i
  BY <1>3, <1>4
<1> QED
  BY <1>4, <1>5 DEF Matching

\* get_or_create_message: what was there stays, the numbering goes on, and the
\* name that it answers with is that of a struct with the fields asked for.
LEMMA GetOrCreateAnswers ==
  ASSUME NEW msg \in Messages, NEW suffix, NEW structs \in Seq(Structures(msg, suffix)),
         Numbered(structs), NEW fields \in SUBSET Fields[msg],
         NEW result, result = GetOrCreate(structs, msg, suffix, fields)
  PROVE  /\ result \in Seq(Structures(msg, suffix)) /\ Numbered(result)
         /\ Range(structs) \subseteq Range(result)
         /\ \E s \in Range(result) : s.name = Matching(result, fields) /\ s.fields = fields
<1> DEFINE new == [name |-> TypeName(msg, suffix, Len(structs) + 1), fields |-> fields]
<1>1. \A i \in 1 .. Len(structs) : structs[i] \in Structures(msg, suffix)
  BY ElementOfSeq
<1>2. \A i \in 1 .. Len(structs) : SameFields(structs[i], fields) <=> structs[i].fields = fields
  <2>1. \A i \in 1 .. Len(structs) : structs[i].fields \in SUBSET Fields[msg]
    BY <1>1 DEF Structures
  <2> QED
    BY <2>1, SameFieldsAreEqual
<1>3. Len(structs) \in Nat /\ DOMAIN structs = 1 .. Len(structs)
  OBVIOUS
<1>4. CASE \E i \in DOMAIN structs : SameFields(structs[i], fields)
  <2>1. result = structs
    BY <1>4 DEF GetOrCreate
  <2>2. PICK i \in 1 .. Len(structs) : structs[i].fields = fields
    BY <1>2, <1>3, <1>4
  <2>3. structs[i].name = Matching(structs, fields)
    BY <2>2, MatchingIsUnique
  <2>4. structs[i] \in Range(structs)
    BY <1>3 DEF Range
  <2> QED
    BY <2>1, <2>2, <2>3, <2>4
<1>5. CASE ~ \E i \in DOMAIN structs : SameFields(structs[i], fields)
  <2>1. result = Append(structs, new)
    BY <1>5 DEF GetOrCreate
  <2>2. new \in Structures(msg, suffix) /\ new.name.num = Len(structs) + 1 /\ new.fields = fields
    BY <1>3 DEF Structures, TypeName
  <2>3. /\ result \in Seq(Structures(msg, suffix)) /\ Len(result) = Len(structs) + 1
        /\ \A i \in 1 .. Len(structs) : result[i] = structs[i]
        /\ result[Len(structs) + 1] = new
    BY <2>1, <2>2, AppendProperties
  <2>4. \A i \in 1 .. Len(structs) : result[i].fields # fields
    BY <1>2, <1>3, <1>5, <2>3
  <2>5. \A i \in 1 .. Len(result) : i \in 1 .. Len(structs) \/ i = Len(structs) + 1
    BY <1>3, <2>3
  <2>6. Numbered(result)
    BY <1>3, <2>2, <2>3, <2>4, <2>5 DEF Numbered
  <2>7. DOMAIN result = 1 .. Len(structs) + 1
    BY <2>3, LenProperties
  <2>8. Range(structs) \subseteq Range(result) /\ new \in Range(result)
    BY <1>3, <2>3, <2>7 DEF Range
  <2>9. Matching(result, fields) = new.name
    BY <1>3, <2>2, <2>3, <2>6, MatchingIsUnique
  <2> QED
    BY <2>2, <2>3, <2>6, <2>8, <2>9
<1> QED
  BY <1>4, <1>5
-------------------------------------------------------------------------------
\* The inductive invariant: what is known of the structs, and of each handler
\* that was made.
StructsOK ==
    /\ DOMAIN bodyMsgs = Messages /\ DOMAIN queryMsgs = Messages
    /\ \A m \in Messages :
           /\ bodyMsgs[m] \in Seq(Structures(m, BodySuffix)) /\ Numbered(bodyMsgs[m])
           /\ queryMsgs[m] \in Seq(Structures(m, QuerySuffix)) /\ Numbered(queryMsgs[m])

HandlersOK == \A h \in handlers :
    HandlerType(h) /\ BoundOnce(h) /\ Complete(h) /\ StandsAlone(h)

Inductive == /\ StructsOK /\ HandlersOK /\ PatternsMatch
             /\ done \in 0 .. MaxMethods /\ failed \in BOOLEAN

\* A method changes the structs of its input message, and keeps what they were.
LEMMA StructsStep ==
  ASSUME StructsOK, NEW m \in Methods, Parses(m),
         NEW bs, bs = BodyStructs(m), NEW qs, qs = QueryStructs(m)
  PROVE  /\ bs \in Seq(Structures(m.input, BodySuffix)) /\ Numbered(bs)
         /\ qs \in Seq(Structures(m.input, QuerySuffix)) /\ Numbered(qs)
         /\ Range(bodyMsgs[m.input]) \subseteq Range(bs)
         /\ Range(queryMsgs[m.input]) \subseteq Range(qs)
         /\ BodyPart(m, bs).handling = "fields" =>
                \E s \in Range(bs) : /\ s.name = BodyPart(m, bs).type
                                     /\ s.fields = BodyPart(m, bs).fields
         /\ QueryPart(m, qs).handling = "fields" =>
                \E s \in Range(qs) : /\ s.name = QueryPart(m, qs).type
                                     /\ s.fields = QueryPart(m, qs).fields
<1>1. m.input \in Messages
  BY DEF Parses
<1>2. TakenByBody(m) \in SUBSET Fields[m.input] /\ AfterBody(m) \in SUBSET Fields[m.input]
  BY SharedOut
<1>3. /\ bodyMsgs[m.input] \in Seq(Structures(m.input, BodySuffix)) /\ Numbered(bodyMsgs[m.input])
      /\ queryMsgs[m.input] \in Seq(Structures(m.input, QuerySuffix)) /\ Numbered(queryMsgs[m.input])
  BY <1>1 DEF StructsOK
<1>4. /\ bs \in Seq(Structures(m.input, BodySuffix)) /\ Numbered(bs)
      /\ Range(bodyMsgs[m.input]) \subseteq Range(bs)
      /\ BodyPart(m, bs).handling = "fields" =>
             \E s \in Range(bs) : /\ s.name = BodyPart(m, bs).type
                                  /\ s.fields = BodyPart(m, bs).fields
  <2>1. CASE BodyHandling(m.input, AfterPath(m), m.body) = "fields"
    <3>1. bs = GetOrCreate(bodyMsgs[m.input], m.input, BodySuffix, TakenByBody(m))
      BY <2>1 DEF BodyStructs
    <3>2. /\ BodyPart(m, bs).type = Matching(bs, TakenByBody(m))
          /\ BodyPart(m, bs).fields = TakenByBody(m)
      BY <2>1 DEF BodyPart, Part
    <3>3. /\ bs \in Seq(Structures(m.input, BodySuffix)) /\ Numbered(bs)
          /\ Range(bodyMsgs[m.input]) \subseteq Range(bs)
          /\ \E s \in Range(bs) : s.name = Matching(bs, TakenByBody(m)) /\ s.fields = TakenByBody(m)
      BY <1>1, <1>2, <1>3, <3>1, GetOrCreateAnswers
    <3> QED
      BY <3>2, <3>3
  <2>2. CASE BodyHandling(m.input, AfterPath(m), m.body) # "fields"
    <3>1. bs = bodyMsgs[m.input]
      BY <2>2 DEF BodyStructs
    <3>2. BodyPart(m, bs).handling # "fields"
      BY <2>2, BodyCases, PartFacts
    <3> QED
      BY <1>3, <3>1, <3>2
  <2> QED
    BY <2>1, <2>2
<1>5. /\ qs \in Seq(Structures(m.input, QuerySuffix)) /\ Numbered(qs)
      /\ Range(queryMsgs[m.input]) \subseteq Range(qs)
      /\ QueryPart(m, qs).handling = "fields" =>
             \E s \in Range(qs) : /\ s.name = QueryPart(m, qs).type
                                  /\ s.fields = QueryPart(m, qs).fields
  <2>1. CASE QueryHandling(m.input, AfterBody(m)) = "fields"
    <3>1. qs = GetOrCreate(queryMsgs[m.input], m.input, QuerySuffix, AfterBody(m))
      BY <2>1 DEF QueryStructs
    <3>2. /\ QueryPart(m, qs).type = Matching(qs, AfterBody(m))
          /\ QueryPart(m, qs).fields = AfterBody(m)
      BY <2>1 DEF QueryPart, Part
    <3>3. /\ qs \in Seq(Structures(m.input, QuerySuffix)) /\ Numbered(qs)
          /\ Range(queryMsgs[m.input]) \subseteq Range(qs)
          /\ \E s \in Range(qs) : s.name = Matching(qs, AfterBody(m)) /\ s.fields = AfterBody(m)
      BY <1>1, <1>2, <1>3, <3>1, GetOrCreateAnswers
    <3> QED
      BY <3>2, <3>3
  <2>2. CASE QueryHandling(m.input, AfterBody(m)) # "fields"
    <3>1. qs = queryMsgs[m.input]
      BY <2>2 DEF QueryStructs
    <3>2. QueryPart(m, qs).handling # "fields"
      BY <2>2, QueryCases, PartFacts
    <3> QED
      BY <1>3, <3>1, <3>2
  <2> QED
    BY <2>1, <2>2
<1> QED
  BY <1>4, <1>5

\* generate_func for one more method keeps the structs and handlers in order.
LEMMA BindStep ==
  ASSUME StructsOK, HandlersOK, PatternsMatch, NEW m \in Methods, BindMethod(m)
  PROVE  StructsOK' /\ HandlersOK' /\ PatternsMatch'
<1>1. Parses(m) /\ m.input \in Messages
  BY DEF BindMethod, Parses
<1> DEFINE bs == BodyStructs(m)
           qs == QueryStructs(m)
           new == Handler(m, Path(m), QueryPart(m, qs), BodyPart(m, bs))
<1>2. /\ bs \in Seq(Structures(m.input, BodySuffix)) /\ Numbered(bs)
      /\ qs \in Seq(Structures(m.input, QuerySuffix)) /\ Numbered(qs)
      /\ Range(bodyMsgs[m.input]) \subseteq Range(bs)
      /\ Range(queryMsgs[m.input]) \subseteq Range(qs)
      /\ BodyPart(m, bs).handling = "fields" =>
             \E s \in Range(bs) : s.name = BodyPart(m, bs).type /\ s.fields = BodyPart(m, bs).fields
      /\ QueryPart(m, qs).handling = "fields" =>
             \E s \in Range(qs) : s.name = QueryPart(m, qs).type /\ s.fields = QueryPart(m, qs).fields
  BY <1>1, StructsStep
<1>3. /\ bodyMsgs' = [bodyMsgs EXCEPT ![m.input] = bs]
      /\ queryMsgs' = [queryMsgs EXCEPT ![m.input] = qs]
      /\ handlers' \subseteq handlers \cup {new}
  BY DEF BindMethod
<1>4. /\ DOMAIN bodyMsgs = Messages /\ DOMAIN queryMsgs = Messages
  BY DEF StructsOK
<1>5. /\ DOMAIN bodyMsgs' = Messages /\ DOMAIN queryMsgs' = Messages
      /\ \A k \in Messages : /\ bodyMsgs'[k] = IF k = m.input THEN bs ELSE bodyMsgs[k]
                             /\ queryMsgs'[k] = IF k = m.input THEN qs ELSE queryMsgs[k]
  BY <1>3, <1>4
<1>6. StructsOK'
  <2>1. ASSUME NEW k \in Messages
        PROVE  /\ bodyMsgs'[k] \in Seq(Structures(k, BodySuffix)) /\ Numbered(bodyMsgs'[k])
               /\ queryMsgs'[k] \in Seq(Structures(k, QuerySuffix)) /\ Numbered(queryMsgs'[k])
    <3>1. CASE k = m.input
      <4>1. bodyMsgs'[k] = bs /\ queryMsgs'[k] = qs
        BY <1>5, <3>1
      <4> QED
        BY <1>2, <3>1, <4>1
    <3>2. CASE k # m.input
      <4>1. bodyMsgs'[k] = bodyMsgs[k] /\ queryMsgs'[k] = queryMsgs[k]
        BY <1>5, <3>2
      <4> QED
        BY <4>1 DEF StructsOK
    <3> QED
      BY <3>1, <3>2
  <2> QED
    BY <1>5, <2>1 DEF StructsOK, Numbered
<1>7. Structs \subseteq Structs' /\ Range(bs) \cup Range(qs) \subseteq Structs'
  <2>1. \A k \in Messages : /\ Range(bodyMsgs[k]) \subseteq Range(bodyMsgs'[k])
                            /\ Range(queryMsgs[k]) \subseteq Range(queryMsgs'[k])
    BY <1>2, <1>5
  <2>2. bodyMsgs'[m.input] = bs /\ queryMsgs'[m.input] = qs
    BY <1>1, <1>5
  <2> QED
    BY <1>1, <2>1, <2>2 DEF Structs
<1>8. HandlersOK'
  BY <1>1, <1>3, OneHandler DEF HandlersOK
<1>9. PatternsMatch'
  <2>1. new.body = BodyPart(m, bs) /\ new.query = QueryPart(m, qs)
    BY DEF Handler
  <2>2. \A part \in {new.body, new.query} : part.handling = "fields" =>
            \E s \in Structs' : s.name = part.type /\ s.fields = part.fields
    BY <1>2, <1>7, <2>1
  <2>3. \A h \in handlers : \A part \in {h.body, h.query} : part.handling = "fields" =>
            \E s \in Structs' : s.name = part.type /\ s.fields = part.fields
    BY <1>7 DEF PatternsMatch
  <2> QED
    BY <1>3, <2>2, <2>3 DEF PatternsMatch
<1> QED
  BY <1>6, <1>8, <1>9

\* No step of the build breaks the inductive invariant.
LEMMA InductiveStep ==
  ASSUME Inductive, [Next]_vars
  PROVE  Inductive'
<1>1. ASSUME UNCHANGED <<bodyMsgs, queryMsgs, handlers>>
      PROVE  StructsOK' /\ HandlersOK' /\ PatternsMatch'
  BY <1>1 DEF Inductive, StructsOK, HandlersOK, PatternsMatch, Structs
<1>2. CASE \E m \in Methods : GenerateFunc(m)
  <2>1. PICK m \in Methods : GenerateFunc(m)
    BY <1>2
  <2>2. done' \in 0 .. MaxMethods /\ failed' \in BOOLEAN
    <3>1. done < MaxMethods /\ done' = done + 1 /\ MaxMethods \in Nat /\ done \in 0 .. MaxMethods
      BY <2>1, BindingAssumption DEF Inductive, GenerateFunc
    <3>2. failed' = failed \/ failed' = TRUE
      BY <2>1 DEF GenerateFunc, SkipMethod, BindMethod, Panic
    <3>3. failed \in BOOLEAN
      BY DEF Inductive
    <3>4. failed' \in BOOLEAN
      BY <3>2, <3>3
    <3>5. done' \in 0 .. MaxMethods
      BY <3>1
    <3> QED
      BY <3>4, <3>5
  <2>3. SkipMethod(m) \/ Panic(m) => UNCHANGED <<bodyMsgs, queryMsgs, handlers>>
    BY DEF SkipMethod, Panic
  <2>4. BindMethod(m) => StructsOK' /\ HandlersOK' /\ PatternsMatch'
    BY BindStep DEF Inductive
  <2> QED
    BY <1>1, <2>1, <2>2, <2>3, <2>4 DEF GenerateFunc, Inductive
<1>3. CASE UNCHANGED vars
  BY <1>1, <1>3 DEF vars, Inductive
<1> QED
  BY <1>2, <1>3 DEF Next, Over

\* The inductive invariant holds of every build.
THEOREM BindingInductive == Spec => []Inductive
<1>1. Init => Inductive
  <2>1. SUFFICES ASSUME Init PROVE Inductive
    OBVIOUS
  <2>2. \A m \in Messages : bodyMsgs[m] = <<>> /\ queryMsgs[m] = <<>>
    BY <2>1 DEF Init
  <2>3. \A S : <<>> \in Seq(S)
    OBVIOUS
  <2>4. Numbered(<<>>)
    BY DEF Numbered
  <2>5. StructsOK
    BY <2>1, <2>2, <2>3, <2>4 DEF Init, StructsOK
  <2>6. HandlersOK /\ PatternsMatch
    BY <2>1 DEF Init, HandlersOK, PatternsMatch
  <2>7. done \in 0 .. MaxMethods /\ failed \in BOOLEAN
    <3>1. MaxMethods \in Nat
      BY BindingAssumption
    <3>2. done = 0 /\ failed = FALSE
      BY <2>1 DEF Init
    <3>3. done \in 0 .. MaxMethods
      BY <3>1, <3>2
    <3>4. failed \in BOOLEAN
      BY <3>2
    <3> QED
      BY <3>3, <3>4
  <2> QED
    BY <2>5, <2>6, <2>7 DEF Inductive
<1>2. Inductive /\ [Next]_vars => Inductive'
  BY InductiveStep
<1> QED
  BY <1>1, <1>2, PTL DEF Spec

\* TypeOK is invariant.
THEOREM BindingTypes == Spec => []TypeOK
<1>1. Inductive => TypeOK
  BY DEF Inductive, StructsOK, HandlersOK, HandlerType, TypeOK
<1> QED
  BY <1>1, BindingInductive, PTL

\* FieldsBoundOnce: whatever the path, the body and the query string of an
\* http option are, each field of the request comes from one of them.
THEOREM EveryFieldBoundOnce == Spec => []FieldsBoundOnce
<1>1. Inductive => FieldsBoundOnce
  BY DEF Inductive, HandlersOK, BoundOnce, FieldsBoundOnce
<1> QED
  BY <1>1, BindingInductive, PTL

\* BuilderComplete: a struct literal of a handler names all fields, and never
\* takes the place of a request that was extracted as a whole.
THEOREM EveryBuilderComplete == Spec => []BuilderComplete
<1>1. Inductive => BuilderComplete
  BY DEF Inductive, HandlersOK, Complete, BuilderComplete
<1> QED
  BY <1>1, BindingInductive, PTL

\* VerbatimStandsAlone: "req.0" is passed on only where the body is the request
\* and there is no other extractor.
THEOREM VerbatimIsAlone == Spec => []VerbatimStandsAlone
<1>1. Inductive => VerbatimStandsAlone
  BY DEF Inductive, HandlersOK, StandsAlone, VerbatimStandsAlone
<1> QED
  BY <1>1, BindingInductive, PTL

\* PatternsMatch: a struct that is shared between methods, in any order of
\* them, has the fields that each of their patterns names.
THEOREM EveryPatternMatches == Spec => []PatternsMatch
<1>1. Inductive => PatternsMatch
  BY DEF Inductive
<1> QED
  BY <1>1, BindingInductive, PTL

\* The structs made for one part of one message have numbers of their own, and
\* none has the fields of another.
StructsApart ==
    \A m \in Messages : \A structs \in {bodyMsgs[m], queryMsgs[m]} :
        \A i, j \in DOMAIN structs : i # j => /\ structs[i].name.num # structs[j].name.num
                                             /\ structs[i].fields # structs[j].fields

\* What StructsDistinct comes to for any suffixes: in any order of the methods,
\* no struct is made twice or numbered like another of its part.  (That names
\* formatted from message, suffix and number differ as well takes suffixes such
\* as the default ones; the builder accepts equal ones.)
THEOREM NoStructTwice == Spec => []StructsApart
<1>1. Inductive => StructsApart
  <2>1. SUFFICES ASSUME Inductive, NEW m \in Messages, NEW structs \in {bodyMsgs[m], queryMsgs[m]},
                        NEW i \in DOMAIN structs, NEW j \in DOMAIN structs, i # j
                 PROVE  /\ structs[i].name.num # structs[j].name.num
                        /\ structs[i].fields # structs[j].fields
    BY DEF StructsApart
  <2>2. PICK suffix : structs \in Seq(Structures(m, suffix)) /\ Numbered(structs)
    BY <2>1 DEF Inductive, StructsOK
  <2>3. i \in 1 .. Len(structs) /\ j \in 1 .. Len(structs)
    BY <2>2, LenProperties
  <2> QED
    BY <2>1, <2>2, <2>3 DEF Numbered
<1> QED
  BY <1>1, BindingInductive, PTL

-------------------------------------------------------------------------------
\* A handler that keeps what the comments say of empty requests and of client
\* streaming.
AsDocumented(h) ==
    /\ h.payload = "T {}" => h.query = NoPart /\ h.path = {}
    /\ h.method.clientStreaming => h.query = NoPart /\ h.path = {}

\* A handler that was not refused is so, unless its query string is the message.
LEMMA DocumentedHandler ==
  ASSUME NEW m \in Methods, Parses(m), NEW bs, NEW qs,
         ~Refused(m, Path(m), QueryPart(m, qs)),
         NEW h, h = Handler(m, Path(m), QueryPart(m, qs), BodyPart(m, bs))
  PROVE  h.query.handling = "verbatim" \/ AsDocumented(h)
<1> DEFINE query == QueryPart(m, qs)
<1>1. /\ h.method = m /\ h.path = Path(m) /\ h.query = query
      /\ h.payload = Payload(m, Path(m), query, BodyPart(m, bs))
  BY DEF Handler
<1>2. query.handling = "verbatim" \/ (Extracted(query) = {} => query = NoPart)
  BY QueryCases, PartFacts DEF Extracted
<1>3. h.payload = "T {}" => Path(m) = {} /\ Extracted(query) = {}
  BY <1>1 DEF Payload, Builder
<1>4. m.clientStreaming => Path(m) = {} /\ Extracted(query) = {}
  BY DEF Refused
<1> QED
  BY <1>1, <1>2, <1>3, <1>4 DEF AsDocumented

\* EmptyRequestExtractsNothing and ClientStreamingHasNoParams: a build without
\* a query string that is the whole message keeps what the comments say, so
\* that this one case is all that the two findings need.
THEOREM OnlyWholeQueriesEscape ==
    Spec => []((\A h \in handlers : h.query.handling # "verbatim")
                  => EmptyRequestExtractsNothing /\ ClientStreamingHasNoParams)
<1> DEFINE Documented == \A h \in handlers : h.query.handling = "verbatim" \/ AsDocumented(h)
<1>1. Init => Documented
  BY DEF Init
<1>2. ASSUME Documented, [Next]_vars
      PROVE  Documented'
  <2>1. CASE UNCHANGED handlers
    BY <1>2, <2>1 DEF AsDocumented
  <2>2. ASSUME NEW m \in Methods, BindMethod(m)
        PROVE  Documented'
    <3> DEFINE query == QueryPart(m, QueryStructs(m))
               new == Handler(m, Path(m), query, BodyPart(m, BodyStructs(m)))
    <3>1. CASE Refused(m, Path(m), query)
      BY <2>1, <2>2, <3>1 DEF BindMethod
    <3>2. CASE ~Refused(m, Path(m), query)
      <4>1. handlers' = handlers \cup {new}
        BY <2>2, <3>2 DEF BindMethod
      <4>2. new.query.handling = "verbatim" \/ AsDocumented(new)
        BY <2>2, <3>2, DocumentedHandler DEF BindMethod
      <4> QED
        BY <1>2, <4>1, <4>2 DEF AsDocumented
    <3> QED
      BY <3>1, <3>2
  <2> QED
    BY <1>2, <2>1, <2>2 DEF Next, GenerateFunc, SkipMethod, Panic, Over, vars
<1>3. Documented /\ (\A h \in handlers : h.query.handling # "verbatim")
      => EmptyRequestExtractsNothing /\ ClientStreamingHasNoParams
  BY DEF AsDocumented, EmptyRequestExtractsNothing, ClientStreamingHasNoParams
<1> QED
  BY <1>1, <1>2, <1>3, PTL DEF Spec
===============================================================================
