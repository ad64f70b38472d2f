--------------------------- MODULE Generator_proof ----------------------------
(***************************************************************************)
(* Proofs about Generator: for every build, of any files with any services *)
(* in any packages, and for every order in which packages are finalised.   *)
(***************************************************************************)
EXTENDS Generator, SequenceTheorems, WellFoundedInduction, TLAPS

\* A sequence that gets one more element, as the list of modules does.
LEMMA RangeOfAppend ==
  ASSUME NEW s, s \in Seq(Range(s)), NEW x
  PROVE  /\ Range(Append(s, x)) = Range(s) \cup {x}
         /\ Append(s, x) \in Seq(Range(Append(s, x)))
<1> DEFINE S == Range(s) \cup {x}
           t == Append(s, x)
<1>1. s \in Seq(S)
  <2>1. Range(s) \subseteq S
    OBVIOUS
  <2> QED
    BY <2>1
<1>2. /\ t \in Seq(S) /\ Len(t) = Len(s) + 1 /\ t[Len(s) + 1] = x
      /\ \A i \in 1 .. Len(s) : t[i] = s[i]
  BY <1>1, AppendProperties
<1>3. DOMAIN t = 1 .. Len(s) + 1 /\ DOMAIN s = 1 .. Len(s) /\ Len(s) \in Nat
  BY <1>1, <1>2, LenProperties
<1>4. Range(t) = S
  BY <1>2, <1>3 DEF Range
<1> QED
  BY <1>2, <1>4

\* A set of numbers that has a bound has a greatest one.
LEMMA Greatest ==
  ASSUME NEW T, NEW b \in Nat, T \subseteq 0 .. b, T # {}
  PROVE  \E n \in T : \A m \in T : m <= n
<1> DEFINE R == OpToRel(<, Nat)
           D == {b - k : k \in T}
<1>1. D \subseteq Nat /\ D # {}
  <2>1. PICK k \in T : TRUE
    OBVIOUS
  <2>2. b - k \in D
    BY <2>1
  <2>3. \A i \in 0 .. b : b - i \in Nat
    OBVIOUS
  <2> QED
    BY <2>2, <2>3
<1>2. \A m, n \in Nat : m < n => <<m, n>> \in R
  BY DEF OpToRel
<1>3. IsWellFoundedOn(R, Nat)
  BY NatLessThanWellFounded
<1> HIDE DEF R
<1>4. \E n \in D : \A m \in D : ~(<<m, n>> \in R)
  BY <1>1, <1>3, WFMin
<1>5. PICK d \in D : \A m \in D : ~(<<m, d>> \in R)
  BY <1>4
<1>6. PICK n \in T : d = b - n
  OBVIOUS
<1>7. ASSUME NEW m \in T
      PROVE  m <= n
  <2>1. b - m \in D /\ b - m \in Nat /\ d \in Nat
    BY <1>1
  <2>2. ~(b - m < d)
    BY <1>2, <1>5, <2>1
  <2> QED
    BY <1>6, <2>2
<1> QED
  BY <1>7

\* What stays as it was set before the first service.
Setting == /\ files \in Builds
           /\ DOMAIN out = Packages
           /\ modules \in Seq(Range(modules))
           /\ phase \in {"config", "generate", "packages", "done", "failed"}
           /\ phase = "config" => modules = <<>> /\ fileNo = 0
           /\ phase # "config" => options = HttpOptions
           /\ fileNo \in 0 .. Len(files)
           /\ svcNo \in Nat
           /\ fileNo = 0 => svcNo = 0
           /\ fileNo > 0 => svcNo <= Len(File.services) + 1
           /\ phase \in {"packages", "done"} =>
                  fileNo = Len(files) /\ (fileNo > 0 => svcNo = Len(File.services) + 1)

\* A message of a file of the package.
FromMessages(p, name, fields) ==
    \E f \in Range(files) : f.pkg = p /\ name \in DOMAIN f.msgs /\ fields = f.msgs[name]

\* What the code of a package and the table of messages hold, and what the
\* structs are made of, is what files declare.
Sourced ==
    /\ DOMAIN buffers = Packages
    /\ \A p \in Packages : \A n \in DOMAIN buffers[p] : FromMessages(p, n, buffers[p][n])
    /\ \A k \in 1 .. fileNo : DOMAIN files[k].msgs \subseteq DOMAIN buffers[files[k].pkg]
    /\ \A n \in DOMAIN existing : \/ n = Unit /\ existing[n] = {}
                                  \/ \E p \in Packages : FromMessages(p, n, existing[n])
    /\ \A s \in newMessages : \E f \in Range(files) :
           s.msg \in DOMAIN f.msgs /\ s.fields \subseteq f.msgs[s.msg]

\* The services that prost-build has been through.
Passed == {s \in Slots : s[1] < fileNo \/ (s[1] = fileNo /\ s[2] <= svcNo)}

\* What the table has under the name of a service's trait.
Table(service) == IF service.name \in DOMAIN HttpOptions THEN HttpOptions[service.name] ELSE <<>>

\* The module of a service: each handler has the rule that the table has for
\* its method, and the message that its own package declares.
Made(mod, s) ==
    LET service == ServiceAt(s)
        table == Table(service)
    IN /\ mod.service = service
       /\ mod.pkg = PkgAt(s)
       /\ DOMAIN mod.handlers =
              {i \in DOMAIN service.methods : service.methods[i].name \in DOMAIN table}
       /\ \A i \in DOMAIN mod.handlers :
              LET m == service.methods[i]
                  h == mod.handlers[i]
              IN /\ h.method = m
                 /\ h.rule = table[m.name]
                 /\ \/ m.input = Unit /\ h.message = {}
                    \/ FromMessages(PkgAt(s), m.input, h.message)

\* The modules are those of the services passed, in their order, as long as no
\* service has failed, and the structs are the ones the modules need.
InOrder(at) == /\ at \in [DOMAIN modules -> Slots]
               /\ \A i, j \in DOMAIN at : i < j => Before(at[i], at[j])
               /\ \A i \in DOMAIN at : Made(modules[i], at[i])
               /\ phase # "failed" => Range(at) = Passed

Collected == /\ \E at : InOrder(at)
             /\ Needed(Range(modules)) \subseteq newMessages
             /\ phase # "failed" => newMessages = Needed(Range(modules))

\* Packages are written when all modules are there.
PackagesWritten ==
    /\ phase # "packages" /\ phase # "done" => \A p \in Packages : out[p] = NotWritten
    /\ \A p \in Packages : out[p] = NotWritten \/ (out[p] = Written /\ p \in ServedPackages)
    /\ phase = "done" => \A p \in ServedPackages : out[p] # NotWritten

\* The files of a build are a sequence, and so are the services of each.
LEMMA FilesTyped ==
  ASSUME Setting
  PROVE  /\ files \in Seq(Range(files)) /\ Len(files) \in Nat
         /\ DOMAIN files = 1 .. Len(files)
         /\ \A i \in 1 .. Len(files) :
                /\ files[i] \in Range(files)
                /\ files[i].services \in Seq(Range(files[i].services))
                /\ Len(files[i].services) \in Nat
                /\ DOMAIN files[i].services = 1 .. Len(files[i].services)
<1>1. files \in Seq(Range(files))
  BY GeneratorAssumption DEF Setting
<1>2. Len(files) \in Nat /\ DOMAIN files = 1 .. Len(files)
  BY <1>1, LenProperties
<1>3. \A i \in 1 .. Len(files) : files[i] \in Range(files)
  BY <1>2 DEF Range
<1>4. \A f \in Range(files) : f.services \in Seq(Range(f.services))
  BY GeneratorAssumption DEF Setting
<1> QED
  BY <1>1, <1>2, <1>3, <1>4, LenProperties

\* The place of a service is a pair of numbers, and leads to a served package.
LEMMA SlotsTyped ==
  ASSUME Setting
  PROVE  /\ \A s \in Slots :
                /\ s[1] \in 1 .. Len(files) /\ s[2] \in 1 .. Len(files[s[1]].services)
                /\ s = <<s[1], s[2]>>
                /\ files[s[1]] \in Range(files) /\ ServiceAt(s) \in Range(files[s[1]].services)
                /\ PkgAt(s) \in ServedPackages
                /\ ServiceAt(s) \in ServicesOf(PkgAt(s))
         /\ \A i \in 1 .. Len(files) : \A j \in 1 .. Len(files[i].services) : <<i, j>> \in Slots
         /\ ServedPackages \subseteq Packages
<1>1. ASSUME NEW s \in Slots
      PROVE  /\ s[1] \in 1 .. Len(files) /\ s[2] \in 1 .. Len(files[s[1]].services)
             /\ s = <<s[1], s[2]>>
  <2>1. PICK i \in DOMAIN files : s \in {i} \X DOMAIN files[i].services
    BY DEF Slots
  <2> QED
    BY <2>1, FilesTyped
<1>2. ASSUME NEW s \in Slots
      PROVE  /\ files[s[1]] \in Range(files) /\ ServiceAt(s) \in Range(files[s[1]].services)
             /\ PkgAt(s) \in ServedPackages
             /\ ServiceAt(s) \in ServicesOf(PkgAt(s))
  <2>1. s[1] \in 1 .. Len(files) /\ s[2] \in 1 .. Len(files[s[1]].services)
    BY <1>1
  <2>2. files[s[1]] \in Range(files) /\ ServiceAt(s) \in Range(files[s[1]].services)
    BY <2>1, FilesTyped DEF Range, ServiceAt
  <2>3. files[s[1]].services # <<>>
    BY <2>1
  <2> QED
    BY <2>2, <2>3 DEF PkgAt, ServedPackages, Served, ServicesOf
<1>3. ASSUME NEW i \in 1 .. Len(files), NEW j \in 1 .. Len(files[i].services)
      PROVE  <<i, j>> \in Slots
  <2>1. <<i, j>> \in {i} \X DOMAIN files[i].services
    BY FilesTyped
  <2> QED
    BY <2>1, FilesTyped DEF Slots
<1>4. ServedPackages \subseteq Packages
  BY DEF ServedPackages, Packages
<1> QED
  BY <1>1, <1>2, <1>3, <1>4

\* The last service of a name, which the table keeps.
LEMMA LatestIsLast ==
  ASSUME Setting, NEW s \in Slots
  PROVE  LET l == Latest(ServiceAt(s).proto) IN
         /\ l \in Slots /\ ServiceAt(l).proto = ServiceAt(s).proto
         /\ \A q \in Slots : ServiceAt(q).proto = ServiceAt(s).proto => ~Before(l, q)
<1> DEFINE proto == ServiceAt(s).proto
           Namesakes == {q \in Slots : ServiceAt(q).proto = proto}
           Numbers == {q[1] : q \in Namesakes}
<1>1. Numbers \subseteq 0 .. Len(files) /\ Numbers # {} /\ Len(files) \in Nat
  BY SlotsTyped, FilesTyped
<1>2. PICK i \in Numbers : \A k \in Numbers : k <= i
  BY <1>1, Greatest
<1> DEFINE Places == {q[2] : q \in {r \in Namesakes : r[1] = i}}
<1>3. i \in 1 .. Len(files) /\ Len(files[i].services) \in Nat
  BY <1>2, SlotsTyped, FilesTyped
<1>4. Places \subseteq 0 .. Len(files[i].services) /\ Places # {}
  BY <1>2, <1>3, SlotsTyped
<1>5. PICK j \in Places : \A k \in Places : k <= j
  BY <1>3, <1>4, Greatest
<1>6. PICK l \in Namesakes : l[1] = i /\ l[2] = j
  BY <1>5
<1>7. ASSUME NEW q \in Namesakes, Before(l, q)
      PROVE  FALSE
  <2>1. q[1] \in Nat /\ q[2] \in Nat /\ i \in Nat /\ j \in Nat
    <3>1. q \in Slots /\ l \in Slots
      OBVIOUS
    <3> QED
      BY <1>6, <3>1, SlotsTyped, FilesTyped
  <2>2. q[1] <= i
    BY <1>2
  <2>3. q[1] = i => q[2] <= j
    BY <1>5
  <2> QED
    BY <1>6, <1>7, <2>1, <2>2, <2>3 DEF Before
<1>8. \E p \in Slots : /\ ServiceAt(p).proto = proto
                       /\ \A q \in Slots : ServiceAt(q).proto = proto => ~Before(p, q)
  BY <1>6, <1>7
<1> QED
  BY <1>8 DEF Latest

\* Two services of one package are told apart by their names in the files.
LEMMA NamesAreOwn ==
  ASSUME Setting, NEW s \in Slots
  PROVE  \A t \in ServicesOf(PkgAt(s)) : t.proto = ServiceAt(s).proto => t = ServiceAt(s)
<1>1. files[s[1]] \in Range(files) /\ ServiceAt(s) \in Range(files[s[1]].services)
  BY SlotsTyped
<1>2. ASSUME NEW t \in ServicesOf(PkgAt(s)), t.proto = ServiceAt(s).proto
      PROVE  t = ServiceAt(s)
  <2>1. PICK g \in Range(files) : g.pkg = PkgAt(s) /\ t \in Range(g.services)
    BY DEF ServicesOf
  <2>2. \A f \in Range(files) : f.pkg = g.pkg =>
            \A u \in Range(f.services) : \A v \in Range(g.services) : u.proto = v.proto => u = v
    BY GeneratorAssumption DEF Setting
  <2> QED
    BY <1>1, <1>2, <2>1, <2>2 DEF PkgAt
<1> QED
  BY <1>2

\* What the table has for a service that is named alike in its file and its
\* trait, and that no namesake follows.
LEMMA OwnOptions ==
  ASSUME Setting, NEW s \in Slots, ServiceAt(s).proto = ServiceAt(s).name,
         PkgAt(Latest(ServiceAt(s).name)) = PkgAt(s),
         NEW i \in DOMAIN ServiceAt(s).methods
  PROVE  LET m == ServiceAt(s).methods[i]
             table == Table(ServiceAt(s))
         IN /\ m.name \in DOMAIN table <=> m.rule # NoRule
            /\ m.rule # NoRule => table[m.name] = m.rule
<1> DEFINE service == ServiceAt(s)
           m == service.methods[i]
           latest == ServiceAt(Latest(service.name))
           Ruled == {k \in Range(service.methods) : k.rule # NoRule}
           table == Table(service)
<1>1. latest = service
  <2>1. /\ Latest(service.name) \in Slots /\ latest.proto = service.proto
        /\ latest \in ServicesOf(PkgAt(s))
    BY LatestIsLast, SlotsTyped
  <2> QED
    BY <2>1, NamesAreOwn
<1>2. service.name \in {t.proto : t \in Services}
  BY DEF Services
<1>3. table = [n \in {k.name : k \in Ruled} |-> (CHOOSE k \in Ruled : k.name = n).rule]
  BY <1>1, <1>2 DEF HttpOptions, Table
<1>4. \A k \in Range(service.methods) : k.name = m.name => k = m
  <2>1. files[s[1]] \in Range(files) /\ service \in Range(files[s[1]].services)
    BY SlotsTyped
  <2>2. \A j \in DOMAIN service.methods : i # j => m.name # service.methods[j].name
    BY <2>1, GeneratorAssumption DEF Setting
  <2> QED
    BY <2>2 DEF Range
<1>5. m \in Range(service.methods)
  BY DEF Range
<1>6. m.rule # NoRule => m \in Ruled /\ (CHOOSE k \in Ruled : k.name = m.name) = m
  BY <1>4, <1>5
<1> HIDE DEF table
<1>7. m.name \in DOMAIN table <=> m.rule # NoRule
  BY <1>3, <1>4, <1>6
<1>8. m.rule # NoRule => table[m.name] = m.rule
  BY <1>3, <1>6, <1>7
<1> QED
  BY <1>7, <1>8 DEF table

-------------------------------------------------------------------------------
\* The messages a service is generated from, by name.
LEMMA MessagesRead ==
  ASSUME NEW src, NEW n
  PROVE  /\ n \in DOMAIN ParseSource(src) <=> n = Unit \/ n \in DOMAIN src \/ n \in DOMAIN existing
         /\ n = Unit => ParseSource(src)[n] = {}
         /\ n # Unit /\ n \in DOMAIN src => ParseSource(src)[n] = src[n]
         /\ n # Unit /\ n \notin DOMAIN src /\ n \in DOMAIN existing =>
                ParseSource(src)[n] = existing[n]
BY DEF ParseSource, Insert, EmptyRequest

\* The handlers of the service that comes next, if none of its methods fails.
LEMMA HandlersBound ==
  ASSUME Setting, Sourced, phase = "generate", fileNo \in 1 .. Len(files),
         NEW j \in 1 .. Len(File.services),
         \A m \in Range(File.services[j].methods) :
             ~FuncFails(File.services[j], m, ParseSource(buffers[File.pkg]))
  PROVE  LET service == File.services[j]
         IN  Made(Module(service, Handlers(service, ParseSource(buffers[File.pkg]))), <<fileNo, j>>)
<1> DEFINE s == <<fileNo, j>>
           service == File.services[j]
           messages == ParseSource(buffers[File.pkg])
           handlers == Handlers(service, messages)
           table == Table(service)
           mod == Module(service, handlers)
<1>1. /\ s \in Slots /\ ServiceAt(s) = service /\ PkgAt(s) = File.pkg
      /\ File \in Range(files) /\ service \in Range(File.services)
  <2>1. j \in 1 .. Len(files[fileNo].services)
    BY DEF File
  <2>2. s \in Slots
    BY <2>1, SlotsTyped
  <2>3. ServiceAt(s) = service /\ PkgAt(s) = File.pkg
    BY DEF ServiceAt, PkgAt, File
  <2>4. File = files[s[1]]
    BY DEF File
  <2> QED
    BY <2>2, <2>3, <2>4, SlotsTyped
<1>2. OptionsOf(service) = table
  BY DEF Setting, OptionsOf, Table
<1> HIDE DEF table
<1>3. DOMAIN handlers = {i \in DOMAIN service.methods : service.methods[i].name \in DOMAIN table}
  BY <1>2 DEF Handlers, HasOption
<1>4. ASSUME NEW i \in DOMAIN handlers
      PROVE  LET m == service.methods[i]  h == handlers[i] IN
             /\ h.method = m /\ h.rule = table[m.name]
             /\ \/ m.input = Unit /\ h.message = {}
                \/ FromMessages(File.pkg, m.input, h.message)
  <2> DEFINE m == service.methods[i]
             h == handlers[i]
  <2>1. i \in DOMAIN service.methods /\ m \in Range(service.methods)
    BY <1>3 DEF Range
  <2>2. h = Handler(service, m, messages)
    BY DEF Handlers
  <2>3. h.method = m /\ h.rule = table[m.name] /\ h.message = messages[m.input]
    BY <1>2, <2>2 DEF Handler
  <2>4. m.input \in DOMAIN messages
    BY <2>1 DEF FuncFails
  <2>5. CASE m.input = Unit
    BY <2>3, <2>5, MessagesRead
  <2>6. CASE m.input # Unit /\ m.input \in DOMAIN buffers[File.pkg]
    <3>1. messages[m.input] = buffers[File.pkg][m.input]
      BY <2>6, MessagesRead
    <3>2. File.pkg \in Packages
      BY <1>1 DEF Packages
    <3>3. FromMessages(File.pkg, m.input, buffers[File.pkg][m.input])
      BY <2>6, <3>2 DEF Sourced
    <3> QED
      BY <2>3, <3>1, <3>3
  <2>7. CASE m.input # Unit /\ m.input \notin DOMAIN buffers[File.pkg]
    <3>1. m.input \in DOMAIN existing
      BY <2>4, <2>7, MessagesRead
    <3>2. PICK f \in Range(files) : m.input \in DOMAIN f.msgs
      BY <2>7, <3>1 DEF Sourced, FromMessages
    <3>3. \A k \in 1 .. fileNo : files[k].pkg = File.pkg => m.input \notin DOMAIN files[k].msgs
      BY <2>7 DEF Sourced
    <3>4. fileNo \in DOMAIN files /\ service \in Range(files[fileNo].services)
      BY <1>1, FilesTyped DEF File
    <3>5. \A q \in DOMAIN files : \A t \in Range(files[q].services) : \A n \in Range(t.methods) :
             \/ n.input = Unit
             \/ \E k \in 1 .. q : files[k].pkg = files[q].pkg /\ n.input \in DOMAIN files[k].msgs
             \/ \A g \in Range(files) : n.input \notin DOMAIN g.msgs
      BY GeneratorAssumption DEF Setting
    <3>6. \/ \E k \in 1 .. fileNo : files[k].pkg = files[fileNo].pkg /\ m.input \in DOMAIN files[k].msgs
          \/ \A g \in Range(files) : m.input \notin DOMAIN g.msgs
      BY <2>1, <2>7, <3>4, <3>5
    <3> QED
      BY <3>2, <3>3, <3>6 DEF File
  <2> QED
    BY <2>3, <2>5, <2>6, <2>7
<1>5. mod.service = service /\ mod.pkg = File.pkg /\ mod.handlers = handlers
  BY DEF Module
<1> HIDE DEF handlers, table, messages, mod
<1> QED
  <2>1. Made(mod, s)
    BY <1>1, <1>3, <1>4, <1>5 DEF Made, table
  <2> QED
    BY <2>1 DEF mod, handlers, messages

\* The step of one service: nothing is generated, or its module is added.
LEMMA GenerateModule ==
  ASSUME Setting, Sourced, Generate
  PROVE  /\ phase = "generate" /\ fileNo \in 1 .. Len(files) /\ svcNo' = svcNo + 1
         /\ svcNo' \in 1 .. Len(File.services) /\ <<fileNo, svcNo'>> \in Slots
         /\ UNCHANGED <<files, stateTypes, openapi, ws, fileNo, buffers, options, out>>
         /\ existing' = ParseSource(buffers[File.pkg])
         /\ \/ phase' = "failed" /\ UNCHANGED <<modules, newMessages>>
            \/ \E mod :
                   /\ Made(mod, <<fileNo, svcNo'>>)
                   /\ newMessages' = newMessages \cup UNION {Structs(h) : h \in Range(mod.handlers)}
                   /\ \/ phase' = "failed" /\ UNCHANGED modules
                      \/ phase' = "generate" /\ modules' = Append(modules, mod)
<1>1. /\ phase = "generate" /\ fileNo \in 1 .. Len(files) /\ svcNo' = svcNo + 1
      /\ svcNo' \in 1 .. Len(File.services)
  BY FilesTyped DEF Generate, Setting, File
<1>2. UNCHANGED <<files, stateTypes, openapi, ws, fileNo, buffers, options, out>>
  BY DEF Generate, configVars
<1>3. <<fileNo, svcNo'>> \in Slots
  BY <1>1, SlotsTyped DEF File
<1> DEFINE s == File.services[svcNo']
<1>4. existing' = ParseSource(buffers[File.pkg])
  BY DEF Generate
<1>5. CASE RefusedGeneric(s) \/ \E m \in Range(s.methods) : FuncFails(s, m, existing')
  BY <1>1, <1>2, <1>3, <1>4, <1>5 DEF Generate
<1>6. CASE ~(RefusedGeneric(s) \/ \E m \in Range(s.methods) : FuncFails(s, m, existing'))
  <2> DEFINE handlers == Handlers(s, existing')
             mod == Module(s, handlers)
  <2>1. newMessages' = newMessages \cup UNION {Structs(h) : h \in Range(handlers)}
    BY <1>6 DEF Generate
  <2>2. IF RefusedTraitObject(s, handlers)
        THEN phase' = "failed" /\ UNCHANGED modules
        ELSE modules' = Append(modules, mod) /\ UNCHANGED phase
    BY <1>6 DEF Generate
  <2>3. Made(mod, <<fileNo, svcNo'>>)
    BY <1>1, <1>4, <1>6, HandlersBound
  <2>4. mod.handlers = handlers
    BY DEF Module
  <2> HIDE DEF handlers, mod
  <2>5. CASE RefusedTraitObject(s, handlers)
    BY <1>1, <1>2, <1>3, <1>4, <2>1, <2>2, <2>3, <2>4, <2>5
  <2>6. CASE ~RefusedTraitObject(s, handlers)
    BY <1>1, <1>2, <1>3, <1>4, <2>1, <2>2, <2>3, <2>4, <2>6
  <2> QED
    BY <2>5, <2>6
<1> QED
  BY <1>5, <1>6

\* What an action leaves as it was, besides "Generate".
Idle == UNCHANGED <<files, fileNo, svcNo, buffers, existing, newMessages, modules>>

\* A step that generates nothing keeps what was generated so far.
LEMMA Quiet ==
  /\ \A s, type : SetStateType(s, type) =>
         /\ phase = "config" /\ stateTypes' = [stateTypes EXCEPT ![s] = type]
         /\ Idle /\ UNCHANGED <<phase, openapi, ws, options, out>>
  /\ SetFlags => /\ phase = "config" /\ openapi' \in BOOLEAN /\ ws' \in BOOLEAN
                 /\ Idle /\ UNCHANGED <<phase, stateTypes, options, out>>
  /\ CompileFds => /\ phase = "config" /\ phase' = "generate" /\ options' = HttpOptions
                   /\ Idle /\ UNCHANGED <<configVars, out>>
  /\ BeginFile => /\ phase = "generate" /\ FileDone /\ fileNo < Len(files)
                  /\ fileNo' = fileNo + 1 /\ svcNo' = 0
                  /\ LET f == files[fileNo + 1] IN
                     buffers' = [buffers EXCEPT ![f.pkg] = Insert(f.msgs, @)]
                  /\ UNCHANGED <<files, configVars, phase, options, existing, newMessages, modules, out>>
  /\ Finalize => /\ phase = "generate" /\ fileNo > 0 /\ svcNo = Len(File.services)
                 /\ svcNo' = svcNo + 1
                 /\ UNCHANGED <<files, configVars, phase, fileNo, buffers, options, existing,
                                newMessages, modules, out>>
  /\ BeginPackages => /\ phase = "generate" /\ phase' = "packages"
                      /\ FileDone /\ fileNo = Len(files)
                      /\ Idle /\ UNCHANGED <<configVars, options, out>>
  /\ \A p : FinalizePackage(p) =>
         /\ phase = "packages" /\ p \in ServedPackages /\ out' = [out EXCEPT ![p] = Written]
         /\ Idle /\ UNCHANGED <<configVars, phase, options>>
  /\ Finish => /\ phase = "packages" /\ phase' = "done"
               /\ \A p \in ServedPackages : out[p] # NotWritten
               /\ Idle /\ UNCHANGED <<configVars, options, out>>
  /\ Over \/ UNCHANGED vars => Idle /\ UNCHANGED <<configVars, phase, options, out>>
BY DEF SetStateType, SetFlags, CompileFds, BeginFile, Finalize, BeginPackages,
       FinalizePackage, Finish, Over, vars, configVars, genVars, Idle

\* What the rest of a build cannot change.
LEMMA Fixed ==
  ASSUME UNCHANGED files
  PROVE  /\ Packages' = Packages /\ ServedPackages' = ServedPackages /\ Slots' = Slots
         /\ HttpOptions' = HttpOptions
         /\ \A s : ServiceAt(s)' = ServiceAt(s) /\ PkgAt(s)' = PkgAt(s)
         /\ \A mod, s : Made(mod, s)' <=> Made(mod, s)
         /\ \A p, n, fs : FromMessages(p, n, fs)' <=> FromMessages(p, n, fs)
         /\ \A p : ServicesOf(p)' = ServicesOf(p)
         /\ Services' = Services /\ ServiceNames' = ServiceNames
BY DEF Packages, ServedPackages, Served, Slots, HttpOptions, Services, ServiceNames, Latest,
       ServiceAt, PkgAt, Made, Table, FromMessages, ServicesOf, Before

\* The configuration and the options are fixed before the first service.
LEMMA SettingStep ==
  ASSUME Setting, Sourced, [Next]_vars
  PROVE  Setting'
<1> USE DEF Setting
<1>1. CASE \/ SetFlags \/ Over \/ UNCHANGED vars
           \/ \E s \in ServiceNames : \E type \in {"custom", "generic"} : SetStateType(s, type)
  <2>1. Idle /\ UNCHANGED <<phase, options, out>>
    BY <1>1, Quiet
  <2> QED
    BY <2>1, Fixed DEF Idle, File
<1>2. CASE CompileFds
  BY <1>2, Quiet, Fixed DEF Idle, File
<1>3. CASE BeginFile
  <2>1. /\ UNCHANGED <<files, phase, options, modules, out>> /\ phase = "generate"
        /\ fileNo < Len(files) /\ fileNo' = fileNo + 1 /\ svcNo' = 0
    BY <1>3, Quiet
  <2>2. Len(files) \in Nat /\ Len(files[fileNo'].services) \in Nat
    BY <2>1, FilesTyped
  <2> QED
    BY <2>1, <2>2, Fixed DEF File
<1>4. CASE Finalize
  <2>1. /\ phase = "generate" /\ fileNo > 0 /\ svcNo = Len(File.services) /\ svcNo' = svcNo + 1
        /\ UNCHANGED <<files, phase, fileNo, options, modules, out>>
    BY <1>4, Quiet
  <2>2. Len(File.services) \in Nat
    BY <2>1, FilesTyped DEF File
  <2> QED
    BY <2>1, <2>2, Fixed DEF File
<1>5. CASE BeginPackages
  <2>1. /\ phase = "generate" /\ phase' = "packages" /\ FileDone /\ fileNo = Len(files)
        /\ UNCHANGED <<files, fileNo, svcNo, options, modules, out>>
    BY <1>5, Quiet DEF Idle
  <2> QED
    BY <2>1, Fixed DEF FileDone, File
<1>6. CASE \E p \in Packages : FinalizePackage(p)
  <2>1. PICK p \in Packages : FinalizePackage(p)
    BY <1>6
  <2>2. DOMAIN out' = Packages /\ UNCHANGED <<files, phase, fileNo, svcNo, options, modules>>
    BY <2>1, Quiet DEF Idle
  <2> QED
    BY <2>2, Fixed DEF File
<1>7. CASE Finish
  BY <1>7, Quiet, Fixed DEF Idle, File
<1>8. CASE Generate
  <2>1. /\ phase = "generate" /\ phase' \in {"generate", "failed"}
        /\ fileNo \in 1 .. Len(files) /\ svcNo' \in 1 .. Len(File.services)
        /\ UNCHANGED <<files, fileNo, options, out>>
        /\ modules' = modules \/ \E x : modules' = Append(modules, x)
    BY <1>8, GenerateModule
  <2>2. modules' \in Seq(Range(modules'))
    BY <2>1, RangeOfAppend
  <2>3. Len(File.services) \in Nat
    BY <2>1, FilesTyped DEF File
  <2> QED
    BY <2>1, <2>2, <2>3, Fixed DEF File
<1> QED
  BY <1>1, <1>2, <1>3, <1>4, <1>5, <1>6, <1>7, <1>8 DEF Next

\* A struct is made of fields of the message that its handler is bound to.
LEMMA StructsDeclared ==
  ASSUME NEW mod, NEW s, Made(mod, s), NEW h \in Range(mod.handlers), NEW t \in Structs(h)
  PROVE  \E f \in Range(files) : t.msg \in DOMAIN f.msgs /\ t.fields \subseteq f.msgs[t.msg]
<1>1. PICK i \in DOMAIN mod.handlers : h = mod.handlers[i]
  BY DEF Range
<1>2. \/ h.message = {}
      \/ FromMessages(PkgAt(s), h.method.input, h.message)
  BY <1>1 DEF Made
<1>3. t.msg = h.method.input /\ t.fields = Left(h) /\ Left(h) # h.message
  BY DEF Structs
<1>4. Left(h) \subseteq h.message /\ h.message # {}
  BY <1>3 DEF Left
<1> QED
  BY <1>2, <1>3, <1>4 DEF FromMessages

\* Reading the code of a package, again and again, adds declared messages only.
LEMMA SourcedStep ==
  ASSUME Setting, Sourced, [Next]_vars
  PROVE  Sourced'
<1>1. ASSUME UNCHANGED <<files, fileNo, buffers, existing, newMessages>>
      PROVE  Sourced'
  BY <1>1, Fixed DEF Sourced
<1>2. CASE BeginFile
  <2> DEFINE f == files[fileNo + 1]
  <2>1. /\ fileNo' = fileNo + 1 /\ fileNo < Len(files) /\ UNCHANGED <<files, existing, newMessages>>
        /\ buffers' = [buffers EXCEPT ![f.pkg] = Insert(f.msgs, @)]
    BY <1>2, Quiet
  <2>2. f \in Range(files) /\ f.pkg \in Packages
    <3>1. fileNo + 1 \in 1 .. Len(files)
      BY <2>1, FilesTyped DEF Setting
    <3> QED
      BY <3>1, FilesTyped DEF Packages
  <2>3. /\ DOMAIN buffers' = Packages
        /\ buffers'[f.pkg] = Insert(f.msgs, buffers[f.pkg])
        /\ \A p \in Packages : p # f.pkg => buffers'[p] = buffers[p]
    BY <2>1, <2>2 DEF Sourced
  <2>4. ASSUME NEW p \in Packages, NEW n \in DOMAIN buffers'[p]
        PROVE  FromMessages(p, n, buffers'[p][n])
    <3>1. CASE p # f.pkg
      BY <2>3, <2>4, <3>1 DEF Sourced
    <3>2. CASE p = f.pkg /\ n \in DOMAIN f.msgs
      <4>1. buffers'[p][n] = f.msgs[n]
        BY <2>3, <3>2 DEF Insert
      <4> QED
        BY <2>2, <3>2, <4>1 DEF FromMessages
    <3>3. CASE p = f.pkg /\ n \notin DOMAIN f.msgs
      <4>1. n \in DOMAIN buffers[p] /\ buffers'[p][n] = buffers[p][n]
        BY <2>3, <2>4, <3>3 DEF Insert
      <4> QED
        BY <2>2, <4>1 DEF Sourced
    <3> QED
      BY <3>1, <3>2, <3>3
  <2>5. ASSUME NEW k \in 1 .. fileNo + 1
        PROVE  DOMAIN files[k].msgs \subseteq DOMAIN buffers'[files[k].pkg]
    <3>1. CASE k = fileNo + 1
      BY <2>3, <3>1 DEF Insert
    <3>2. CASE k \in 1 .. fileNo
      <4>1. files[k].pkg \in Packages
        <5>1. k \in 1 .. Len(files)
          BY <3>2, FilesTyped DEF Setting
        <5> QED
          BY <5>1, FilesTyped DEF Packages
      <4>2. DOMAIN files[k].msgs \subseteq DOMAIN buffers[files[k].pkg]
        BY <3>2 DEF Sourced
      <4>3. DOMAIN buffers[files[k].pkg] \subseteq DOMAIN buffers'[files[k].pkg]
        BY <2>3, <4>1 DEF Insert
      <4> QED
        BY <4>2, <4>3
    <3> QED
      BY <3>1, <3>2 DEF Setting
  <2> QED
    BY <2>1, <2>3, <2>4, <2>5, Fixed DEF Sourced
<1>3. CASE Generate
  <2>1. /\ UNCHANGED <<files, fileNo, buffers>> /\ fileNo \in 1 .. Len(files)
        /\ existing' = ParseSource(buffers[File.pkg])
        /\ \/ newMessages' = newMessages
           \/ \E mod : /\ Made(mod, <<fileNo, svcNo'>>)
                       /\ newMessages' = newMessages \cup UNION {Structs(h) : h \in Range(mod.handlers)}
    BY <1>3, GenerateModule
  <2>2. File.pkg \in Packages
    BY <2>1, FilesTyped DEF File, Packages
  <2>3. ASSUME NEW n \in DOMAIN existing'
        PROVE  \/ n = Unit /\ existing'[n] = {}
               \/ \E p \in Packages : FromMessages(p, n, existing'[n])
    <3> DEFINE src == buffers[File.pkg]
    <3>1. CASE n = Unit
      BY <2>1, <3>1, MessagesRead
    <3>2. CASE n # Unit /\ n \in DOMAIN src
      <4>1. existing'[n] = src[n]
        BY <2>1, <3>2, MessagesRead
      <4>2. FromMessages(File.pkg, n, src[n])
        BY <2>2, <3>2 DEF Sourced
      <4> QED
        BY <2>2, <4>1, <4>2
    <3>3. CASE n # Unit /\ n \notin DOMAIN src
      <4>1. n \in DOMAIN existing /\ existing'[n] = existing[n]
        BY <2>1, <2>3, <3>3, MessagesRead
      <4> QED
        BY <3>3, <4>1 DEF Sourced
    <3> QED
      BY <3>1, <3>2, <3>3
  <2>4. ASSUME NEW t \in newMessages'
        PROVE  \E f \in Range(files) : t.msg \in DOMAIN f.msgs /\ t.fields \subseteq f.msgs[t.msg]
    BY <2>1, <2>4, StructsDeclared DEF Sourced
  <2> QED
    BY <2>1, <2>3, <2>4, Fixed DEF Sourced
<1>4. CASE \/ CompileFds \/ Finalize \/ BeginPackages \/ Finish \/ Over \/ UNCHANGED vars
           \/ SetFlags \/ \E p \in Packages : FinalizePackage(p)
           \/ \E s \in ServiceNames : \E type \in {"custom", "generic"} : SetStateType(s, type)
  BY <1>1, <1>4, Quiet DEF Idle
<1> QED
  BY <1>2, <1>3, <1>4 DEF Next

\* The structs of one more module.
LEMMA NeededAdds ==
  ASSUME NEW mods, NEW mod
  PROVE  Needed(mods \cup {mod}) = Needed(mods) \cup UNION {Structs(h) : h \in Range(mod.handlers)}
<1> DEFINE new == UNION {Structs(h) : h \in Range(mod.handlers)}
<1>1. ASSUME NEW x \in Needed(mods \cup {mod})
      PROVE  x \in Needed(mods) \cup new
  <2>1. PICK m \in mods \cup {mod} : \E h \in Range(m.handlers) : x \in Structs(h)
    BY DEF Needed
  <2> QED
    BY <2>1 DEF Needed
<1>2. Needed(mods) \cup new \subseteq Needed(mods \cup {mod})
  BY DEF Needed
<1> QED
  BY <1>1, <1>2

\* generate adds the module of the next service, and its structs, or fails.
LEMMA CollectedStep ==
  ASSUME Setting, Sourced, Collected, [Next]_vars
  PROVE  Collected'
<1>1. ASSUME UNCHANGED <<files, modules, newMessages>>, Passed' = Passed,
             phase' # "failed" => phase # "failed"
      PROVE  Collected'
  <2>1. PICK at : InOrder(at)
    BY DEF Collected
  <2>2. InOrder(at)'
    BY <1>1, <2>1, Fixed DEF InOrder
  <2> QED
    BY <1>1, <2>2 DEF Collected
<1>2. CASE \/ SetFlags \/ CompileFds \/ BeginPackages \/ Finish \/ Over \/ UNCHANGED vars
           \/ \E p \in Packages : FinalizePackage(p)
           \/ \E s \in ServiceNames : \E type \in {"custom", "generic"} : SetStateType(s, type)
  <2>1. Idle /\ (phase' # "failed" => phase # "failed")
    BY <1>2, Quiet
  <2>2. Passed' = Passed
    BY <2>1, Fixed DEF Passed, Idle
  <2> QED
    BY <1>1, <2>1, <2>2 DEF Idle
<1>3. CASE BeginFile
  <2>1. /\ phase = "generate" /\ UNCHANGED <<files, phase, newMessages, modules>>
        /\ FileDone /\ fileNo' = fileNo + 1 /\ svcNo' = 0
    BY <1>3, Quiet
  <2>2. \A s \in Slots : s[1] < fileNo + 1 \/ (s[1] = fileNo + 1 /\ s[2] <= 0)
                         <=> s[1] < fileNo \/ (s[1] = fileNo /\ s[2] <= svcNo)
    <3>1. SUFFICES ASSUME NEW s \in Slots
                   PROVE  s[1] < fileNo + 1 \/ (s[1] = fileNo + 1 /\ s[2] <= 0)
                          <=> s[1] < fileNo \/ (s[1] = fileNo /\ s[2] <= svcNo)
      OBVIOUS
    <3>2. /\ s[1] \in 1 .. Len(files) /\ s[2] \in 1 .. Len(files[s[1]].services)
          /\ Len(files[s[1]].services) \in Nat
      BY SlotsTyped, FilesTyped
    <3>3. s[1] = fileNo => svcNo = Len(files[s[1]].services) + 1
      BY <2>1, <3>2 DEF FileDone, File
    <3> QED
      BY <3>2, <3>3 DEF Setting
  <2>3. Passed' = Passed
    BY <2>1, <2>2, Fixed DEF Passed
  <2> QED
    BY <1>1, <2>1, <2>3
<1>4. CASE Finalize
  <2>1. /\ phase = "generate" /\ UNCHANGED <<files, phase, fileNo, newMessages, modules>>
        /\ svcNo = Len(File.services) /\ svcNo' = svcNo + 1
    BY <1>4, Quiet
  <2>2. \A s \in Slots : s[1] < fileNo \/ (s[1] = fileNo /\ s[2] <= svcNo + 1)
                         <=> s[1] < fileNo \/ (s[1] = fileNo /\ s[2] <= svcNo)
    <3>1. SUFFICES ASSUME NEW s \in Slots, s[1] = fileNo
                   PROVE  s[2] <= svcNo + 1 <=> s[2] <= svcNo
      OBVIOUS
    <3>2. s[2] \in 1 .. svcNo /\ svcNo \in Nat
      BY <2>1, <3>1, SlotsTyped DEF File, Setting
    <3> QED
      BY <3>2
  <2>3. Passed' = Passed
    BY <2>1, <2>2, Fixed DEF Passed
  <2> QED
    BY <1>1, <2>1, <2>3
<1>5. CASE Generate
  <2> DEFINE new == <<fileNo, svcNo'>>
  <2>1. /\ phase = "generate" /\ fileNo \in 1 .. Len(files) /\ svcNo' = svcNo + 1
        /\ svcNo' \in 1 .. Len(File.services) /\ new \in Slots /\ UNCHANGED <<files, fileNo>>
    BY <1>5, GenerateModule
  <2>2. PICK at : InOrder(at)
    BY DEF Collected
  <2>3. CASE phase' = "failed" /\ UNCHANGED modules
    <3>1. newMessages \subseteq newMessages'
      BY <1>5, GenerateModule
    <3>2. InOrder(at)'
      BY <2>1, <2>2, <2>3, Fixed DEF InOrder
    <3> QED
      BY <2>3, <3>1, <3>2 DEF Collected
  <2>4. CASE \E mod :
                 /\ phase' = "generate" /\ modules' = Append(modules, mod)
                 /\ Made(mod, new)
                 /\ newMessages' = newMessages \cup UNION {Structs(h) : h \in Range(mod.handlers)}
    <3>1. PICK mod : /\ phase' = "generate" /\ modules' = Append(modules, mod)
                     /\ Made(mod, new)
                     /\ newMessages' = newMessages \cup UNION {Structs(h) : h \in Range(mod.handlers)}
      BY <2>4
    <3>2. PICK n : n = Len(modules)
      OBVIOUS
    <3>3. PICK at2 : at2 = [i \in 1 .. n + 1 |-> IF i \in 1 .. n THEN at[i] ELSE new]
      OBVIOUS
    <3>4. /\ n \in Nat /\ DOMAIN modules = 1 .. n /\ modules \in Seq(Range(modules))
          /\ DOMAIN modules' = 1 .. n + 1
          /\ \A i \in 1 .. n : modules'[i] = modules[i]
          /\ modules'[n + 1] = mod
      <4>1. modules \in Seq(Range(modules) \cup {mod})
        BY DEF Setting
      <4> QED
        BY <3>1, <3>2, <4>1, AppendProperties DEF Setting
    <3>5. /\ at \in [1 .. n -> Slots] /\ Range(at) = Passed
          /\ \A i, j \in 1 .. n : i < j => Before(at[i], at[j])
          /\ \A i \in 1 .. n : Made(modules[i], at[i])
      BY <2>1, <2>2, <3>4 DEF InOrder
    <3>6. \A s \in Passed : s \in Slots /\ Before(s, new)
      <4>1. \A s \in Slots : s[1] \in Nat /\ s[2] \in Nat
        BY SlotsTyped, FilesTyped
      <4> QED
        BY <2>1, <4>1 DEF Passed, Before, Setting
    <3>7. Passed' = Passed \cup {new}
      <4>1. ASSUME NEW s \in Slots
            PROVE  s[1] < fileNo \/ (s[1] = fileNo /\ s[2] <= svcNo + 1)
                   <=> s[1] < fileNo \/ (s[1] = fileNo /\ s[2] <= svcNo) \/ s = new
        <5>1. s[1] \in Nat /\ s[2] \in Nat /\ s = <<s[1], s[2]>>
          BY SlotsTyped, FilesTyped
        <5> QED
          BY <2>1, <5>1 DEF Setting
      <4>2. Passed' = {s \in Slots : s[1] < fileNo \/ (s[1] = fileNo /\ s[2] <= svcNo + 1)}
        BY <2>1, Fixed DEF Passed
      <4> QED
        BY <2>1, <4>1, <4>2 DEF Passed
    <3>8. at2 \in [DOMAIN modules' -> Slots]
      BY <2>1, <3>3, <3>4, <3>5
    <3>9. ASSUME NEW i \in 1 .. n + 1, NEW j \in 1 .. n + 1, i < j
          PROVE  Before(at2[i], at2[j])
      <4>1. i \in 1 .. n
        BY <3>4, <3>9
      <4>2. CASE j \in 1 .. n
        BY <3>3, <3>5, <3>9, <4>1, <4>2
      <4>3. CASE j = n + 1
        <5>1. at[i] \in Passed
          BY <3>5, <4>1 DEF Range
        <5>2. at2[i] = at[i] /\ at2[j] = new
          BY <3>3, <3>4, <4>1, <4>3
        <5> QED
          BY <3>6, <5>1, <5>2
      <4> QED
        BY <3>4, <4>2, <4>3
    <3>10. ASSUME NEW i \in 1 .. n + 1
          PROVE  Made(modules'[i], at2[i])
      BY <3>3, <3>1, <3>4, <3>5
    <3>11. Range(at2) = Passed \cup {new}
      <4>1. Range(at) = {at[i] : i \in 1 .. n}
        BY <3>5 DEF Range
      <4>2. Range(at2) = {at2[i] : i \in 1 .. n + 1}
        BY <3>3 DEF Range
      <4>3. \A i \in 1 .. n + 1 : i \in 1 .. n \/ i = n + 1
        BY <3>4
      <4>4. n + 1 \notin 1 .. n /\ 1 .. n \subseteq 1 .. n + 1 /\ n + 1 \in 1 .. n + 1
        BY <3>4
      <4> QED
        BY <3>3, <3>5, <4>1, <4>2, <4>3, <4>4
    <3>12. InOrder(at2)'
      <4>1. at2 \in [DOMAIN modules' -> Slots'] /\ Range(at2) = Passed'
        BY <2>1, <3>7, <3>8, <3>11, Fixed
      <4>2. DOMAIN at2 = 1 .. n + 1
        BY <3>4, <3>8
      <4>3. \A i \in DOMAIN at2 : Made(modules'[i], at2[i])
        BY <3>10, <4>2
      <4>4. \A mod2, s : Made(mod2, s)' <=> Made(mod2, s)
        BY <2>1, Fixed
      <4>5. \A i \in DOMAIN at2 : Made(modules[i], at2[i])'
        BY <4>3, <4>4
      <4>6. \A i, j \in DOMAIN at2 : i < j => Before(at2[i], at2[j])
        BY <3>9, <4>2
      <4> QED
        BY <4>1, <4>5, <4>6 DEF InOrder
    <3>13. Range(modules') = Range(modules) \cup {mod}
      BY <3>1, RangeOfAppend DEF Setting
    <3>14. newMessages' = Needed(Range(modules'))
      BY <2>1, <3>1, <3>13, NeededAdds DEF Collected
    <3>15. Needed(Range(modules))' = Needed(Range(modules'))
      BY DEF Needed
    <3> QED
      BY <3>12, <3>14, <3>15 DEF Collected
  <2> QED
    BY <1>5, <2>3, <2>4, GenerateModule
<1> QED
  BY <1>2, <1>3, <1>4, <1>5 DEF Next

\* finalize_package writes what there is, and nothing is added after it.
LEMMA WrittenStep ==
  ASSUME Setting, Sourced, PackagesWritten, [Next]_vars
  PROVE  PackagesWritten'
<1>1. ASSUME UNCHANGED <<files, phase, newMessages, modules, out>>
      PROVE  PackagesWritten'
  BY <1>1, Fixed DEF PackagesWritten, Written
<1>2. CASE CompileFds \/ BeginPackages \/ Finish
  BY <1>2, Quiet, Fixed DEF PackagesWritten, Written, Idle
<1>3. CASE Generate
  <2>1. /\ phase = "generate" /\ phase' \in {"generate", "failed"} /\ UNCHANGED <<files, out>>
    BY <1>3, GenerateModule
  <2> QED
    BY <2>1, Fixed DEF PackagesWritten
<1>4. CASE \E p \in Packages : FinalizePackage(p)
  <2>1. PICK p \in Packages : FinalizePackage(p)
    BY <1>4
  <2>2. /\ phase = "packages" /\ p \in ServedPackages /\ out' = [out EXCEPT ![p] = Written]
        /\ UNCHANGED <<files, phase, newMessages, modules>>
    BY <2>1, Quiet DEF Idle
  <2> QED
    BY <2>2, Fixed DEF PackagesWritten, Written, Setting
<1>5. CASE \/ BeginFile \/ Finalize \/ SetFlags \/ Over \/ UNCHANGED vars
           \/ \E s \in ServiceNames : \E type \in {"custom", "generic"} : SetStateType(s, type)
  BY <1>1, <1>5, Quiet DEF Idle
<1> QED
  BY <1>2, <1>3, <1>4, <1>5 DEF Next

\* The inductive invariant holds of every build.
THEOREM GeneratorInductive == Spec => [](Setting /\ Sourced /\ Collected /\ PackagesWritten)
<1>1. Init => Setting /\ Sourced /\ Collected /\ PackagesWritten
  <2>1. SUFFICES ASSUME Init PROVE Setting /\ Sourced /\ Collected /\ PackagesWritten
    OBVIOUS
  <2>2. /\ files \in Builds /\ phase = "config" /\ fileNo = 0 /\ svcNo = 0 /\ modules = <<>>
        /\ newMessages = {} /\ out = [p \in Packages |-> NotWritten] /\ existing = <<>>
        /\ buffers = [p \in Packages |-> <<>>]
    BY <2>1 DEF Init
  <2>3. files \in Seq(Range(files)) /\ Len(files) \in Nat
    BY <2>2, GeneratorAssumption, LenProperties
  <2>4. Range(modules) = {} /\ modules \in Seq(Range(modules)) /\ DOMAIN modules = {}
    BY <2>2 DEF Range
  <2>5. Setting
    BY <2>2, <2>3, <2>4 DEF Setting
  <2>6. Sourced
    BY <2>2 DEF Sourced
  <2>7. Passed = {}
    BY <2>2, <2>5, SlotsTyped, FilesTyped DEF Passed
  <2>8. InOrder(<<>>)
    BY <2>2, <2>4, <2>7 DEF InOrder, Range
  <2>9. Needed(Range(modules)) = {}
    BY <2>4 DEF Needed
  <2> QED
    <3>1. \E at : InOrder(at)
      BY <2>8
    <3>2. Collected
      BY <2>2, <2>9, <3>1 DEF Collected
    <3>3. PackagesWritten
      BY <2>2 DEF PackagesWritten
    <3> QED
      BY <2>5, <2>6, <3>2, <3>3
<1>2. Setting /\ Sourced /\ Collected /\ PackagesWritten /\ [Next]_vars
      => Setting' /\ Sourced' /\ Collected' /\ PackagesWritten'
  BY SettingStep, SourcedStep, CollectedStep, WrittenStep
<1> QED
  BY <1>1, <1>2, PTL DEF Spec

\* Each module is that of a service of the build.
LEMMA ModuleMade ==
  ASSUME Setting, Collected, NEW mod \in Range(modules)
  PROVE  \E s \in Slots : Made(mod, s)
<1>1. PICK at : InOrder(at)
  BY DEF Collected
<1>2. PICK i \in DOMAIN modules : mod = modules[i]
  BY DEF Range
<1> QED
  BY <1>1, <1>2 DEF InOrder

\* What the setters of the builder and the option table may hold.
Configured == /\ stateTypes \in [ServiceNames -> {"trait", "custom", "generic"}]
              /\ openapi \in BOOLEAN /\ ws \in BOOLEAN
              /\ DOMAIN options \subseteq {s.proto : s \in Services}

\* GeneratorTypeOK: whatever is put into a table, a list or the code of a
\* package comes from the files of the build.
THEOREM GeneratorTypes == Spec => []GeneratorTypeOK
<1>1. Init => Configured
  <2>1. SUFFICES ASSUME Init PROVE Configured
    OBVIOUS
  <2>2. /\ stateTypes = [s \in ServiceNames |-> "trait"]
        /\ openapi = FALSE /\ ws = FALSE /\ options = <<>>
    BY <2>1 DEF Init, DefaultConfig
  <2>3. stateTypes \in [ServiceNames -> {"trait", "custom", "generic"}]
    BY <2>2
  <2>4. openapi \in BOOLEAN /\ ws \in BOOLEAN
    BY <2>2
  <2>5. options = <<>>
    BY <2>2
  <2>6. DOMAIN options \subseteq {s.proto : s \in Services}
    BY <2>5
  <2> QED
    BY <2>3, <2>4, <2>6 DEF Configured
<1>2. ASSUME Configured, Setting, Sourced, [Next]_vars
      PROVE  Configured'
  <2>1. CASE \E s \in ServiceNames : \E type \in {"custom", "generic"} : SetStateType(s, type)
    BY <1>2, <2>1, Quiet, Fixed DEF Configured, Idle
  <2>2. CASE SetFlags
    BY <1>2, <2>2, Quiet, Fixed DEF Configured, Idle
  <2>3. CASE CompileFds
    <3>1. DOMAIN HttpOptions = {s.proto : s \in Services}
      BY DEF HttpOptions
    <3> QED
      BY <1>2, <2>3, <3>1, Quiet, Fixed DEF Configured, Idle, configVars
  <2>4. CASE \/ BeginFile \/ Finalize \/ BeginPackages \/ Finish \/ Over \/ UNCHANGED vars
             \/ \E p \in Packages : FinalizePackage(p)
    <3>1. UNCHANGED <<files, configVars, options>>
      BY <2>4, Quiet DEF Idle
    <3> QED
      BY <1>2, <3>1, Fixed DEF Configured, configVars
  <2>5. CASE Generate
    BY <1>2, <2>5, GenerateModule, Fixed DEF Configured
  <2> QED
    BY <1>2, <2>1, <2>2, <2>3, <2>4, <2>5 DEF Next
<1>3. ASSUME Configured, Setting, Sourced, Collected, PackagesWritten
      PROVE  GeneratorTypeOK
  <2>1. svcNo \in 0 .. (IF fileNo = 0 THEN 0 ELSE Len(File.services) + 1)
    <3>1. fileNo > 0 => Len(File.services) \in Nat
      BY <1>3, FilesTyped DEF Setting, File
    <3> QED
      BY <1>3, <3>1, FilesTyped DEF Setting
  <2>2. ASSUME NEW s \in newMessages
        PROVE  s.fields \subseteq UNION {f.msgs[s.msg] :
                   f \in {g \in Range(files) : s.msg \in DOMAIN g.msgs}}
    <3>1. PICK f \in Range(files) : s.msg \in DOMAIN f.msgs /\ s.fields \subseteq f.msgs[s.msg]
      BY <1>3 DEF Sourced
    <3> QED
      BY <3>1
  <2>3. ASSUME NEW m \in Range(modules)
        PROVE  m.service \in Services /\ m.pkg \in ServedPackages
    <3>1. PICK s \in Slots : Made(m, s)
      BY <1>3, ModuleMade
    <3> QED
      BY <1>3, <3>1, SlotsTyped DEF Made, Services
  <2>4. ASSUME NEW p \in Packages, out[p] # NotWritten
        PROVE  p \in ServedPackages /\ out[p].structs \subseteq newMessages
    BY <1>3, <2>4 DEF PackagesWritten, Written
  <2>5. fileNo \in 0 .. Len(files) /\ DOMAIN buffers = Packages
    BY <1>3 DEF Setting, Sourced
  <2>6. phase \in {"config", "generate", "packages", "done", "failed"}
    BY <1>3 DEF Setting
  <2> QED
    BY <1>3, <2>1, <2>2, <2>3, <2>4, <2>5, <2>6 DEF GeneratorTypeOK, Configured
<1> QED
  BY <1>1, <1>2, <1>3, GeneratorInductive, PTL DEF Spec

\* When all is done the modules are those of all services.
LEMMA AllPassed ==
  ASSUME Setting, phase \in {"packages", "done"}
  PROVE  Passed = Slots
<1>1. fileNo = Len(files) /\ (fileNo > 0 => svcNo = Len(File.services) + 1) /\ Len(files) \in Nat
  BY FilesTyped DEF Setting
<1>2. ASSUME NEW s \in Slots
      PROVE  s[1] < fileNo \/ (s[1] = fileNo /\ s[2] <= svcNo)
  <2>1. /\ s[1] \in 1 .. Len(files) /\ s[2] \in 1 .. Len(files[s[1]].services)
        /\ Len(files[s[1]].services) \in Nat
    BY SlotsTyped, FilesTyped
  <2> QED
    BY <1>1, <2>1 DEF File
<1> QED
  BY <1>2 DEF Passed

\* PackagesComplete: the code of each package has the module of each of its
\* services and the structs these take apart, however many files and packages
\* there are, and whichever package is finalised first.
THEOREM EveryPackageComplete == Spec => []PackagesComplete
<1>1. ASSUME Setting, Collected, PackagesWritten
      PROVE  PackagesComplete
  <2>1. SUFFICES ASSUME phase = "done", NEW p \in ServedPackages
                 PROVE  LET own == {m \in Range(out[p].modules) : m.pkg = p} IN
                        /\ ServicesOf(p) = {m.service : m \in own}
                        /\ Needed(own) \subseteq out[p].structs
    BY DEF PackagesComplete
  <2>2. p \in Packages
    BY DEF ServedPackages, Packages
  <2>3. out[p].modules = modules /\ out[p].structs = newMessages
    BY <1>1, <2>1, <2>2 DEF PackagesWritten, Written
  <2> DEFINE own == {m \in Range(modules) : m.pkg = p}
  <2>4. Needed(own) \subseteq newMessages
    BY <1>1 DEF Collected, Needed
  <2>5. ASSUME NEW m \in own
        PROVE  m.service \in ServicesOf(p)
    <3>1. PICK s \in Slots : Made(m, s)
      BY <1>1, ModuleMade
    <3> QED
      BY <1>1, <3>1, SlotsTyped DEF Made
  <2>6. ASSUME NEW s \in ServicesOf(p)
        PROVE  \E m \in own : m.service = s
    <3>1. PICK f \in Range(files) : f.pkg = p /\ s \in Range(f.services)
      BY DEF ServicesOf
    <3>2. PICK i \in 1 .. Len(files) : f = files[i]
      BY <1>1, FilesTyped DEF Range
    <3>3. PICK j \in 1 .. Len(files[i].services) : s = files[i].services[j]
      BY <1>1, <3>1, <3>2, FilesTyped DEF Range
    <3>4. PICK slot \in Slots : slot = <<i, j>>
      BY <1>1, SlotsTyped
    <3>5. ServiceAt(slot) = s /\ PkgAt(slot) = p
      BY <3>1, <3>2, <3>3, <3>4 DEF ServiceAt, PkgAt
    <3>6. PICK at : InOrder(at)
      BY <1>1 DEF Collected
    <3>7. PICK k \in DOMAIN modules : at[k] = slot
      <4>1. Range(at) = Slots /\ DOMAIN at = DOMAIN modules
        BY <1>1, <2>1, <3>6, AllPassed DEF InOrder
      <4> QED
        BY <4>1 DEF Range
    <3>8. Made(modules[k], slot)
      BY <3>6, <3>7 DEF InOrder
    <3> QED
      BY <3>5, <3>8 DEF Made, Range
  <2> QED
    BY <2>3, <2>4, <2>5, <2>6
<1> QED
  BY <1>1, GeneratorInductive, PTL

\* OnePackageExact: the code of a package that is alone has the module of each
\* service once, in the order of the services, and no struct besides those
\* that its modules take apart.
THEOREM OnePackageIsExact == Spec => []OnePackageExact
<1>1. ASSUME Setting, Collected, PackagesWritten
      PROVE  OnePackageExact
  <2>1. SUFFICES ASSUME phase = "done", NEW p \in ServedPackages
                 PROVE  /\ \E at \in [DOMAIN out[p].modules -> Slots] :
                              /\ Range(at) = Slots
                              /\ \A i, j \in DOMAIN at : i < j => Before(at[i], at[j])
                              /\ \A i \in DOMAIN at :
                                     /\ out[p].modules[i].service = ServiceAt(at[i])
                                     /\ out[p].modules[i].pkg = PkgAt(at[i])
                        /\ out[p].structs = Needed(Range(out[p].modules))
    BY DEF OnePackageExact
  <2>2. out[p].modules = modules /\ out[p].structs = newMessages
    BY <1>1, <2>1 DEF PackagesWritten, Written, ServedPackages, Packages
  <2>3. PICK at : InOrder(at)
    BY <1>1 DEF Collected
  <2>4. Range(at) = Slots
    BY <1>1, <2>1, <2>3, AllPassed DEF InOrder
  <2>5. newMessages = Needed(Range(modules))
    BY <1>1, <2>1 DEF Collected
  <2> QED
    BY <2>2, <2>3, <2>4, <2>5 DEF InOrder, Made
<1> QED
  BY <1>1, GeneratorInductive, PTL

\* MessageIsOwn: a handler is bound to the message its own package declares,
\* although the table of messages forgets which package a message came from.
THEOREM MessagesAreOwn == Spec => []MessageIsOwn
<1>1. ASSUME Setting, Collected
      PROVE  MessageIsOwn
  <2>1. SUFFICES ASSUME NEW mod \in Range(modules), NEW h \in Range(mod.handlers)
                 PROVE  \/ h.method.input = Unit /\ h.message = {}
                        \/ \E f \in Range(files) : /\ f.pkg = mod.pkg
                                                   /\ h.method.input \in DOMAIN f.msgs
                                                   /\ h.message = f.msgs[h.method.input]
    BY DEF MessageIsOwn
  <2>2. PICK s \in Slots : Made(mod, s)
    BY <1>1, ModuleMade
  <2>3. PICK i \in DOMAIN mod.handlers : h = mod.handlers[i]
    BY DEF Range
  <2> QED
    BY <2>2, <2>3 DEF Made, FromMessages
<1> QED
  BY <1>1, GeneratorInductive, PTL

\* How OptionIsOwn is violated: the trait of the service is not named as in
\* the file, or a later service in another package has that name.
OneOfTwoNames(mod) == \/ mod.service.proto # mod.service.name
                      \/ PkgAt(Latest(mod.service.name)) # mod.pkg

\* The finding OptionIsOwn has these two causes and no third: any other service
\* has a handler for each of its methods with a rule, made from that rule, and
\* for no other, whatever the rest of the build is.
THEOREM OptionsAreLostTwoWays ==
    Spec => [](\A mod \in Range(modules) : HasOwnOptions(mod) \/ OneOfTwoNames(mod))
<1>1. ASSUME Setting, Collected
      PROVE  \A mod \in Range(modules) : HasOwnOptions(mod) \/ OneOfTwoNames(mod)
  <2>1. SUFFICES ASSUME NEW mod \in Range(modules), ~OneOfTwoNames(mod)
                 PROVE  HasOwnOptions(mod)
    OBVIOUS
  <2>2. PICK s \in Slots : Made(mod, s)
    BY <1>1, ModuleMade
  <2> DEFINE service == ServiceAt(s)
             methods == service.methods
             table == Table(service)
  <2>3. mod.service = service /\ mod.pkg = PkgAt(s)
    BY <2>2 DEF Made
  <2>4. service.proto = service.name /\ PkgAt(Latest(service.name)) = PkgAt(s)
    BY <2>1, <2>3 DEF OneOfTwoNames
  <2>5. \A i \in DOMAIN methods :
            /\ methods[i].name \in DOMAIN table <=> methods[i].rule # NoRule
            /\ methods[i].rule # NoRule => table[methods[i].name] = methods[i].rule
    BY <1>1, <2>4, OwnOptions
  <2>6. DOMAIN mod.handlers = {i \in DOMAIN methods : methods[i].name \in DOMAIN table}
    BY <2>2 DEF Made
  <2>7. \A i \in DOMAIN mod.handlers : /\ mod.handlers[i].method = methods[i]
                                       /\ mod.handlers[i].rule = table[methods[i].name]
    BY <2>2 DEF Made
  <2> QED
    BY <2>3, <2>5, <2>6, <2>7 DEF HasOwnOptions
<1> QED
  BY <1>1, GeneratorInductive, PTL

\* PackageHasOwnCodeOnly: what the finding takes is a second package with
\* services; a build with one never puts a module into a foreign package.
THEOREM OnePackageHasOwnCode ==
    Spec => []((\A p, q \in ServedPackages : p = q) => PackageHasOwnCodeOnly)
<1>1. ASSUME Setting, Collected, PackagesWritten, \A p, q \in ServedPackages : p = q
      PROVE  PackageHasOwnCodeOnly
  <2>1. SUFFICES ASSUME NEW p \in Packages, out[p] # NotWritten,
                        NEW m \in Range(out[p].modules)
                 PROVE  m.pkg = p
    BY DEF PackageHasOwnCodeOnly
  <2>2. m \in Range(modules) /\ p \in ServedPackages
    BY <1>1, <2>1 DEF PackagesWritten, Written
  <2>3. PICK s \in Slots : Made(m, s)
    BY <1>1, <2>2, ModuleMade
  <2>4. m.pkg \in ServedPackages
    BY <1>1, <2>3, SlotsTyped DEF Made
  <2> QED
    BY <1>1, <2>2, <2>4
<1> QED
  BY <1>1, GeneratorInductive, PTL
===============================================================================
