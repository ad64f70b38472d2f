------------------------------- MODULE Generator -------------------------------
(***************************************************************************)
(* A build: Builder is configured (builder.rs), Generator::new reads the   *)
(* http options of all files (http.rs, HttpOptions), and prost-build then  *)
(* drives the generator (codegen/generator.rs) file by file: it appends    *)
(* the messages of the file to the code of its package, calls "generate"   *)
(* for each service and "finalize" for the file, and after the last file   *)
(* "finalize_package" for each package that has services, in any order.    *)
(*                                                                         *)
(* What outlives a service is modelled: the option table, the messages     *)
(* read from the code (ExistingMessages), the structs (NewMessages) and    *)
(* the modules.  How one method is bound is module Binding; here a rule    *)
(* takes some fields by its path, and its body is "*" or there is none.    *)
(***************************************************************************)
EXTENDS Naturals, Sequences, SequencesExt, FiniteSets

CONSTANTS Builds,    \* sequences of files, as protoc orders them
          Unit,      \* the name "()" of the empty message
          NoRule,    \* a method without an http rule, or with a custom verb
          NotWritten \* no code of the generator in a package yet

\* file: [pkg, msgs, services], msgs a function from names to sets of fields;
\* service: [proto, name, methods], proto the name in the file and name the one
\* that prost-build gives to its trait (APIService is ApiService); method: [name, input, rule, client, server];
\* rule: [verb, path, vars, star], vars the fields that the path names.

\* What protoc has checked: names are unique, and a message is declared before
\* it is used, in this file or one that is listed before.  One of another
\* package is a path ("super::b::Req"), which is no name of a message.  Nothing
\* is checked of the rules, or of the names that prost-build makes.
ASSUME GeneratorAssumption ==
    \A fs \in Builds :
        /\ fs \in Seq(Range(fs))
        /\ \A f \in Range(fs) :
               /\ f.services \in Seq(Range(f.services))
               /\ \A s \in Range(f.services) : \A i, j \in DOMAIN s.methods :
                      i # j => s.methods[i].name # s.methods[j].name
        /\ \A f, g \in Range(fs) : f.pkg = g.pkg =>
               \A s \in Range(f.services) : \A t \in Range(g.services) : s.proto = t.proto => s = t
        /\ \A i \in DOMAIN fs : \A s \in Range(fs[i].services) : \A m \in Range(s.methods) :
               \/ m.input = Unit
               \/ \E k \in 1 .. i : fs[k].pkg = fs[i].pkg /\ m.input \in DOMAIN fs[k].msgs
               \/ \A f \in Range(fs) : m.input \notin DOMAIN f.msgs

VARIABLES files,        \* the files of this build
          stateTypes,   \* GeneratorConfig: service name -> its state type
          openapi,      \* generate_openapi
          ws,           \* generate_web_sockets
          phase,        \* "config", "generate", "packages", "done", "failed"
          fileNo,       \* the file prost-build is at
          svcNo,        \* how many of its services are generated
          buffers,      \* package -> the messages in its code so far
          options,      \* HttpOptions: service name in the file -> method -> rule
          existing,     \* ExistingMessages: message name -> fields
          newMessages,  \* NewMessages: the structs
          modules,      \* one for each service
          out           \* package -> what finalize_package wrote

configVars == <<stateTypes, openapi, ws>>
genVars == <<existing, newMessages, modules>>
vars == <<files, configVars, phase, fileNo, svcNo, buffers, options, genVars, out>>

Served(f) == f.services # <<>>
Packages == {f.pkg : f \in Range(files)}
ServedPackages == {f.pkg : f \in {g \in Range(files) : Served(g)}}
File == files[fileNo]

\* The services of the build: service j of file i is the one at <<i, j>>.
Slots == UNION {{i} \X DOMAIN files[i].services : i \in DOMAIN files}
ServiceAt(p) == files[p[1]].services[p[2]]
PkgAt(p) == files[p[1]].pkg
Before(p, q) == p[1] < q[1] \/ (p[1] = q[1] /\ p[2] < q[2])
Services == {ServiceAt(p) : p \in Slots}
ServiceNames == {s.name : s \in Services}

\* A table with the entries of another one inserted.
Insert(entries, table) == [n \in DOMAIN entries \cup DOMAIN table |->
                              IF n \in DOMAIN entries THEN entries[n] ELSE table[n]]

DefaultConfig == /\ stateTypes = [s \in ServiceNames |-> "trait"]
                 /\ openapi = FALSE
                 /\ ws = FALSE

Init == /\ files \in Builds
        /\ DefaultConfig
        /\ phase = "config"
        /\ fileNo = 0
        /\ svcNo = 0
        /\ buffers = [p \in Packages |-> <<>>]
        /\ options = <<>>
        /\ existing = <<>>
        /\ newMessages = {}
        /\ modules = <<>>
        /\ out = [p \in Packages |-> NotWritten]

-------------------------------------------------------------------------------
(* Builder *)

\* custom_state_type, generic_state_type: the last one for a name counts.
SetStateType(s, type) ==
    /\ phase = "config"
    /\ stateTypes' = [stateTypes EXCEPT ![s] = type]
    /\ UNCHANGED <<files, openapi, ws, phase, fileNo, svcNo, buffers, options, genVars, out>>

SetFlags == /\ phase = "config"
            /\ openapi' \in BOOLEAN /\ ws' \in BOOLEAN
            /\ UNCHANGED <<files, stateTypes, phase, fileNo, svcNo, buffers, options, genVars, out>>

\* Each service replaces the entry of one of the same name before it.
Latest(proto) == CHOOSE p \in Slots :
                     /\ ServiceAt(p).proto = proto
                     /\ \A q \in Slots : ServiceAt(q).proto = proto => ~Before(p, q)

\* parse_http_options: the methods with a rule, of the last service that has
\* the name in its file.
HttpOptions ==
    LET Ruled(s) == {m \in Range(ServiceAt(Latest(s)).methods) : m.rule # NoRule}
    IN [s \in {t.proto : t \in Services} |->
           [n \in {m.name : m \in Ruled(s)} |-> (CHOOSE m \in Ruled(s) : m.name = n).rule]]

\* compile_fds, and Generator::new.
CompileFds == /\ phase = "config"
              /\ options' = HttpOptions
              /\ phase' = "generate"
              /\ UNCHANGED <<files, configVars, fileNo, svcNo, buffers, genVars, out>>

-------------------------------------------------------------------------------
(* prost-build goes through the files *)

FileDone == IF fileNo = 0 THEN TRUE ELSE svcNo = Len(File.services) + 1

BeginFile == /\ phase = "generate"
             /\ FileDone
             /\ fileNo < Len(files)
             /\ fileNo' = fileNo + 1
             /\ svcNo' = 0
             /\ LET f == files[fileNo'] IN
                buffers' = [buffers EXCEPT ![f.pkg] = Insert(f.msgs, @)]
             /\ UNCHANGED <<files, configVars, phase, options, genVars, out>>

BeginPackages == /\ phase = "generate"
                 /\ FileDone
                 /\ fileNo = Len(files)
                 /\ phase' = "packages"
                 /\ UNCHANGED <<files, configVars, fileNo, svcNo, buffers, options, genVars, out>>

-------------------------------------------------------------------------------
(* generate_service *)

\* The special message without fields, which comes after those of the source.
EmptyRequest == [n \in {Unit} |-> {}]

\* (mutant) a message that is known is not read again.
ParseSourceOnce(src) == Insert(existing, Insert(EmptyRequest, src))

\* parse_source: the messages of the package's code, and the empty one.
ParseSource(src) == Insert(EmptyRequest, Insert(src, existing))

\* get_http_options: the service is asked for by the name of its trait.
OptionsOf(s) == IF s.name \in DOMAIN options THEN options[s.name] ELSE <<>>
HasOption(s, m) == m.name \in DOMAIN OptionsOf(s)

\* A handler, with the rule and the message it was made from.
Handler(s, m, messages) == [method |-> m, rule |-> OptionsOf(s)[m.name],
                            message |-> messages[m.input]]

\* The handlers of a service, each at the place of its method.
Handlers(s, messages) ==
    [i \in {j \in DOMAIN s.methods : HasOption(s, s.methods[j])} |->
        Handler(s, s.methods[i], messages)]

\* The struct a handler needs for its body or its query string, if any.
Left(h) == h.message \ h.rule.vars

\* (mutant) files the struct under the method.
StructsOfMethod(h) == IF Left(h) # h.message
                      THEN {[msg |-> h.method.name, part |-> h.rule.star, fields |-> Left(h)]}
                      ELSE {}

Structs(h) == IF Left(h) # h.message /\ (h.rule.star \/ Left(h) # {})
              THEN {[msg |-> h.method.input, part |-> h.rule.star, fields |-> Left(h)]}
              ELSE {}

\* An error of generate_func: the message or a path field is not found, the
\* empty message is asked for as a body, by a name that is no identifier, or a
\* client streaming method takes fields from its path or query.
FuncFails(s, m, messages) ==
    \/ m.input \notin DOMAIN messages
    \/ /\ HasOption(s, m)
       /\ LET h == Handler(s, m, messages) IN
          \/ ~ h.rule.vars \subseteq h.message
          \/ m.input = Unit /\ h.rule.star
          \/ m.client /\ h.rule.vars # {}

HasClientStreaming(handlers) == \E h \in Range(handlers) : h.method.client

StateType(s) == stateTypes[s.name]

RefusedGeneric(s) == StateType(s) = "generic" /\ openapi

RefusedTraitObject(s, handlers) == StateType(s) = "trait" /\ HasClientStreaming(handlers)

Module(s, handlers) == [service |-> s, pkg |-> File.pkg, handlers |-> handlers]

\* generate: any error is a panic, and ends the build.
Generate ==
    /\ phase = "generate"
    /\ fileNo > 0 /\ svcNo < Len(File.services)
    /\ svcNo' = svcNo + 1
    /\ existing' = ParseSource(buffers[File.pkg])
    /\ LET s == File.services[svcNo'] IN
       IF RefusedGeneric(s) \/ \E m \in Range(s.methods) : FuncFails(s, m, existing')
       THEN phase' = "failed" /\ UNCHANGED <<newMessages, modules>>
       ELSE LET handlers == Handlers(s, existing') IN
            /\ newMessages' = newMessages \cup UNION {Structs(h) : h \in Range(handlers)}
            /\ IF RefusedTraitObject(s, handlers)
               THEN phase' = "failed" /\ UNCHANGED modules
               ELSE /\ modules' = Append(modules, Module(s, handlers))
                    /\ UNCHANGED phase
    /\ UNCHANGED <<files, configVars, fileNo, buffers, options, out>>

Written == [structs |-> newMessages, modules |-> modules]

\* (mutant) hands on a module a second time when a file ends.
FinalizeAgain == /\ phase = "generate"
                 /\ fileNo > 0 /\ svcNo = Len(File.services)
                 /\ svcNo' = svcNo + 1
                 /\ modules' = IF modules = <<>> THEN modules ELSE Append(modules, Last(modules))
                 /\ UNCHANGED <<files, configVars, phase, fileNo, buffers, options, existing, newMessages, out>>

\* finalize: only the service generator of tonic has something to do.
Finalize == /\ phase = "generate"
            /\ fileNo > 0 /\ svcNo = Len(File.services)
            /\ svcNo' = svcNo + 1
            /\ UNCHANGED <<files, configVars, phase, fileNo, buffers, options, genVars, out>>

\* (mutant) takes the modules, as if there were one package.
FinalizePackageTakes(p) ==
    /\ phase = "packages"
    /\ p \in ServedPackages /\ out[p] = NotWritten
    /\ out' = [out EXCEPT ![p] = Written]
    /\ modules' = <<>>
    /\ UNCHANGED <<files, configVars, phase, fileNo, svcNo, buffers, options, existing, newMessages>>

\* finalize_package: write_code_to_buffer.
FinalizePackage(p) ==
    /\ phase = "packages"
    /\ p \in ServedPackages /\ out[p] = NotWritten
    /\ out' = [out EXCEPT ![p] = Written]
    /\ UNCHANGED <<files, configVars, phase, fileNo, svcNo, buffers, options, genVars>>

Finish == /\ phase = "packages"
          /\ \A p \in ServedPackages : out[p] # NotWritten
          /\ phase' = "done"
          /\ UNCHANGED <<files, configVars, fileNo, svcNo, buffers, options, genVars, out>>

Over == phase \in {"done", "failed"} /\ UNCHANGED vars

Next == \/ \E s \in ServiceNames : \E type \in {"custom", "generic"} : SetStateType(s, type)
        \/ SetFlags
        \/ CompileFds
        \/ BeginFile
        \/ Generate
        \/ Finalize
        \/ BeginPackages
        \/ \E p \in Packages : FinalizePackage(p)
        \/ Finish
        \/ Over

Spec == Init /\ [][Next]_vars

-------------------------------------------------------------------------------
GeneratorTypeOK ==
    /\ stateTypes \in [ServiceNames -> {"trait", "custom", "generic"}]
    /\ openapi \in BOOLEAN /\ ws \in BOOLEAN
    /\ phase \in {"config", "generate", "packages", "done", "failed"}
    /\ fileNo \in 0 .. Len(files)
    /\ svcNo \in 0 .. (IF fileNo = 0 THEN 0 ELSE Len(File.services) + 1)
    /\ DOMAIN buffers = Packages
    /\ DOMAIN options \subseteq {s.proto : s \in Services}
    /\ \A s \in newMessages : s.fields \subseteq UNION {f.msgs[s.msg] :
           f \in {g \in Range(files) : s.msg \in DOMAIN g.msgs}}
    /\ \A m \in Range(modules) : m.service \in Services /\ m.pkg \in ServedPackages
    /\ \A p \in Packages : out[p] # NotWritten => /\ p \in ServedPackages
                                                /\ out[p].structs \subseteq newMessages

ServicesOf(p) == UNION {Range(f.services) : f \in {g \in Range(files) : g.pkg = p}}
Needed(mods) == UNION {Structs(h) : h \in UNION {Range(m.handlers) : m \in mods}}

\* Nothing is missing from the code of a package, whichever is written first:
\* it has the module of each of its services, and every struct that these
\* take apart ("super::...").
PackagesComplete ==
    phase = "done" => \A p \in ServedPackages :
        LET own == {m \in Range(out[p].modules) : m.pkg = p} IN
        /\ ServicesOf(p) = {m.service : m \in own}
        /\ Needed(own) \subseteq out[p].structs

\* A build with one package that has services writes each module once, in the
\* order of the services, and no struct that nothing takes apart.
OnePackageExact ==
    (phase = "done" /\ Cardinality(ServedPackages) = 1) => \A p \in ServedPackages :
        /\ \E at \in [DOMAIN out[p].modules -> Slots] :
               /\ Range(at) = Slots
               /\ \A i, j \in DOMAIN at : i < j => Before(at[i], at[j])
               /\ \A i \in DOMAIN at : /\ out[p].modules[i].service = ServiceAt(at[i])
                                       /\ out[p].modules[i].pkg = PkgAt(at[i])
        /\ out[p].structs = Needed(Range(out[p].modules))

\* A handler is bound to the message of its own package: the table, which is
\* keyed by the bare name, is never asked for one that another package left.
MessageIsOwn ==
    \A mod \in Range(modules) : \A h \in Range(mod.handlers) :
        \/ h.method.input = Unit /\ h.message = {}
        \/ \E f \in Range(files) : /\ f.pkg = mod.pkg
                                   /\ h.method.input \in DOMAIN f.msgs
                                   /\ h.message = f.msgs[h.method.input]

-------------------------------------------------------------------------------
\* The modules refer to their service as "super::<name>_server" (helpers.rs:70),
\* and are "Generated axum handlers and router" (generator.rs:159) of it: the
\* code of a package has the modules of its own services.
PackageHasOwnCodeOnly ==
    \A p \in Packages : out[p] # NotWritten => \A m \in Range(out[p].modules) : m.pkg = p

\* "Service name -> Method name -> HttpOption" (http.rs:240): a service has a
\* handler for each of its methods with a rule, made from that rule, and for no
\* other method.
HasOwnOptions(mod) ==
    LET methods == mod.service.methods
    IN /\ DOMAIN mod.handlers = {i \in DOMAIN methods : methods[i].rule # NoRule}
       /\ \A i \in DOMAIN mod.handlers : /\ mod.handlers[i].method = methods[i]
                                         /\ mod.handlers[i].rule = methods[i].rule
OptionIsOwn == \A mod \in Range(modules) : HasOwnOptions(mod)

\* "Generate WS handler for streaming RPCs when sockets are enabled"
\* (generator.rs:93): each gets routes of its own, path/ws/proto and
\* path/ws/json, for any verb.
HasWsRoutes(h) == ws /\ (h.method.client \/ h.method.server)
WsRoutesDistinct ==
    \A mod \in Range(modules) : \A i, j \in DOMAIN mod.handlers :
        (/\ HasWsRoutes(mod.handlers[i]) /\ HasWsRoutes(mod.handlers[j])
         /\ mod.handlers[i].rule.path = mod.handlers[j].rule.path) => i = j
================================================================================
