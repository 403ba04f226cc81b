-------------------------------- MODULE Modules --------------------------------
(***************************************************************************)
(* The registry of modules declared from Rust, the resolver and loader     *)
(* consulted for unknown names, and Bun's module loader above them, which  *)
(* calls __rbun.resolve and __rbun.load through the bootstrap plugin.      *)
(*                                                                         *)
(* The resolver, the loader and the definition of a native module are host *)
(* code called in the middle of an import, and host code may declare,      *)
(* evict and import modules itself.  `stack' holds one frame per import    *)
(* that waits for such a callback.                                         *)
(***************************************************************************)
EXTENDS Integers, SequencesExt

CONSTANTS
  Names,          \* module names, also used as specifiers
  NoName,
  ResolverChain,  \* the installed tuple: what each resolver makes of a name
  LoaderChain,    \* the installed tuple: what each loader declares a name as
  MaxDeclares,    \* bound: declarations in a behaviour
  MaxImports,     \* bound: calls of import()
  MaxEvals        \* bound: completed evaluations of native definitions

Kinds == {"source", "def"}

ASSUME ModulesAssumption ==
  /\ NoName \notin Names
  /\ ResolverChain \in Seq([Names -> Names \cup {NoName}])
  /\ LoaderChain \in Seq([Names -> Kinds \cup {"none"}])
  /\ MaxDeclares \in Nat /\ MaxImports \in Nat /\ MaxEvals \in Nat

VARIABLES
  entries,    \* ModuleRegistry.entries
  installed,  \* set_loader was called
  protects,   \* protection count of the values the registry refers to
  cache,      \* Bun's loader registry, by name
  stack,      \* imports waiting for a callback, the innermost last
  declared,   \* declarations so far: the version of the newest
  evals,      \* the version of the definition that made each exports object
  imports,    \* import() calls so far
  late        \* names whose definition was no longer registered, unevaluated,
              \* when an evaluation of it completed, one for each

vars == <<entries, installed, protects, cache, stack, declared, evals,
          imports, late>>

\* The values kept alive for the registry: the import.meta object of each
\* declaration, and the exports of each evaluated definition.
Meta(v) == <<"meta", v>>
Object(k) == <<"exports", k>>
Values == {Meta(v) : v \in 1..MaxDeclares} \cup {Object(k) : k \in 1..MaxEvals}

NoEntry == [kind |-> "none", version |-> 0, exports |-> 0]
Entry == [kind: Kinds \cup {"exports", "none"}, version: 0..MaxDeclares,
          exports: 0..MaxEvals]
Registered(n) == entries[n].kind # "none"

\* What register and evict unprotect of an entry they drop.
Owned(entry) ==
  IF entry.kind = "none" THEN {}
  ELSE {Meta(entry.version)} \cup
       (IF entry.kind = "exports" THEN {Object(entry.exports)} ELSE {})

\* An entry of Bun's loader: the import that created it, and the version and
\* exports it delivered, version 0 while loading.
NotCached == [id |-> 0, version |-> 0, exports |-> 0]
Loading(id) == [NotCached EXCEPT !.id = id]
Cached == [id: 0..MaxImports, version: 0..MaxDeclares, exports: 0..MaxEvals]
Forget(n) == [cache EXCEPT ![n] = NotCached]

\* `resolver' holds runtime.resolver borrowed, the four others but
\* `evaluate' runtime.loader.
ResolverPCs == {"resolver"}
LoaderPCs == {"claim", "claimed", "load", "loaded"}
Frame == [pc: ResolverPCs \cup LoaderPCs \cup {"evaluate"}, id: 1..MaxImports,
          name: Names, version: 0..MaxDeclares]
NewFrame(pc, id, n, v) == [pc |-> pc, id |-> id, name |-> n, version |-> v]

Top == Last(stack)
Below == Front(stack)
In(pcs) == stack # <<>> /\ Top.pc \in pcs
Borrowed(pcs, frames) == \E i \in DOMAIN frames : frames[i].pc \in pcs

\* The tuples of resolvers and loaders: the first success wins.
FirstOk(results, none) ==
  LET i == SelectInSeq(results, LAMBDA r : r # none)
  IN  IF i = 0 THEN none ELSE results[i]
Resolve(n) ==
  FirstOk([i \in DOMAIN ResolverChain |-> ResolverChain[i][n]], NoName)
LoadedAs(n) ==
  FirstOk([i \in DOMAIN LoaderChain |-> LoaderChain[i][n]], "none")

Init ==
  /\ entries = [n \in Names |-> NoEntry] /\ installed = FALSE
  /\ protects = [v \in Values |-> 0]
  /\ cache = [n \in Names |-> NotCached]
  /\ stack = <<>> /\ declared = 0 /\ evals = <<>> /\ imports = 0
  /\ late = <<>>

-----------------------------------------------------------------------------
(* Declaring and evicting.                                                 *)

\* The protections once `lost' lost one and `won' won one.
Rebalanced(lost, won) ==
  [v \in Values |-> protects[v] - (IF v \in lost THEN 1 ELSE 0)
                                + (IF v \in won THEN 1 ELSE 0)]

Register(n, kind) ==
  /\ declared < MaxDeclares
  /\ declared' = declared + 1
  /\ entries' = [entries EXCEPT ![n] = [kind |-> kind, exports |-> 0,
                                        version |-> declared + 1]]
  /\ protects' = Rebalanced(Owned(entries[n]), {Meta(declared + 1)})
  /\ cache' = IF Registered(n) THEN Forget(n) ELSE cache

\* Module::declare and declare_def, called by host code.
Declare(n, kind) ==
  /\ Register(n, kind)
  /\ UNCHANGED <<installed, stack, evals, imports, late>>

BugDropped(n) == entries  \* the entry stays
Dropped(n) == [entries EXCEPT ![n] = NoEntry]

\* Ctx::evict_module with the name the module was declared under.
BugEvict(n) ==  \* the exports object stays protected
  /\ entries' = Dropped(n)
  /\ protects' = Rebalanced(Owned(entries[n]) \ {Object(entries[n].exports)}, {})
  /\ cache' = Forget(n)
  /\ UNCHANGED <<installed, stack, declared, evals, imports, late>>
Evict(n) ==
  /\ entries' = Dropped(n)
  /\ protects' = Rebalanced(Owned(entries[n]), {})
  /\ cache' = Forget(n)
  /\ UNCHANGED <<installed, stack, declared, evals, imports, late>>

\* Ctx::evict_module with the key Bun knows it by, `rbun:' and the name: the
\* declaration stays.
EvictKey(n) ==
  /\ cache' = Forget(n)
  /\ UNCHANGED <<entries, installed, protects, stack, declared, evals,
                 imports, late>>

\* Runtime::set_loader.
SetLoader ==
  /\ ~installed
  /\ installed' = TRUE
  /\ UNCHANGED <<entries, protects, cache, stack, declared, evals, imports,
                 late>>

-----------------------------------------------------------------------------
(* One import through Bun's loader.                                        *)

\* Bun stores what an import loaded, unless its entry was deleted meanwhile.
Put(c, id, n, module) == IF c[n].id = id THEN [c EXCEPT ![n] = module] ELSE c

\* The imports in `frames' fail; what they were loading can be asked for again.
Failed(frames) ==
  [n \in Names |->
     IF cache[n].version = 0 /\ \E i \in DOMAIN frames : frames[i].id = cache[n].id
     THEN NotCached ELSE cache[n]]

\* A panic unwinds every callback: one of host code, or that of a RefCell
\* borrowed twice.
Unwind == stack' = <<>> /\ cache' = Failed(stack)

\* The version an entry delivers: that of the definition its exports are from.
Content(entry) ==
  IF entry.kind = "exports" THEN evals[entry.exports] ELSE entry.version

\* host_load once the name is known to the registry or the loader has had its
\* chance: the source, the cached exports, or the definition to evaluate.
Deliver(id, n, below, c) ==
  \/ /\ entries[n].kind \in {"source", "exports"}
     /\ cache' = Put(c, id, n, [id |-> id, exports |-> entries[n].exports,
                                version |-> Content(entries[n])])
     /\ stack' = below
  \/ /\ entries[n].kind = "def"
     /\ cache' = c
     /\ stack' = Append(below, NewFrame("evaluate", id, n, entries[n].version))
  \/ /\ ~Registered(n)
     /\ cache' = Put(c, id, n, NotCached)
     /\ stack' = below

\* Bun links a resolved name: joined to the module it has, or loaded.
Link(id, n, below) ==
  LET c == [cache EXCEPT ![n] = Loading(id)]
  IN  \/ /\ cache[n] # NotCached
         /\ stack' = below /\ UNCHANGED cache
      \/ /\ cache[n] = NotCached /\ (Registered(n) \/ ~installed)
         /\ Deliver(id, n, below, c)
      \/ /\ cache[n] = NotCached /\ ~Registered(n) /\ installed
         /\ IF Borrowed(LoaderPCs, below) THEN Unwind
            ELSE /\ cache' = c
                 /\ stack' = Append(below, NewFrame("load", id, n, 0))

\* import(n), from host code or JavaScript; host_resolve up to the resolver.
\* What nobody claims falls through to Bun's own resolution.
Import(n) ==
  /\ imports < MaxImports
  /\ imports' = imports + 1
  /\ \/ Registered(n) /\ Link(imports + 1, n, stack)
     \/ ~Registered(n) /\ ~installed /\ UNCHANGED <<stack, cache>>
     \/ /\ ~Registered(n) /\ installed
        /\ IF Borrowed(ResolverPCs, stack) THEN Unwind
           ELSE /\ stack' = Append(stack, NewFrame("resolver", imports + 1, n, 0))
                /\ UNCHANGED cache
  /\ UNCHANGED <<entries, installed, protects, declared, evals, late>>

ResolverReturns ==
  /\ In(ResolverPCs)
  /\ LET r == Resolve(Top.name)
     IN  \/ r = NoName /\ stack' = Below /\ UNCHANGED cache
         \/ r \in Names /\ Registered(r) /\ Link(Top.id, r, Below)
         \/ /\ r \in Names /\ ~Registered(r)
            /\ IF Borrowed(LoaderPCs, Below) THEN Unwind
               ELSE /\ stack' = Append(Below, NewFrame("claim", Top.id, r, 0))
                    /\ UNCHANGED cache
  /\ UNCHANGED <<entries, installed, protects, declared, evals, imports, late>>

\* Loader::load declares the module, from host_resolve or from host_load.
LoaderDeclares ==
  /\ In({"claim", "load"}) /\ LoadedAs(Top.name) # "none"
  /\ Register(Top.name, LoadedAs(Top.name))
  /\ stack' = Append(Below, [Top EXCEPT !.pc = IF @ = "claim" THEN "claimed"
                                               ELSE "loaded"])
  /\ UNCHANGED <<installed, evals, imports, late>>

LoaderFails ==
  /\ In({"claim", "load"}) /\ LoadedAs(Top.name) = "none"
  /\ cache' = IF Top.pc = "load" THEN Put(cache, Top.id, Top.name, NotCached)
              ELSE cache
  /\ stack' = Below
  /\ UNCHANGED <<entries, installed, protects, declared, evals, imports, late>>

LoaderReturns ==
  /\ \/ In({"claimed"}) /\ Link(Top.id, Top.name, Below)
     \/ In({"loaded"}) /\ Deliver(Top.id, Top.name, Below, cache)
  /\ UNCHANGED <<entries, installed, protects, declared, evals, imports, late>>

\* ModuleDef::evaluate returned: protect the exports, and cache them in
\* whatever entry the name has by now.
BugRooted(k) == protects  \* not protected
Rooted(k) == Rebalanced({}, {Object(k)})

BugCacheExports(n, k) == entries  \* evaluated again by the next load
CacheExports(n, k) ==
  IF Registered(n)
  THEN [entries EXCEPT ![n].kind = "exports", ![n].exports = k]
  ELSE entries

Superseded(frame) ==
  LET entry == entries[frame.name]
  IN  ~(entry.kind = "def" /\ entry.version = frame.version)

EvaluateReturns ==
  /\ In({"evaluate"}) /\ Len(evals) < MaxEvals
  /\ LET k == Len(evals) + 1
     IN  /\ evals' = Append(evals, Top.version)
         /\ protects' = Rooted(k)
         /\ entries' = CacheExports(Top.name, k)
         /\ cache' = Put(cache, Top.id, Top.name,
                         [id |-> Top.id, version |-> Top.version, exports |-> k])
  /\ late' = IF Superseded(Top) THEN Append(late, Top.name) ELSE late
  /\ stack' = Below
  /\ UNCHANGED <<installed, declared, imports>>

EvaluateFails ==
  /\ In({"evaluate"})
  /\ cache' = Put(cache, Top.id, Top.name, NotCached)
  /\ stack' = Below
  /\ UNCHANGED <<entries, installed, protects, declared, evals, imports, late>>

Panic ==
  /\ stack # <<>>
  /\ Unwind
  /\ UNCHANGED <<entries, installed, protects, declared, evals, imports, late>>

-----------------------------------------------------------------------------
HostCode ==
  \/ \E n \in Names : \/ \E kind \in Kinds : Declare(n, kind)
                      \/ Evict(n) \/ EvictKey(n) \/ Import(n)
  \/ SetLoader
  \/ Panic

Callback ==
  \/ ResolverReturns \/ LoaderDeclares \/ LoaderFails \/ LoaderReturns
  \/ EvaluateReturns \/ EvaluateFails

Next == HostCode \/ Callback

Spec == Init /\ [][Next]_vars

\* The type invariant.
TypeOK ==
  /\ entries \in [Names -> Entry] /\ installed \in BOOLEAN
  /\ protects \in [Values -> Nat] /\ cache \in [Names -> Cached]
  /\ stack \in Seq(Frame)
  /\ declared \in 0..MaxDeclares /\ imports \in 0..MaxImports
  /\ evals \in Seq(1..MaxDeclares) /\ Len(evals) <= MaxEvals
  /\ late \in Seq(Names)

-----------------------------------------------------------------------------
(* Safety.                                                                 *)

\* "SAFETY: protected while registered" (module.rs:89 and 367): host_load and
\* Module::meta hand out what an entry refers to.  Whatever callbacks replaced
\* or evicted in between, nothing an entry refers to was unprotected.
ProtectedWhileRegistered ==
  \A n \in Names : \A v \in Owned(entries[n]) : protects[v] >= 1

\* protect and unprotect balance: nothing is protected twice, the import.meta
\* of a declaration that was replaced or evicted can be collected, and so can
\* the exports, but for one object per definition that lost its entry while
\* it was being evaluated.
Leaked == {v \in Values : protects[v] > 0 /\
                          \A n \in Names : v \notin Owned(entries[n])}
Released ==
  /\ \A v \in Values : protects[v] <= 1
  /\ Leaked \subseteq {Object(k) : k \in DOMAIN evals}
  /\ Cardinality(Leaked) <= Len(late)

\* What Bun has loaded is what is declared now, with the exports object every
\* re-import will see: no import of a name can still get a replaced or evicted
\* declaration, except after such a late evaluation.
LoadedIsCurrent ==
  \A n \in Names \ ToSet(late) :
    cache[n].version # 0 => /\ Registered(n)
                            /\ cache[n].version = entries[n].version
                            /\ cache[n].exports = entries[n].exports

\* module.rs:98-99: "Re-declaring a name replaces the previous module for
\* future imports."
RedeclarationWins ==
  \A n \in Names : cache[n].version # 0 /\ Registered(n) =>
                     cache[n].version >= entries[n].version
=============================================================================
