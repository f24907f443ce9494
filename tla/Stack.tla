------------------------------- MODULE Stack -------------------------------
(***************************************************************************)
(* What a runtime is configured with, resolved when it is constructed:     *)
(* the store layers and the one that owns the truth (src/stack.ts), the    *)
(* memory budget (src/memory.ts) and the storage sweep (src/ekman.ts).  A  *)
(* configuration the stores cannot satisfy is refused.                     *)
(*                                                                         *)
(* A configuration is what the application wrote, with Unset where a field *)
(* was left out.  A layer is one of the built-in kinds or an adapter that  *)
(* declares its own capabilities.                                          *)
(***************************************************************************)
EXTENDS Integers, Sequences, SequencesExt, FiniteSets

CONSTANT Unset

Default(field, value) == IF field = Unset THEN value ELSE field

Built(layer) == layer.kind # "none"

\* The capabilities of a layer: the built-in stores state their own.
Durable(layer) ==
  layer.kind = "file" \/ (layer.kind = "adapter" /\ layer.durable)

MultiWriter(layer) == layer.kind = "adapter" /\ layer.multiWriter

Compacts(layer) ==
  layer.kind = "file" \/ (layer.kind = "adapter" /\ layer.compacts)

\* The filters a scan cannot evaluate, so that the runtime does.
Unsupported(layer) == IF layer.kind = "adapter" THEN layer.unsupported ELSE {}

\* toLayers: known kinds, and "none" means that there is no other.
ValidLayers(store) ==
  /\ store # <<>>
  /\ \A i \in DOMAIN store :
       /\ store[i].kind \in {"none", "memory", "file", "adapter"}
       /\ store[i].kind = "none" => Len(store) = 1

LayersOf(config) ==
  IF config.store = Unset THEN <<>> ELSE SelectSeq(config.store, Built)

UniqueNames(layers) ==
  \A i, j \in DOMAIN layers : layers[i].name = layers[j].name => i = j

Claimed(layers) == {i \in DOMAIN layers : layers[i].authority = TRUE}

\* The last durable layer, or the last one when none is durable.
PickAuthority(layers) ==
  LET durable == {i \in DOMAIN layers : Durable(layers[i])}
      Highest(S) == CHOOSE i \in S : \A j \in S : j <= i
  IN  Highest(IF durable = {} THEN DOMAIN layers ELSE durable)

\* The commit authority: the layer that claims it, or the one that is picked.
AuthorityIn(layers) ==
  layers[IF Claimed(layers) # {} THEN CHOOSE i \in Claimed(layers) : TRUE
                                 ELSE PickAuthority(layers)]

Mutant_ValidStack(layers) ==
  layers # <<>> => UniqueNames(layers) /\ Cardinality(Claimed(layers)) <= 1

\* resolveStack: one layer owns the truth, and never an ephemeral one while a
\* durable one is only a cache of it.
ValidStack(layers) ==
  layers # <<>> =>
    /\ UniqueNames(layers)
    /\ Cardinality(Claimed(layers)) <= 1
    /\ Durable(AuthorityIn(layers))
         \/ \A i \in DOMAIN layers : ~Durable(layers[i])

\* assertCoordination: other writers need an authority that notices them.
ValidCoordination(coordination, layers) ==
  \/ coordination \in {Unset, "single"}
  \/ /\ coordination = "multi"
     /\ layers # <<>>
     /\ MultiWriter(AuthorityIn(layers))

Unlimited(memory) == memory.maxBytes = Unset

EvictionOf(memory) == Default(memory.policy, "lru")

\* resolveMemoryConfig: what is released has somewhere to go, or somebody
\* said that it may be lost.
ValidMemory(memory, hasStore) ==
  /\ EvictionOf(memory) \in {"lru", "reject", "none"}
  /\ ~hasStore =>
       /\ memory.maxBytes # 0
       /\ memory.snapshotOnEvict # TRUE
       /\ ~Unlimited(memory) /\ EvictionOf(memory) = "lru" =>
            memory.allowDiscard = TRUE

SnapshotOnEvict(memory, hasStore) == Default(memory.snapshotOnEvict, hasStore)

\* An interval that could never reclaim anything is refused.
ValidSweep(sweeps, layers) ==
  sweeps => \E i \in DOMAIN layers : Compacts(layers[i])

\* The constructor of Ekman.
ValidConfig(config) ==
  LET layers == LayersOf(config)
  IN  /\ config.store # Unset => ValidLayers(config.store)
      /\ ValidStack(layers)
      /\ ValidCoordination(config.coordination, layers)
      /\ ValidMemory(config.memory, layers # <<>>)
      /\ ValidSweep(config.sweeps, layers)

=============================================================================
