-------------------------- MODULE ShimSpliceProofs --------------------------
(* The way of a call from the client to the server, for any number of       *)
(* calls: the splice of the shim, for any chains and frames (what reaches    *)
(* the proxy, and what the client reads), and behind it the router of the   *)
(* proxy (Router), where a call waits and how often it is answered.         *)
EXTENDS ShimSplice, RoutedCalls, SequenceTheorems, TLAPS

(* The chains come one after the other: the attached one is the last that   *)
(* was started, and the ends of the others have been seen.                  *)
InOrder ==
  /\ chain # 0 => chain = gen /\ attempts = gen - 1
  /\ timer => chain = 0 /\ gen = attempts /\ attempts <= RechainMax
  /\ \A g \in Gens : g > gen => /\ stage[g] = "none" /\ err[g] = <<>> /\ out[g] = 0
                                /\ got[g] = 0 /\ g \notin ran
  /\ \A g \in Gens : g <= gen => g \in buried \/ g = chain

(* What the shim takes for a proof that a chain has executed the proxy is    *)
(* one.                                                                     *)
Proofs ==
  /\ \A g \in Gens : (stage[g] = "proxy" \/ out[g] > 0) => g \in ran
  /\ \A g \in Gens : \A i \in 1 .. Len(err[g]) : err[g][i] = "exec" => g \in ran
  /\ execed /\ chain # 0 => chain \in ran

(* Up to the hand-off the frames of the attached chain wait, and nothing was *)
(* passed on; from then on they have been passed on.                        *)
IsStream(frames) ==
  Len(frames) = got[chain] /\ \A i \in 1 .. Len(frames) : frames[i] = <<chain, i>>
Waiting == ~handed => /\ seen = <<>> /\ \A g \in Gens : inbox[g] = <<>>
                      /\ chain # 0 => IsStream(buffer)
Spliced == handed => /\ chain # 0 /\ chain \in ran /\ IsStream(seen)
                     /\ \A g \in Gens : inbox[g] # <<>> => g = chain

Sound == InOrder /\ Proofs /\ Waiting /\ Spliced
Bounds == \A g \in Gens : got[g] <= out[g]

IInv == TypeOK /\ Bounds /\ Sound

-----------------------------------------------------------------------------
LEMMA GensFacts == Gens \subseteq Nat /\ 0 \notin Gens /\ RechainMax \in Nat
BY SpliceAssumption DEF Gens

LEMMA InitIInv == Init => IInv
<1> SUFFICES ASSUME Init PROVE IInv
  OBVIOUS
<1> USE GensFacts
<1>1. gen \in {0, 1} /\ chain = gen /\ ran = {} /\ execed = FALSE /\ attempts = 0 /\ timer = FALSE
  BY DEF Init
<1>2. /\ stage \in [Gens -> {"none", "launcher", "proxy", "dead"}]
      /\ \A g \in Gens : stage[g] # "proxy" /\ (g > gen => stage[g] = "none")
  BY <1>1 DEF Init
<1>3. err = [g \in Gens |-> <<>>] /\ out = [g \in Gens |-> 0] /\ got = [g \in Gens |-> 0]
      /\ inbox = [g \in Gens |-> <<>>] /\ buffer = <<>> /\ seen = <<>> /\ handed = FALSE
  BY DEF Init
<1>4. TypeOK
  <2>1. /\ ran \subseteq Gens /\ err \in [Gens -> Seq({"wait", "exec"})]
        /\ out \in [Gens -> Nat] /\ got \in [Gens -> Nat] /\ inbox \in [Gens -> Seq(Call)]
        /\ buffer \in Seq(Gens \X Nat) /\ seen \in Seq(Gens \X Nat)
    BY <1>1, <1>3
  <2>2. /\ gen \in 0 .. RechainMax + 1 /\ chain \in 0 .. gen /\ attempts \in 0 .. RechainMax + 1
    BY <1>1
  <2>3. /\ execed \in BOOLEAN /\ timer \in BOOLEAN /\ handed \in BOOLEAN /\ eof \in BOOLEAN
        /\ alive \in BOOLEAN
    BY Zenon DEF Init
  <2>4. /\ buried \subseteq Gens /\ said \in {"proxy_warming", "chain_exhausted"}
        /\ fate = [c \in Call |-> "none"]
    BY DEF Init
  <2> QED BY <1>2, <2>1, <2>2, <2>3, <2>4 DEF TypeOK
<1>5. InOrder
  BY <1>1, <1>2, <1>3 DEF InOrder
<1>6. Proofs
  BY <1>1, <1>2, <1>3 DEF Proofs
<1>8. Waiting /\ Spliced
  <2>1. Len(buffer) = 0
    BY <1>3
  <2>2. chain # 0 => chain \in Gens
    BY <1>1 DEF Gens
  <2>3. chain # 0 => got[chain] = 0
    BY <1>3, <2>2
  <2> QED BY <1>3, <2>1, <2>3 DEF Waiting, Spliced, IsStream
<1>7. Bounds
  BY <1>3 DEF Bounds
<1> QED BY <1>4, <1>5, <1>6, <1>7, <1>8 DEF IInv, Sound

-----------------------------------------------------------------------------
(* The chain's own steps: it writes only once it has been started, and      *)
(* frames only once its launcher has executed the proxy.                    *)
LEMMA ChainKeeps ==
  ASSUME IInv, NEW g \in Gens,
         LauncherWaits(g) \/ LauncherExecs(g) \/ ProxySends(g) \/ ChainDies(g)
  PROVE  IInv'
<1> USE GensFacts
<1>1. UNCHANGED <<got, buried, gen, chain, execed, attempts, timer, said, fate, inbox, seen, buffer, handed,
                  eof, alive>>
  BY DEF LauncherWaits, LauncherExecs, ProxySends, ChainDies, ShimUnchanged, link, client
<1>2. TypeOK /\ stage[g] \in {"launcher", "proxy"} /\ g <= gen
  BY DEF IInv, TypeOK, Sound, InOrder, LauncherWaits, LauncherExecs, ProxySends, ChainDies
<1>3. PICK line \in {"wait", "exec"} :
        /\ err' = err \/ (err' = [err EXCEPT ![g] = Append(@, line)] /\ (line = "exec" => g \in ran'))
        /\ ran' \in {ran, ran \cup {g}}
  BY DEF LauncherWaits, LauncherExecs, ProxySends, ChainDies, Tells
<1>4. /\ stage' \in [Gens -> {"none", "launcher", "proxy", "dead"}]
      /\ \A h \in Gens \ {g} : stage'[h] = stage[h]
      /\ stage'[g] = "proxy" => g \in ran'
  <2>1. stage[g] = "proxy" => g \in ran
    BY DEF IInv, Sound, Proofs
  <2>2. stage \in [Gens -> {"none", "launcher", "proxy", "dead"}]
    BY <1>2 DEF TypeOK
  <2>3. CASE UNCHANGED stage
    BY <1>3, <2>1, <2>2, <2>3
  <2>4. CASE LauncherExecs(g) \/ ChainDies(g)
    BY <2>2, <2>4 DEF LauncherExecs, ChainDies
  <2> QED BY <2>3, <2>4 DEF LauncherWaits, ProxySends
<1>5. /\ out' \in [Gens -> Nat] /\ \A h \in Gens : out'[h] >= out[h]
      /\ \A h \in Gens \ {g} : out'[h] = out[h]
      /\ out'[g] > 0 => g \in ran'
  <2>1. out \in [Gens -> Nat] /\ (stage[g] = "proxy" \/ out[g] > 0 => g \in ran)
    BY <1>2 DEF TypeOK, IInv, Sound, Proofs
  <2>2. CASE UNCHANGED out
    BY <1>3, <2>1, <2>2
  <2>3. CASE ProxySends(g)
    BY <2>1, <2>3 DEF ProxySends
  <2> QED BY <2>2, <2>3 DEF LauncherWaits, LauncherExecs, ChainDies
<1>6. /\ err' \in [Gens -> Seq({"wait", "exec"})]
      /\ \A h \in Gens \ {g} : err'[h] = err[h]
      /\ \A i \in 1 .. Len(err'[g]) : err'[g][i] = "exec" => g \in ran'
  <2>1. CASE err' = err
    BY <1>2, <1>3, <2>1 DEF TypeOK, IInv, Sound, Proofs
  <2>2. CASE err' = [err EXCEPT ![g] = Append(@, line)] /\ (line = "exec" => g \in ran')
    <3>1. err[g] \in Seq({"wait", "exec"}) /\ err'[g] = Append(err[g], line)
      BY <1>2, <2>2 DEF TypeOK
    <3>2. \A i \in 1 .. Len(err[g]) : err[g][i] = "exec" => g \in ran'
      BY <1>3 DEF IInv, Sound, Proofs
    <3>3. Append(err[g], line) \in Seq({"wait", "exec"}) /\ Len(Append(err[g], line)) = Len(err[g]) + 1
          /\ \A i \in 1 .. Len(err[g]) + 1 :
               Append(err[g], line)[i] = IF i = Len(err[g]) + 1 THEN line ELSE err[g][i]
      BY <3>1
    <3>4. \A i \in 1 .. Len(err'[g]) : err'[g][i] = "exec" => g \in ran'
      BY <2>2, <3>1, <3>2, <3>3
    <3> QED BY <1>2, <2>2, <3>3, <3>4 DEF TypeOK
  <2> QED BY <1>3, <2>1, <2>2
<1>7. TypeOK'
  BY <1>1, <1>2, <1>3, <1>4, <1>5, <1>6 DEF TypeOK
<1>8. Bounds'
  BY <1>1, <1>2, <1>5 DEF IInv, Bounds, TypeOK
<1>9. InOrder'
  <2>1. \A h \in Gens : h > gen => h # g
    BY <1>2 DEF TypeOK
  <2> QED BY <1>1, <1>3, <1>4, <1>5, <1>6, <2>1 DEF IInv, Sound, InOrder
<1>10. Proofs'
  BY <1>1, <1>3, <1>4, <1>5, <1>6 DEF IInv, Sound, Proofs
<1>11. Waiting' /\ Spliced'
  BY <1>1, <1>3 DEF IInv, Sound, Waiting, Spliced, IsStream
<1> QED BY <1>7, <1>8, <1>9, <1>10, <1>11 DEF IInv, Sound

(* The hand-off writes to the attached chain only, and passes on what waits. *)
LEMMA HandsOff ==
  ASSUME TypeOK, Waiting, ~handed, chain # 0, UNCHANGED chain,
         NEW cs, cs \subseteq Call, NEW frames \in Seq(Gens \X Nat), HandOff(cs, frames)
  PROVE  /\ seen' = frames /\ handed' = TRUE /\ buffer' = <<>>
         /\ inbox' \in [Gens -> Seq(Call)] /\ \A g \in Gens \ {chain} : inbox'[g] = <<>>
<1> USE GensFacts
<1>0. chain \in Gens
  BY DEF TypeOK, Gens
<1>1. seen = <<>> /\ chain \in Gens /\ inbox \in [Gens -> Seq(Call)] /\ \A g \in Gens : inbox[g] = <<>>
  BY <1>0 DEF Waiting, TypeOK
<1>2. seen' = frames
  BY <1>1, ConcatEmptySeq DEF HandOff
<1>3. PICK n \in {0, 1} : \E s \in [1 .. n -> cs] : inbox' = [inbox EXCEPT ![chain] = @ \o s]
  BY DEF HandOff
<1>4. PICK s \in [1 .. n -> cs] : inbox' = [inbox EXCEPT ![chain] = @ \o s]
  BY <1>3
<1>5. s \in Seq(Call)
  <2>1. s \in [1 .. n -> Call] /\ n \in Nat
    BY <1>4
  <2> QED BY <2>1
<1>6. inbox[chain] \o s \in Seq(Call)
  BY <1>1, <1>5, ConcatProperties
<1>7. inbox' \in [Gens -> Seq(Call)] /\ \A g \in Gens \ {chain} : inbox'[g] = <<>>
  BY <1>1, <1>4, <1>6
<1> QED BY <1>2, <1>7 DEF HandOff

LEMMA HandOffKeeps ==
  ASSUME IInv, ~handed, chain # 0, chain \in ran,
         UNCHANGED <<chains, buried, gen, chain, attempts, timer, said, eof, alive>>,
         execed' \in BOOLEAN, got' \in [Gens -> Nat], Bounds', \A g \in Gens : g > gen => got'[g] = 0,
         NEW cs, cs \subseteq Call, NEW frames \in Seq(Gens \X Nat), HandOff(cs, frames),
         Len(frames) = got'[chain], \A i \in 1 .. Len(frames) : frames[i] = <<chain, i>>
  PROVE  IInv'
<1>1. /\ seen' = frames /\ handed' = TRUE /\ buffer' = <<>>
      /\ inbox' \in [Gens -> Seq(Call)] /\ \A g \in Gens \ {chain} : inbox'[g] = <<>>
  BY HandsOff DEF IInv, Sound
<1>2. UNCHANGED <<stage, ran, err, out>>
  BY DEF chains
<1>3. fate' = [c \in Call |-> IF c \in cs THEN "sent" ELSE fate[c]]
  BY DEF HandOff
<1>4. TypeOK'
  <2>1. handed' \in BOOLEAN
    BY <1>1, Zenon
  <2>2. buffer' \in Seq(Gens \X Nat) /\ seen' \in Seq(Gens \X Nat)
    BY <1>1
  <2> QED BY <1>1, <1>2, <1>3, <2>1, <2>2 DEF IInv, TypeOK
<1>5. InOrder'
  BY <1>2 DEF IInv, Sound, InOrder
<1>6. Proofs'
  BY <1>2 DEF IInv, Sound, Proofs
<1>7. Waiting' /\ Spliced'
  BY <1>1, <1>2 DEF Waiting, Spliced, IsStream
<1> QED BY <1>4, <1>5, <1>6, <1>7 DEF IInv, Sound

-----------------------------------------------------------------------------
(* The client's requests.                                                   *)
LEMMA CallKeeps ==
  ASSUME IInv, NEW c \in Call, CallHeld(c) \/ CallAnswered(c) \/ CallForwarded(c)
  PROVE  IInv'
<1> USE GensFacts
<1>1. /\ UNCHANGED <<stage, ran, err, out, got, buried, gen, chain, execed, attempts, timer, said, eof, alive>>
      /\ TypeOK
  BY DEF CallHeld, CallAnswered, CallForwarded, Arrives, chains, link, IInv
<1>2. Bounds'
  BY <1>1 DEF IInv, Bounds
<1>3. CASE ~handed /\ MayHandOff(execed) /\ HandOff({c}, buffer)
  <2>1. chain # 0 /\ chain \in ran /\ IsStream(buffer) /\ buffer \in Seq(Gens \X Nat)
    BY <1>1, <1>3 DEF MayHandOff, IInv, Sound, Proofs, Waiting, TypeOK
  <2>2. execed' \in BOOLEAN /\ got' \in [Gens -> Nat] /\ \A g \in Gens : g > gen => got'[g] = 0
    BY <1>1 DEF IInv, TypeOK, Sound, InOrder
  <2>3. UNCHANGED <<chains, buried, gen, chain, attempts, timer, said, eof, alive>>
    BY <1>1 DEF chains
  <2>4. {c} \subseteq Call /\ Len(buffer) = got'[chain] /\ \A i \in 1 .. Len(buffer) : buffer[i] = <<chain, i>>
    BY <1>1, <2>1 DEF IsStream
  <2> QED BY <1>2, <1>3, <2>1, <2>2, <2>3, <2>4, HandOffKeeps
<1>4. CASE UNCHANGED <<inbox, seen, buffer, handed>>
  <2>1. \E f \in {"answered", "worktree_wait", "proxy_warming", "chain_restarting", "chain_exhausted", "sent"} :
          fate' = [fate EXCEPT ![c] = f]
    BY <1>1, <1>4 DEF CallHeld, CallAnswered, CallForwarded, HandOff, TypeOK
  <2>2. TypeOK'
    BY <1>1, <1>4, <2>1 DEF TypeOK
  <2>3. Sound'
    BY <1>1, <1>4 DEF IInv, Sound, InOrder, Proofs, Waiting, Spliced, IsStream
  <2> QED BY <1>2, <2>2, <2>3 DEF IInv
<1>5. CASE CallForwarded(c)
  <2>1. /\ handed /\ UNCHANGED <<seen, buffer, handed>> /\ fate' = [fate EXCEPT ![c] = "sent"]
        /\ inbox' = [inbox EXCEPT ![chain] = Append(@, c)]
    BY <1>5 DEF CallForwarded
  <2>2. chain \in Gens
    BY <1>1, <2>1 DEF IInv, Sound, Spliced, TypeOK, Gens
  <2>3. inbox' \in [Gens -> Seq(Call)] /\ \A g \in Gens \ {chain} : inbox'[g] = inbox[g]
    BY <1>1, <2>1, <2>2 DEF TypeOK
  <2>4. TypeOK'
    BY <1>1, <2>1, <2>3 DEF TypeOK
  <2>5. Sound'
    BY <1>1, <2>1, <2>3 DEF IInv, Sound, InOrder, Proofs, Waiting, Spliced, IsStream
  <2> QED BY <1>2, <2>4, <2>5 DEF IInv
<1> QED BY <1>3, <1>4, <1>5 DEF CallHeld, CallAnswered

-----------------------------------------------------------------------------
(* What the shim reads.  A line of a chain that was replaced is no proof     *)
(* about the one attached.                                                  *)
LEMMA ReadErrKeeps == ASSUME IInv, NEW g \in Gens, ReadErr(g) PROVE IInv'
<1> USE GensFacts
<1>1. /\ UNCHANGED <<stage, ran, out, got, buried, gen, chain, attempts, timer, fate, inbox, seen, buffer,
                     handed, eof, alive>>
      /\ err' = [err EXCEPT ![g] = Tail(@)] /\ err[g] # <<>> /\ TypeOK
  BY DEF ReadErr, client, IInv
<1>2. /\ err[g] \in Seq({"wait", "exec"}) /\ Tail(err[g]) \in Seq({"wait", "exec"})
      /\ Head(err[g]) = err[g][1] /\ 1 \in 1 .. Len(err[g])
      /\ \A i \in 1 .. Len(Tail(err[g])) : i + 1 \in 1 .. Len(err[g]) /\ Tail(err[g])[i] = err[g][i + 1]
  BY <1>1 DEF TypeOK
<1>3. \A i \in 1 .. Len(err[g]) : err[g][i] = "exec" => g \in ran
  BY DEF IInv, Sound, Proofs
<1>4. /\ err' \in [Gens -> Seq({"wait", "exec"})] /\ \A h \in Gens \ {g} : err'[h] = err[h]
      /\ \A i \in 1 .. Len(err'[g]) : err'[g][i] = "exec" => g \in ran
      /\ err[g] = <<>> => err'[g] = <<>>
  <2>1. err'[g] = Tail(err[g]) /\ err' \in [Gens -> Seq({"wait", "exec"})]
        /\ \A h \in Gens \ {g} : err'[h] = err[h]
    BY <1>1, <1>2 DEF TypeOK
  <2>2. \A i \in 1 .. Len(err'[g]) : err'[g][i] = "exec" => g \in ran
    BY <1>2, <1>3, <2>1
  <2> QED BY <1>1, <2>1, <2>2
<1>5. /\ execed' \in BOOLEAN /\ said' \in {"worktree_wait", "proxy_warming", "chain_restarting", "chain_exhausted"}
      /\ execed' /\ chain # 0 => chain \in ran
  <2>1. CASE Stale(g)
    BY <1>1, <2>1 DEF ReadErr, TypeOK, IInv, Sound, Proofs
  <2>2. CASE ~Stale(g)
    <3>1. execed' = (execed \/ Head(err[g]) = "exec") /\ said' \in {"worktree_wait", "proxy_warming"}
      BY <2>2 DEF ReadErr
    <3>2. execed' /\ chain # 0 => chain \in ran
      BY <1>2, <1>3, <2>2, <3>1 DEF Stale, IInv, Sound, Proofs
    <3>3. execed' \in BOOLEAN
      BY <1>1, <3>1, Zenon DEF TypeOK
    <3> QED BY <3>1, <3>2, <3>3
  <2> QED BY <2>1, <2>2
<1>6. TypeOK' /\ Bounds'
  BY <1>1, <1>4, <1>5 DEF TypeOK, IInv, Bounds
<1>7. InOrder'
  BY <1>1, <1>4 DEF IInv, Sound, InOrder
<1>8. Proofs'
  BY <1>1, <1>4, <1>5 DEF IInv, Sound, Proofs
<1>9. Waiting' /\ Spliced'
  BY <1>1 DEF IInv, Sound, Waiting, Spliced, IsStream
<1> QED BY <1>6, <1>7, <1>8, <1>9 DEF IInv, Sound

(* The next frame continues the stream of its chain.                        *)
LEMMA NextFrame ==
  ASSUME TypeOK, NEW frames \in Seq(Gens \X Nat), IsStream(frames), chain \in Gens
  PROVE  LET more == Append(frames, <<chain, got[chain] + 1>>)
         IN  /\ more \in Seq(Gens \X Nat) /\ Len(more) = got[chain] + 1
             /\ \A i \in 1 .. Len(more) : more[i] = <<chain, i>>
<1> DEFINE f == <<chain, got[chain] + 1>>
           more == Append(frames, f)
<1>1. f \in Gens \X Nat
  BY DEF TypeOK
<1> HIDE DEF f
<1>2. more \in Seq(Gens \X Nat) /\ Len(more) = Len(frames) + 1
      /\ \A i \in 1 .. Len(more) : more[i] = IF i = Len(frames) + 1 THEN f ELSE frames[i]
  BY <1>1
<1>3. Len(frames) \in Nat
  OBVIOUS
<1> HIDE DEF more
<1>4. Len(frames) = got[chain] /\ \A i \in 1 .. Len(frames) : frames[i] = <<chain, i>>
  BY DEF IsStream
<1>5. ASSUME NEW i \in 1 .. Len(more) PROVE more[i] = <<chain, i>>
  <2>1. CASE i = Len(frames) + 1
    BY <1>2, <1>4, <2>1 DEF f
  <2>2. CASE i # Len(frames) + 1
    <3>1. i \in 1 .. Len(frames)
      BY <1>2, <1>3, <2>2
    <3> QED BY <1>2, <1>4, <2>2, <3>1
  <2> QED BY <2>1, <2>2
<1>6. more \in Seq(Gens \X Nat) /\ Len(more) = got[chain] + 1
  BY <1>2, <1>4
<1> QED BY <1>5, <1>6 DEF f, more

LEMMA ReadFrameKeeps == ASSUME IInv, NEW g \in Gens, ReadFrame(g) PROVE IInv'
<1> USE GensFacts
<1> DEFINE f == <<g, got[g] + 1>>
<1>1. /\ UNCHANGED <<chains, stage, ran, err, out, buried, gen, chain, attempts, timer, said, eof, alive>>
      /\ got' = [got EXCEPT ![g] = @ + 1] /\ got[g] < out[g] /\ TypeOK /\ Sound
  BY DEF ReadFrame, Read, OutUnchanged, chains, IInv
<1>2. /\ got' \in [Gens -> Nat] /\ got'[g] = got[g] + 1 /\ \A h \in Gens \ {g} : got'[h] = got[h]
      /\ got[g] \in Nat /\ out[g] \in Nat /\ g \in ran /\ g <= gen
  <2>1. got[g] \in Nat /\ out[g] \in Nat /\ got \in [Gens -> Nat]
    BY <1>1 DEF TypeOK
  <2>2. out[g] > 0
    BY <1>1, <2>1
  <2>3. g \in ran /\ ~(g > gen)
    BY <1>1, <2>2 DEF Sound, Proofs, InOrder
  <2> QED BY <1>1, <2>1, <2>3 DEF TypeOK
<1>3. Bounds' /\ \A h \in Gens : h > gen => got'[h] = 0
  <2>1. \A h \in Gens : got[h] <= out[h] /\ (h > gen => got[h] = 0 /\ h # g)
    BY <1>1, <1>2 DEF IInv, Bounds, InOrder, Sound, TypeOK
  <2>2. \A h \in Gens : got'[h] <= out'[h]
    BY <1>1, <1>2, <2>1
  <2> QED BY <1>2, <2>1, <2>2 DEF Bounds
<1>4. f \in Gens \X Nat
  BY <1>2
<1> HIDE DEF f
<1>5. CASE Stale(g)
  <2>1. UNCHANGED <<execed, fate, inbox, seen, buffer, handed>> /\ g # chain
    BY <1>5 DEF ReadFrame, Stale, client
  <2>2. TypeOK'
    BY <1>1, <1>2, <2>1 DEF TypeOK
  <2>3. chain # 0 => chain \in Gens
    BY <1>1 DEF TypeOK, Gens
  <2>4. InOrder' /\ Proofs'
    BY <1>1, <1>3, <2>1 DEF Sound, InOrder, Proofs
  <2>5. Waiting' /\ Spliced'
    BY <1>1, <1>2, <2>1, <2>3 DEF Sound, Waiting, Spliced, IsStream
  <2> QED BY <1>3, <2>2, <2>4, <2>5 DEF IInv, Sound
<1>6. CASE ~Stale(g) /\ handed
  <2>1. chain = g /\ execed' = TRUE /\ seen' = Append(seen, f) /\ UNCHANGED <<fate, inbox, buffer, handed>>
    BY <1>1, <1>6 DEF ReadFrame, Stale, Sound, Spliced, f
  <2>2. LET more == seen'
        IN  /\ more \in Seq(Gens \X Nat) /\ Len(more) = got[chain] + 1
            /\ \A i \in 1 .. Len(more) : more[i] = <<chain, i>>
    BY <1>1, <1>6, <2>1, NextFrame DEF Sound, Spliced, TypeOK, f
  <2>3. execed' \in BOOLEAN
    BY <2>1, Zenon
  <2>4. TypeOK'
    BY <1>1, <1>2, <2>1, <2>2, <2>3 DEF TypeOK
  <2>5. InOrder' /\ Proofs'
    BY <1>1, <1>2, <1>3, <2>1 DEF Sound, InOrder, Proofs
  <2>6. Waiting' /\ Spliced'
    BY <1>1, <1>2, <1>6, <2>1, <2>2 DEF Sound, Waiting, Spliced, IsStream
  <2> QED BY <1>3, <2>4, <2>5, <2>6 DEF IInv, Sound
<1>7. CASE ~Stale(g) /\ ~handed
  <2>1. execed' = TRUE /\ (chain # 0 => chain = g) /\ buffer \in Seq(Gens \X Nat)
    BY <1>1, <1>7 DEF ReadFrame, Stale, TypeOK
  <2>2. chain = g => LET more == Append(buffer, f)
                     IN  /\ more \in Seq(Gens \X Nat) /\ Len(more) = got[chain] + 1
                         /\ \A i \in 1 .. Len(more) : more[i] = <<chain, i>>
    BY <1>1, <1>7, <2>1, NextFrame DEF Sound, Waiting, TypeOK, f
  <2>3. execed' \in BOOLEAN
    BY <2>1, Zenon
  <2>4. CASE chain # 0 /\ HandOff({}, Append(buffer, f))
    BY <1>1, <1>2, <1>3, <1>7, <2>1, <2>2, <2>3, <2>4, HandOffKeeps
  <2>5. CASE buffer' = Append(buffer, f) /\ UNCHANGED <<fate, inbox, seen, handed>>
    <3>1. buffer' \in Seq(Gens \X Nat)
      BY <1>4, <2>1, <2>5
    <3>2. TypeOK'
      BY <1>1, <1>2, <2>3, <2>5, <3>1 DEF TypeOK
    <3>3. InOrder' /\ Proofs'
      BY <1>1, <1>2, <1>3, <2>1 DEF Sound, InOrder, Proofs
    <3>4. Waiting' /\ Spliced'
      BY <1>1, <1>2, <1>7, <2>1, <2>2, <2>5 DEF Sound, Waiting, Spliced, IsStream
    <3> QED BY <1>3, <3>2, <3>3, <3>4 DEF IInv, Sound
  <2> QED BY <1>7, <2>4, <2>5 DEF ReadFrame, MayHandOff, f
<1> QED BY <1>5, <1>6, <1>7

-----------------------------------------------------------------------------
(* Chains end and follow each other.                                        *)
LEMMA ChainExitsKeeps == ASSUME IInv, NEW g \in Gens, ChainExits(g) PROVE IInv'
<1> USE GensFacts
<1>1. /\ UNCHANGED <<stage, ran, err, out, got, gen, fate, inbox, seen, buffer, handed, eof>>
      /\ stage[g] = "dead" /\ g \notin buried /\ buried' = buried \cup {g} /\ TypeOK /\ Sound
  BY DEF ChainExits, chains, client, IInv
<1>2. g = chain /\ chain = gen /\ attempts = gen - 1 /\ ~timer /\ gen \in Nat
  <2>1. ~(g > gen) /\ gen \in Nat
    BY <1>1 DEF Sound, InOrder, TypeOK
  <2>2. g = chain
    BY <1>1, <2>1 DEF Sound, InOrder
  <2> QED BY <1>1, <2>1, <2>2 DEF Sound, InOrder
<1>3. Bounds'
  BY <1>1 DEF IInv, Bounds
<1>4. CASE handed
  <2>1. UNCHANGED <<chain, execed, attempts, timer, said>> /\ alive' = FALSE
    BY <1>4 DEF ChainExits, link
  <2>2. alive' \in BOOLEAN
    BY <2>1, Zenon
  <2>3. TypeOK'
    BY <1>1, <2>1, <2>2 DEF TypeOK
  <2>4. InOrder' /\ Proofs' /\ Waiting' /\ Spliced'
    BY <1>1, <2>1 DEF Sound, InOrder, Proofs, Waiting, Spliced, IsStream
  <2> QED BY <1>3, <2>3, <2>4 DEF IInv, Sound
<1>5. CASE ~handed
  <2>1. /\ UNCHANGED <<alive, execed>> /\ chain' = 0
        /\ UNCHANGED <<attempts, timer, said>> \/ Rechains
    BY <1>2, <1>5 DEF ChainExits, Stale
  <2>2. /\ attempts' \in 0 .. RechainMax + 1 /\ timer' \in BOOLEAN
        /\ said' \in {"worktree_wait", "proxy_warming", "chain_restarting", "chain_exhausted"}
        /\ timer' => gen = attempts' /\ attempts' <= RechainMax
    <3>1. CASE UNCHANGED <<attempts, timer, said>>
      BY <1>1, <1>2, <3>1 DEF TypeOK
    <3>2. CASE Rechains
      <4>0. attempts' = attempts + 1 /\ timer' = (attempts < RechainMax)
        BY <3>2, Zenon DEF Rechains
      <4>1. attempts' = gen /\ (timer' => attempts < RechainMax)
        <5>1. attempts' = gen
          BY <1>2, <4>0
        <5>2. timer' => attempts < RechainMax
          BY <4>0, Zenon
        <5> QED BY <5>1, <5>2
      <4>2. timer' \in BOOLEAN /\ said' \in {"chain_restarting", "chain_exhausted"}
        BY <3>2 DEF Rechains
      <4>3. gen \in 0 .. RechainMax + 1
        BY <1>1 DEF TypeOK
      <4>4. timer' => gen = attempts' /\ attempts' <= RechainMax
        BY <1>2, <4>1, <4>3
      <4>5. attempts' \in 0 .. RechainMax + 1
        BY <4>1, <4>3
      <4> QED BY <4>2, <4>4, <4>5
    <3> QED BY <2>1, <3>1, <3>2
  <2>3. TypeOK'
    <3>1. chain' \in 0 .. gen' /\ buried' \subseteq Gens
      BY <1>1, <1>2, <2>1 DEF TypeOK
    <3> QED BY <1>1, <2>1, <2>2, <3>1 DEF TypeOK
  <2>4. InOrder'
    BY <1>1, <1>2, <2>1, <2>2 DEF Sound, InOrder
  <2>5. Proofs' /\ Waiting' /\ Spliced'
    BY <1>1, <1>5, <2>1 DEF Sound, Proofs, Waiting, Spliced
  <2> QED BY <1>3, <2>3, <2>4, <2>5 DEF IInv, Sound
<1> QED BY <1>4, <1>5

(* A new chain starts with nothing known of it and nothing waiting.          *)
LEMMA RechainKeeps == ASSUME IInv, RechainTimer PROVE IInv'
<1> USE GensFacts
<1>1. /\ UNCHANGED <<ran, err, out, got, buried, attempts, fate, inbox, seen, handed, eof, alive>>
      /\ timer /\ timer' = FALSE /\ buffer' = <<>> /\ execed' = FALSE /\ said' = "proxy_warming"
      /\ stage' = [stage EXCEPT ![gen + 1] = "launcher"] /\ chain' = gen + 1 /\ gen' = gen + 1
      /\ TypeOK /\ Sound
  BY DEF RechainTimer, Spawned, IInv
<1>2. chain = 0 /\ gen = attempts /\ gen \in Nat /\ gen + 1 \in Gens /\ ~handed
  <2>1. chain = 0 /\ gen = attempts /\ attempts <= RechainMax /\ gen \in Nat
    BY <1>1 DEF Sound, InOrder, TypeOK
  <2> QED BY <1>1, <2>1 DEF Gens, Sound, Spliced
<1>3. stage' \in [Gens -> {"none", "launcher", "proxy", "dead"}] /\ stage'[gen + 1] = "launcher"
      /\ \A g \in Gens \ {gen + 1} : stage'[g] = stage[g]
  BY <1>1, <1>2 DEF TypeOK
<1>4. TypeOK'
  <2>1. timer' \in BOOLEAN /\ execed' \in BOOLEAN
    BY <1>1, Zenon
  <2>2. gen' \in 0 .. RechainMax + 1 /\ chain' \in 0 .. gen' /\ buffer' \in Seq(Gens \X Nat)
    BY <1>1, <1>2 DEF Gens
  <2> QED BY <1>1, <1>3, <2>1, <2>2 DEF TypeOK
<1>5. Bounds'
  BY <1>1 DEF IInv, Bounds
<1>6. InOrder'
  <2>1. \A g \in Gens : g > gen + 1 => g > gen /\ g # gen + 1
    BY <1>2
  <2>2. \A g \in Gens : g <= gen + 1 => g \in buried \/ g = gen + 1
    <3>1. \A g \in Gens : g <= gen + 1 => g <= gen \/ g = gen + 1
      BY <1>2
    <3> QED BY <1>1, <1>2, <3>1 DEF Sound, InOrder
  <2>3. gen' - 1 = attempts
    BY <1>1, <1>2
  <2> QED BY <1>1, <1>3, <2>1, <2>2, <2>3 DEF Sound, InOrder
<1>7. Proofs'
  BY <1>1, <1>2, <1>3 DEF Sound, Proofs
<1>8. Waiting' /\ Spliced'
  <2>1. got[gen + 1] = 0 /\ Len(buffer') = 0
    BY <1>1, <1>2 DEF Sound, InOrder
  <2> QED BY <1>1, <1>2, <2>1 DEF Sound, Waiting, Spliced, IsStream
<1> QED BY <1>4, <1>5, <1>6, <1>7, <1>8 DEF IInv, Sound

LEMMA RestKeeps == ASSUME IInv, Eof \/ EofEnds \/ UNCHANGED vars PROVE IInv'
<1>1. /\ UNCHANGED <<stage, ran, err, out, got, buried, gen, chain, execed, attempts, timer, said, fate,
                     inbox, seen, buffer, handed>>
  BY DEF Eof, EofEnds, chains, link, client, vars
<1>2. eof' \in BOOLEAN /\ alive' \in BOOLEAN
  <2>1. CASE Eof
    BY <2>1, Zenon DEF Eof
  <2>2. CASE EofEnds \/ UNCHANGED vars
    BY <2>2, Zenon DEF EofEnds, vars, IInv, TypeOK
  <2> QED BY <2>1, <2>2
<1>3. TypeOK'
  BY <1>1, <1>2 DEF IInv, TypeOK
<1>4. Bounds' /\ Sound'
  BY <1>1 DEF IInv, Bounds, Sound, InOrder, Proofs, Waiting, Spliced, IsStream
<1> QED BY <1>3, <1>4 DEF IInv

-----------------------------------------------------------------------------
(* The inductive invariant: one chain after the other, with proofs that are, *)
(* and a stream that waits for the hand-off or continues after it.           *)
THEOREM Invariance == Spec => []IInv
<1>1. IInv /\ [Next]_vars => IInv'
  BY ChainKeeps, CallKeeps, ReadErrKeeps, ReadFrameKeeps, ChainExitsKeeps, RechainKeeps, RestKeeps
     DEF Next
<1> QED BY InitIInv, <1>1, PTL DEF Spec

(* No request reaches a launcher that still waits (godot-mcp-shim.mjs:432),  *)
(* for any number of requests, chains and frames and whatever lines of dead *)
(* chains are read late.                                                    *)
THEOREM NoLauncherIsWritten == Spec => []NeverToALauncher
<1>1. IInv => NeverToALauncher
  BY DEF IInv, Sound, Waiting, Spliced, NeverToALauncher
<1> QED BY <1>1, Invariance, PTL

(* What the client reads is the stream of the one chain that is written to,  *)
(* from its first frame on, each frame once and in order                    *)
(* (godot-mcp-shim.mjs:353-371, 465-479).                                   *)
THEOREM StreamIsOne == Spec => []OneStream
<1>1. IInv => OneStream
  <2>1. ASSUME IInv, ~handed PROVE OneStream
    BY <2>1 DEF IInv, Sound, Waiting, OneStream
  <2>2. ASSUME IInv, handed PROVE OneStream
    BY <2>2 DEF IInv, Sound, Spliced, IsStream, OneStream
  <2> QED BY <2>1, <2>2
<1> QED BY <1>1, Invariance, PTL

-----------------------------------------------------------------------------
(* The router behind the splice, for any calls of any kinds.                *)

(* A call waits for the editor's slot, and is not the one being sent again. *)
Waits(c) == c \in takeover.waiters /\ takeover.probe # c

(* Where a call is excludes every other place.  A restart is answered when  *)
(* its hold times out and may still be at the server or wait for the slot.  *)
Apart(c) ==
  /\ copies[c] \in 0 .. 1
  /\ c \in todo => c \notin pending /\ copies[c] = 0 /\ c \notin inner /\ ~Waits(c)
  /\ c \in pending => copies[c] = 0 /\ c \notin inner /\ ~Waits(c)
  /\ copies[c] > 0 => c \notin inner /\ ~Waits(c)
  /\ c \in inner => ~Waits(c)
  /\ Kind[c] # "restart" =>
       /\ answers[c] <= 1
       /\ answers[c] > 0 => c \notin todo /\ c \notin pending /\ copies[c] = 0
                            /\ c \notin inner /\ ~Waits(c)

(* The timer does not run while the probe is away, the probe is one of the  *)
(* waiters, and what is held for is a restart.                              *)
SlotFit ==
  /\ takeover.timer => takeover.probe = None
  /\ takeover.probe # None => takeover.probe \in takeover.waiters
  /\ hold # None => Kind[hold] = "restart"

RouterInv == Router!TypeOK /\ SlotFit /\ \A c \in Routed : Apart(c)

-----------------------------------------------------------------------------
LEMMA AnswerEffect ==
  ASSUME answers \in [Routed -> Nat], NEW cs, Router!Answer(cs)
  PROVE  /\ answers' \in [Routed -> Nat]
         /\ \A c \in Routed : answers'[c] = IF c \in cs THEN answers[c] + 1 ELSE answers[c]
BY DEF Router!Answer

LEMMA PutEffect ==
  ASSUME NEW cs \in SUBSET Routed, NEW n, NEW from \in [Routed -> Nat], lost \subseteq Routed,
         Router!Put(cs, n, from)
  PROVE  /\ copies' \in [Routed -> Nat] /\ lost' \subseteq Routed
         /\ \A c \in Routed : \/ copies'[c] = from[c]
                              \/ c \in cs /\ copies'[c] = from[c] + 1
BY DEF Router!Put

(* The queue is flushed: a held call goes to one place, the others stay     *)
(* where they were.                                                         *)
FlushedCall(c, also, from) ==
  \/ /\ copies'[c] = from[c] /\ (c \in inner' <=> c \in inner)
     /\ answers'[c] = IF c \in also THEN answers[c] + 1 ELSE answers[c]
  \/ /\ c \in pending /\ c \notin pending' /\ copies'[c] = from[c] + 1
     /\ (c \in inner' <=> c \in inner)
     /\ answers'[c] = IF c \in also THEN answers[c] + 1 ELSE answers[c]
  \/ /\ c \in pending /\ c \notin pending' /\ copies'[c] = from[c] /\ c \in inner'
     /\ answers'[c] = IF c \in also THEN answers[c] + 1 ELSE answers[c]
  \/ /\ c \in pending /\ c \notin pending' /\ copies'[c] = from[c]
     /\ (c \in inner' <=> c \in inner) /\ answers'[c] = answers[c] + 1

LEMMA FlushEffect ==
  ASSUME Router!TypeOK, NEW n, NEW also \in SUBSET Routed, NEW from \in [Routed -> Nat],
         Router!FlushPending(n, also, from)
  PROVE  /\ answers' \in [Routed -> Nat] /\ copies' \in [Routed -> Nat]
         /\ pending' \subseteq pending /\ inner' \subseteq Routed /\ lost' \subseteq Routed
         /\ hung' \in BOOLEAN
         /\ hung' \/ pending' = {}
         /\ \A c \in Routed : FlushedCall(c, also, from)
<1> DEFINE uis == {c \in pending : Kind[c] = "ui"}
<1>0. answers \in [Routed -> Nat] /\ pending \subseteq Routed /\ lost \subseteq Routed /\ inner \subseteq Routed
      /\ hung \in BOOLEAN
  BY DEF Router!TypeOK
<1>1. CASE hung' = TRUE /\ Router!Answer(also) /\ copies' = from /\ UNCHANGED <<pending, inner, lost>>
  BY <1>1, <1>0, AnswerEffect DEF FlushedCall
<1>2. CASE /\ pending' = {} /\ UNCHANGED hung
           /\ Router!Put(pending \ uis, n, from)
           /\ \/ inner' = inner \cup uis /\ Router!Answer(also)
              \/ UNCHANGED inner /\ Router!Answer(also \cup uis)
  <2>1. /\ copies' \in [Routed -> Nat] /\ lost' \subseteq Routed
        /\ \A c \in Routed : \/ copies'[c] = from[c]
                             \/ c \in pending \ uis /\ copies'[c] = from[c] + 1
    BY <1>2, <1>0, PutEffect
  <2>2. CASE inner' = inner \cup uis /\ Router!Answer(also)
    BY <1>2, <2>1, <2>2, <1>0, AnswerEffect DEF FlushedCall
  <2>3. CASE UNCHANGED inner /\ Router!Answer(also \cup uis)
    BY <1>2, <2>1, <2>3, <1>0, AnswerEffect DEF FlushedCall
  <2> QED BY <1>2, <2>2, <2>3
<1> QED BY <1>1, <1>2 DEF Router!FlushPending

(* A flush that takes nothing but the queue, and answers a restart, keeps    *)
(* the calls apart.                                                         *)
LEMMA FlushKeeps ==
  ASSUME RouterInv, NEW n, NEW also \in SUBSET Routed, NEW from \in [Routed -> Nat],
         \A c \in also : Kind[c] = "restart",
         \A c \in Routed : from[c] <= copies[c],
         Router!FlushPending(n, also, from), UNCHANGED <<todo, takeover>>
  PROVE  \A c \in Routed : Apart(c)'
<1> SUFFICES ASSUME NEW c \in Routed PROVE Apart(c)'
  OBVIOUS
<1>1. FlushedCall(c, also, from) /\ pending' \subseteq pending
  BY FlushEffect DEF RouterInv
<1>2. Apart(c) /\ from[c] \in Nat /\ from[c] <= copies[c] /\ copies[c] \in Nat /\ answers[c] \in Nat
      /\ (c \in also => Kind[c] = "restart")
  BY DEF RouterInv, Router!TypeOK
<1> QED BY <1>1, <1>2 DEF Apart, FlushedCall, Waits

(* The queue is answered.                                                   *)
LEMMA RejectKeeps ==
  ASSUME RouterInv, NEW also \in SUBSET Routed, \A c \in also : Kind[c] = "restart",
         Router!RejectPending(also), UNCHANGED <<todo, inner, takeover>>,
         NEW from \in [Routed -> Nat], \A c \in Routed : from[c] <= copies[c], copies' = from
  PROVE  /\ answers' \in [Routed -> Nat] /\ pending' = {}
         /\ \A c \in Routed : Apart(c)'
<1>0. answers \in [Routed -> Nat] /\ copies \in [Routed -> Nat] /\ pending \subseteq Routed
  BY DEF RouterInv, Router!TypeOK
<1>1. /\ answers' \in [Routed -> Nat] /\ pending' = {}
      /\ \A c \in Routed : answers'[c] = IF c \in pending \cup also THEN answers[c] + 1 ELSE answers[c]
  BY <1>0, AnswerEffect DEF Router!RejectPending
<1>2. ASSUME NEW c \in Routed PROVE Apart(c)'
  <2>1. Apart(c) /\ from[c] \in Nat /\ from[c] <= copies[c] /\ copies[c] \in Nat /\ answers[c] \in Nat
        /\ (c \in also => Kind[c] = "restart")
    BY <1>0 DEF RouterInv
  <2> QED BY <1>1, <2>1 DEF Apart, Waits
<1> QED BY <1>1, <1>2

-----------------------------------------------------------------------------
(* A call arrives.                                                          *)
LEMMA ArriveKeeps ==
  ASSUME RouterInv, NEW c \in Routed,
         \/ Router!CallAnswered(c) \/ Router!CallInner(c) \/ Router!CallRestart(c)
         \/ Router!CallForwarded(c) \/ Router!CallHeld(c) \/ Router!CallCold(c)
  PROVE  RouterInv'
<1>0. /\ answers \in [Routed -> Nat] /\ copies \in [Routed -> Nat] /\ pending \subseteq Routed
      /\ inner \subseteq Routed /\ lost \subseteq Routed /\ todo \subseteq Routed /\ {c} \subseteq Routed
  BY DEF RouterInv, Router!TypeOK
<1>1. /\ c \in todo /\ todo' = todo \ {c}
      /\ UNCHANGED <<takeover, phase, dropped, npx, cli, hung, faults, watch>>
  BY DEF Router!CallAnswered, Router!CallInner, Router!CallRestart, Router!CallForwarded,
    Router!CallHeld, Router!CallCold, Router!Arrive, Router!Elsewhere, Router!warmVars,
    Router!npxVars, Router!holdVars
<1>2. \/ Router!Answer({c}) /\ UNCHANGED <<pending, copies, inner, lost, hold>>
      \/ inner' = inner \cup {c} /\ UNCHANGED <<answers, pending, copies, lost, hold>>
      \/ Router!Put({c}, npx, copies) /\ UNCHANGED <<answers, pending, inner>>
         /\ (hold' = hold \/ (hold' = c /\ Kind[c] = "restart"))
      \/ pending' = pending \cup {c} /\ UNCHANGED <<answers, copies, inner, lost, hold>>
  <2>1. CASE Router!CallAnswered(c) \/ Router!CallCold(c) \/ Router!CallHeld(c)
    BY <2>1 DEF Router!CallAnswered, Router!CallCold, Router!CallHeld, Router!holdVars
  <2>2. CASE Router!CallInner(c)
    BY <2>2 DEF Router!CallInner, Router!holdVars
  <2>3. CASE Router!CallRestart(c) \/ Router!CallForwarded(c)
    BY <2>3 DEF Router!CallRestart, Router!CallForwarded, Router!Forward, Router!holdVars
  <2> QED BY <2>1, <2>2, <2>3
<1>3. /\ answers' \in [Routed -> Nat] /\ copies' \in [Routed -> Nat] /\ pending' \subseteq Routed
      /\ inner' \subseteq Routed /\ lost' \subseteq Routed /\ hold' \in Routed \cup {None}
      /\ (hold' # None => Kind[hold'] = "restart")
  BY <1>0, <1>2, AnswerEffect, PutEffect DEF RouterInv, Router!TypeOK, SlotFit
<1>4. ASSUME NEW d \in Routed PROVE Apart(d)'
  <2>1. /\ Apart(d) /\ copies[d] \in Nat /\ answers[d] \in Nat
    BY <1>0 DEF RouterInv
  <2>2. \/ (answers'[d] = IF d = c THEN answers[d] + 1 ELSE answers[d])
           /\ UNCHANGED <<pending, copies, inner>>
        \/ inner' = inner \cup {c} /\ UNCHANGED <<answers, pending, copies>>
        \/ UNCHANGED <<answers, pending, inner>>
           /\ (copies'[d] = copies[d] \/ (d = c /\ copies'[d] = copies[d] + 1))
        \/ pending' = pending \cup {c} /\ UNCHANGED <<answers, copies, inner>>
    BY <1>0, <1>2, AnswerEffect, PutEffect
  <2> QED BY <1>1, <2>1, <2>2 DEF Apart, Waits
<1> QED BY <1>1, <1>3, <1>4 DEF RouterInv, Router!TypeOK, SlotFit

LEMMA InnerEndsKeeps == ASSUME RouterInv, NEW c \in Routed, Router!InnerEnds(c) PROVE RouterInv'
<1>0. /\ answers \in [Routed -> Nat] /\ copies \in [Routed -> Nat] /\ pending \subseteq Routed
      /\ inner \subseteq Routed /\ lost \subseteq Routed /\ todo \subseteq Routed /\ {c} \subseteq Routed
  BY DEF RouterInv, Router!TypeOK
<1>1. /\ c \in inner /\ inner' = inner \ {c}
      /\ UNCHANGED <<todo, pending, takeover, phase, dropped, npx, cli, hung, faults, hold, watch>>
  BY DEF Router!InnerEnds, Router!Elsewhere, Router!warmVars, Router!npxVars, Router!holdVars
<1>2. \/ Router!Answer({c}) /\ UNCHANGED <<copies, lost>>
      \/ Router!Put({c}, npx, copies) /\ UNCHANGED answers
  BY DEF Router!InnerEnds, Router!Forward
<1>3. answers' \in [Routed -> Nat] /\ copies' \in [Routed -> Nat] /\ lost' \subseteq Routed
  BY <1>0, <1>2, AnswerEffect, PutEffect
<1>4. ASSUME NEW d \in Routed PROVE Apart(d)'
  <2>1. /\ Apart(d) /\ copies[d] \in Nat /\ answers[d] \in Nat
    BY <1>0 DEF RouterInv
  <2>2. \/ (answers'[d] = IF d = c THEN answers[d] + 1 ELSE answers[d]) /\ UNCHANGED copies
        \/ UNCHANGED answers
           /\ (copies'[d] = copies[d] \/ (d = c /\ copies'[d] = copies[d] + 1))
    BY <1>0, <1>2, AnswerEffect, PutEffect
  <2> QED BY <1>1, <2>1, <2>2 DEF Apart, Waits
<1> QED BY <1>1, <1>3, <1>4 DEF RouterInv, Router!TypeOK, SlotFit

-----------------------------------------------------------------------------
(* The takeover.                                                            *)
LEMMA TookEffect ==
  ASSUME copies \in [Routed -> Nat], NEW c \in Routed, copies[c] > 0
  PROVE  /\ Router!Took(c) \in [Routed -> Nat]
         /\ \A d \in Routed : Router!Took(c)[d] = IF d = c THEN copies[d] - 1 ELSE copies[d]
BY DEF Router!Took

(* All waiters are answered: none of them is being sent again, or the one   *)
(* that was has just been refused.                                          *)
LEMMA FailKeeps ==
  ASSUME Router!CallsAssumption, RouterInv, Router!FailTakeover,
         UNCHANGED <<todo, pending, inner, lost, hold, watch, dropped, npx, cli, hung, faults>>,
         \/ takeover.probe = None /\ UNCHANGED copies
         \/ \E c \in Routed : takeover.probe = c /\ copies[c] > 0 /\ copies' = Router!Took(c)
  PROVE  RouterInv'
<1>0. /\ answers \in [Routed -> Nat] /\ copies \in [Routed -> Nat]
      /\ takeover \in [waiters : SUBSET Routed, probe : Routed \cup {None}, timer : BOOLEAN]
  BY DEF RouterInv, Router!TypeOK
<1>1. /\ answers' \in [Routed -> Nat]
      /\ \A c \in Routed : answers'[c] = IF c \in takeover.waiters THEN answers[c] + 1 ELSE answers[c]
      /\ takeover' = [waiters |-> {}, probe |-> None, timer |-> FALSE]
      /\ phase' \in {phase, "cold", "stale"}
  BY <1>0, AnswerEffect DEF Router!FailTakeover, Router!NoTakeover, Router!Fallen
<1>2. copies' \in [Routed -> Nat]
  BY <1>0, TookEffect
<1>3. ASSUME NEW d \in Routed PROVE Apart(d)'
  <2>1. Apart(d) /\ copies[d] \in Nat /\ answers[d] \in Nat
    BY <1>0 DEF RouterInv
  <2>2. \/ takeover.probe = None /\ copies'[d] = copies[d]
        \/ takeover.probe = d /\ copies[d] > 0 /\ copies'[d] = copies[d] - 1
        \/ takeover.probe # d /\ copies'[d] = copies[d]
    BY <1>0, TookEffect
  <2>3. d # None
    BY DEF Router!CallsAssumption
  <2> QED BY <1>1, <2>1, <2>2, <2>3 DEF Apart, Waits
<1> QED BY <1>1, <1>2, <1>3 DEF RouterInv, Router!TypeOK, SlotFit

LEMMA BusyKeeps ==
  ASSUME Router!CallsAssumption, RouterInv, NEW c \in Routed, Router!AnswerBusy(c) PROVE RouterInv'
<1>0. /\ answers \in [Routed -> Nat] /\ copies \in [Routed -> Nat] /\ c # None
      /\ takeover \in [waiters : SUBSET Routed, probe : Routed \cup {None}, timer : BOOLEAN]
  BY DEF RouterInv, Router!TypeOK, Router!CallsAssumption
<1>1. /\ copies[c] > 0 /\ copies' = Router!Took(c)
      /\ UNCHANGED <<todo, pending, inner, lost, hold, watch, dropped, npx, cli, hung, faults>>
  BY DEF Router!AnswerBusy, Router!holdVars, Router!npxVars
<1>2. copies' \in [Routed -> Nat]
      /\ \A d \in Routed : copies'[d] = IF d = c THEN copies[d] - 1 ELSE copies[d]
  BY <1>0, <1>1, TookEffect
<1>3. CASE takeover.probe = c /\ Router!FailTakeover
  BY <1>1, <1>3, <1>0, FailKeeps
<1>4. CASE /\ UNCHANGED <<answers, phase>>
           /\ \/ takeover.probe = c /\ takeover' = [takeover EXCEPT !.probe = None, !.timer = TRUE]
              \/ takeover.probe # c
                 /\ takeover' = [takeover EXCEPT !.waiters = @ \cup {c},
                                                 !.timer = @ \/ takeover.waiters = {}]
  <2>1. /\ takeover' \in [waiters : SUBSET Routed, probe : Routed \cup {None}, timer : BOOLEAN]
        /\ takeover'.waiters = takeover.waiters \cup {c}
        /\ takeover'.probe = IF takeover.probe = c THEN None ELSE takeover.probe
        /\ takeover'.timer => takeover'.probe = None \/ takeover.timer \/ takeover.waiters = {}
    <3>1. CASE takeover.probe = c /\ takeover' = [takeover EXCEPT !.probe = None, !.timer = TRUE]
      BY <3>1, <1>0 DEF RouterInv, SlotFit
    <3>2. CASE /\ takeover.probe # c
               /\ takeover' = [takeover EXCEPT !.waiters = @ \cup {c},
                                               !.timer = @ \/ takeover.waiters = {}]
      <4>1. (takeover.timer \/ takeover.waiters = {}) \in BOOLEAN /\ takeover.waiters \cup {c} \in SUBSET Routed
        BY <1>0
      <4> QED BY <3>2, <4>1, <1>0
    <3> QED BY <1>4, <3>1, <3>2
  <2>2. SlotFit'
    BY <2>1, <1>0, <1>1 DEF RouterInv, SlotFit
  <2>3. ASSUME NEW d \in Routed PROVE Apart(d)'
    <3>1. Apart(d) /\ copies[d] \in Nat /\ answers[d] \in Nat /\ d # None
      BY <1>0 DEF RouterInv, Router!CallsAssumption
    <3> QED BY <1>1, <1>2, <1>4, <2>1, <3>1 DEF Apart, Waits
  <2> QED BY <1>1, <1>2, <1>4, <2>1, <2>2, <2>3 DEF RouterInv, Router!TypeOK
<1> QED BY <1>3, <1>4 DEF Router!AnswerBusy

LEMMA ProbesKeep ==
  ASSUME Router!CallsAssumption, RouterInv, Router!TakeoverProbes PROVE RouterInv'
<1>0. /\ answers \in [Routed -> Nat] /\ copies \in [Routed -> Nat] /\ lost \subseteq Routed
      /\ takeover \in [waiters : SUBSET Routed, probe : Routed \cup {None}, timer : BOOLEAN]
  BY DEF RouterInv, Router!TypeOK
<1>1. /\ takeover.timer
      /\ UNCHANGED <<todo, answers, pending, inner, hold, watch, phase, dropped, npx, cli, hung, faults>>
  BY DEF Router!TakeoverProbes, Router!holdVars, Router!npxVars, Router!warmVars
<1>2. PICK c \in takeover.waiters : /\ takeover' = [takeover EXCEPT !.probe = c, !.timer = FALSE]
                                    /\ Router!Put({c}, npx, copies)
  BY DEF Router!TakeoverProbes, Router!Forward
<1>3. c \in Routed /\ c # None /\ {c} \in SUBSET Routed
  BY <1>0 DEF Router!CallsAssumption
<1>4. /\ copies' \in [Routed -> Nat] /\ lost' \subseteq Routed
      /\ \A d \in Routed : copies'[d] = copies[d] \/ (d = c /\ copies'[d] = copies[d] + 1)
  BY <1>2, <1>3, <1>0, PutEffect
<1>5. /\ takeover' \in [waiters : SUBSET Routed, probe : Routed \cup {None}, timer : BOOLEAN]
      /\ takeover'.waiters = takeover.waiters /\ takeover'.probe = c /\ ~takeover'.timer
  BY <1>2, <1>3, <1>0
<1>6. takeover.probe = None
  BY <1>1 DEF RouterInv, SlotFit
<1>7. SlotFit'
  BY <1>1, <1>2, <1>5 DEF RouterInv, SlotFit
<1>8. ASSUME NEW d \in Routed PROVE Apart(d)'
  <2>1. Apart(d) /\ copies[d] \in Nat /\ answers[d] \in Nat /\ d # None
    BY <1>0 DEF RouterInv, Router!CallsAssumption
  <2> QED BY <1>1, <1>2, <1>4, <1>5, <1>6, <2>1 DEF Apart, Waits
<1> QED BY <1>1, <1>4, <1>5, <1>7, <1>8 DEF RouterInv, Router!TypeOK

LEMMA ExpiresKeeps ==
  ASSUME Router!CallsAssumption, RouterInv, Router!TakeoverExpires PROVE RouterInv'
<1>1. takeover.probe = None
  BY DEF RouterInv, SlotFit, Router!TakeoverExpires
<1> QED BY <1>1, FailKeeps DEF Router!TakeoverExpires, Router!holdVars, Router!npxVars

(* An answer shows that the slot is ours: the call that was sent again is    *)
(* the only waiter that can be answered, and the others are sent.           *)
LEMMA AnswerKeeps ==
  ASSUME Router!CallsAssumption, RouterInv, NEW c \in Routed, Router!AnswerComes(c) PROVE RouterInv'
<1>0. /\ answers \in [Routed -> Nat] /\ copies \in [Routed -> Nat] /\ c # None /\ lost \subseteq Routed
      /\ takeover \in [waiters : SUBSET Routed, probe : Routed \cup {None}, timer : BOOLEAN]
      /\ phase \in {"cold", "stale", "warm", "served"} /\ faults \in Nat
  BY DEF RouterInv, Router!TypeOK, Router!CallsAssumption
<1>1. /\ copies[c] > 0 /\ Router!Answer({c}) /\ Router!Drain(c, Router!Took(c))
      /\ UNCHANGED <<todo, pending, inner, hold, watch, dropped, npx, cli, hung>>
  BY DEF Router!AnswerComes, Router!holdVars, Router!npxVars
<1>2. phase' \in {"cold", "stale", "warm", "served"} /\ faults' \in Nat
  BY <1>0 DEF Router!AnswerComes, Router!Fallen
<1>3. /\ answers' \in [Routed -> Nat]
      /\ \A d \in Routed : answers'[d] = IF d = c THEN answers[d] + 1 ELSE answers[d]
  BY <1>0, <1>1, AnswerEffect
<1>4. /\ Router!Took(c) \in [Routed -> Nat]
      /\ \A d \in Routed : Router!Took(c)[d] = IF d = c THEN copies[d] - 1 ELSE copies[d]
  BY <1>0, <1>1, TookEffect
<1>5. ASSUME NEW cs \in SUBSET Routed, c \notin cs, cs \subseteq takeover.waiters,
             Router!Put(cs, npx, Router!Took(c)),
             \/ UNCHANGED takeover /\ cs = {}
             \/ takeover' = Router!NoTakeover /\ c \in takeover.waiters
      PROVE  RouterInv'
  <2>1. /\ copies' \in [Routed -> Nat] /\ lost' \subseteq Routed
        /\ \A d \in Routed : \/ copies'[d] = Router!Took(c)[d]
                             \/ d \in cs /\ copies'[d] = Router!Took(c)[d] + 1
    BY <1>4, <1>5, <1>0, PutEffect
  <2>2. /\ takeover' \in [waiters : SUBSET Routed, probe : Routed \cup {None}, timer : BOOLEAN]
        /\ SlotFit'
        /\ takeover' = takeover \/ takeover'.waiters = {}
    <3>1. CASE UNCHANGED takeover
      BY <3>1, <1>0, <1>1 DEF RouterInv, SlotFit
    <3>2. CASE takeover' = [waiters |-> {}, probe |-> None, timer |-> FALSE]
      BY <3>2, <1>0, <1>1 DEF RouterInv, SlotFit
    <3> QED BY <1>5, <3>1, <3>2 DEF Router!NoTakeover
  <2>3. c \in takeover.waiters => takeover.probe = c
    BY <1>1, <1>0 DEF RouterInv, Apart, Waits
  <2>4. ASSUME NEW d \in Routed PROVE Apart(d)'
    <3>1. Apart(d) /\ copies[d] \in Nat /\ answers[d] \in Nat
      BY <1>0 DEF RouterInv
    <3>2. d \in cs => Waits(d)
      BY <1>5, <2>3 DEF Waits
    <3>3. Waits(d)' => Waits(d)
      BY <2>2 DEF Waits
    <3>4. \/ d = c /\ copies'[d] = copies[d] - 1
          \/ d # c /\ copies'[d] = copies[d]
          \/ d # c /\ d \in cs /\ copies'[d] = copies[d] + 1 /\ ~Waits(d)'
      BY <1>4, <1>5, <2>1, <2>2, <3>1 DEF Waits, Router!NoTakeover
    <3> QED BY <1>1, <1>3, <3>1, <3>2, <3>3, <3>4 DEF Apart
  <2> QED BY <1>1, <1>2, <1>3, <2>1, <2>2, <2>4 DEF RouterInv, Router!TypeOK
<1>6. CASE c \in takeover.waiters
  <2>1. takeover' = Router!NoTakeover /\ Router!Put(takeover.waiters \ {c}, npx, Router!Took(c))
    BY <1>1, <1>6 DEF Router!Drain
  <2> QED BY <1>5, <1>6, <2>1, <1>0
<1>7. CASE c \notin takeover.waiters
  BY <1>1, <1>5, <1>7 DEF Router!Drain
<1> QED BY <1>6, <1>7

-----------------------------------------------------------------------------
(* The held restart.                                                        *)
LEMMA FinishKeeps ==
  ASSUME RouterInv, NEW ok, NEW from \in [Routed -> Nat], \A c \in Routed : from[c] <= copies[c],
         hold # None, Router!Finish(ok, from),
         UNCHANGED <<todo, takeover, phase, dropped, npx, cli, faults>>,
         watch' \in [Routed -> {"none", "cold", "up", "late"}]
  PROVE  RouterInv'
<1>0. {hold} \in SUBSET Routed /\ (\A c \in {hold} : Kind[c] = "restart") /\ hold' = None
  BY DEF RouterInv, Router!TypeOK, SlotFit, Router!Finish
<1>1. CASE Router!FlushPending(npx, {hold}, from)
  <2>1. /\ answers' \in [Routed -> Nat] /\ copies' \in [Routed -> Nat]
        /\ pending' \subseteq pending /\ inner' \subseteq Routed /\ lost' \subseteq Routed
        /\ hung' \in BOOLEAN
    BY <1>0, <1>1, FlushEffect DEF RouterInv
  <2>2. \A c \in Routed : Apart(c)'
    BY <1>0, <1>1, FlushKeeps
  <2> QED BY <1>0, <2>1, <2>2 DEF RouterInv, Router!TypeOK, SlotFit
<1>2. CASE Router!RejectPending({hold}) /\ copies' = from /\ UNCHANGED <<inner, lost, hung>>
  <2>1. answers' \in [Routed -> Nat] /\ pending' = {} /\ \A c \in Routed : Apart(c)'
    BY <1>0, <1>2, RejectKeeps
  <2> QED BY <1>0, <1>2, <2>1 DEF RouterInv, Router!TypeOK, SlotFit
<1> QED BY <1>1, <1>2 DEF Router!Finish

LEMMA RestartKeeps ==
  ASSUME Router!CallsAssumption, RouterInv, NEW c \in Routed,
         \/ Router!RestartAck(c) \/ Router!RestartRefused(c)
         \/ Router!WatchSeesEditor(c) \/ Router!WatchEnds(c) \/ Router!RestartTimeout
  PROVE  RouterInv'
<1>0. /\ copies \in [Routed -> Nat] /\ c # None
      /\ watch \in [Routed -> {"none", "cold", "up", "late"}]
      /\ phase \in {"cold", "stale", "warm", "served"} /\ hold \in Routed \cup {None}
      /\ \A d \in Routed : copies[d] <= copies[d]
  BY DEF RouterInv, Router!TypeOK, Router!CallsAssumption
<1>1. CASE Router!RestartAck(c)
  <2>1. /\ copies[c] > 0 /\ copies' = Router!Took(c) /\ watch' = [watch EXCEPT ![c] = "cold"]
        /\ UNCHANGED <<todo, answers, pending, inner, lost, hold, takeover, phase, dropped,
                       npx, cli, hung, faults>>
    BY <1>1 DEF Router!RestartAck, Router!Elsewhere, Router!warmVars, Router!npxVars
  <2>2. /\ copies' \in [Routed -> Nat]
        /\ \A d \in Routed : copies'[d] = IF d = c THEN copies[d] - 1 ELSE copies[d]
    BY <1>0, <2>1, TookEffect
  <2>3. ASSUME NEW d \in Routed PROVE Apart(d)'
    BY <1>0, <2>1, <2>2 DEF RouterInv, Apart, Waits
  <2>4. watch' \in [Routed -> {"none", "cold", "up", "late"}]
    BY <1>0, <2>1
  <2> QED BY <2>1, <2>2, <2>3, <2>4 DEF RouterInv, Router!TypeOK, SlotFit
<1>2. CASE Router!RestartRefused(c)
  <2>1. /\ copies[c] > 0 /\ hold = c /\ Router!Finish(FALSE, Router!Took(c))
        /\ UNCHANGED <<todo, takeover, watch, phase, dropped, npx, cli, faults>>
    BY <1>2 DEF Router!RestartRefused, Router!warmVars, Router!npxVars
  <2>2. /\ Router!Took(c) \in [Routed -> Nat] /\ \A d \in Routed : Router!Took(c)[d] <= copies[d]
    BY <1>0, <2>1, TookEffect
  <2> QED BY <1>0, <2>1, <2>2, FinishKeeps
<1>3. CASE Router!WatchSeesEditor(c)
  <2>1. /\ watch' = [watch EXCEPT ![c] = "up"] /\ phase' = IF phase \in {"warm", "served"} THEN phase ELSE "warm"
        /\ UNCHANGED <<todo, answers, pending, copies, inner, lost, hold, takeover, dropped,
                       npx, cli, hung, faults>>
    BY <1>3 DEF Router!WatchSeesEditor, Router!callVars, Router!npxVars, Router!Warm
  <2>2. watch' \in [Routed -> {"none", "cold", "up", "late"}] /\ phase' \in {"cold", "stale", "warm", "served"}
    BY <1>0, <2>1
  <2>3. \A d \in Routed : Apart(d)'
    BY <2>1 DEF RouterInv, Apart, Waits
  <2> QED BY <2>1, <2>2, <2>3 DEF RouterInv, Router!TypeOK, SlotFit
<1>4. CASE Router!WatchEnds(c)
  <2>1. /\ watch' = [watch EXCEPT ![c] = "none"]
        /\ UNCHANGED <<todo, takeover, phase, dropped, npx, cli, faults>>
    BY <1>4 DEF Router!WatchEnds, Router!callVars, Router!npxVars, Router!warmVars
  <2>2. watch' \in [Routed -> {"none", "cold", "up", "late"}]
    BY <1>0, <2>1
  <2>3. CASE hold # None
    <3>1. Router!Finish(TRUE, copies) \/ Router!Finish(FALSE, copies)
      BY <1>4, <2>3 DEF Router!WatchEnds
    <3> QED BY <1>0, <2>1, <2>2, <2>3, <3>1, FinishKeeps
  <2>4. CASE hold = None
    <3>1. UNCHANGED <<answers, pending, copies, inner, lost, hold, hung>>
      BY <1>4, <2>4 DEF Router!WatchEnds, Router!callVars
    <3>2. \A d \in Routed : Apart(d)'
      BY <2>1, <3>1 DEF RouterInv, Apart, Waits
    <3> QED BY <2>1, <2>2, <3>1, <3>2 DEF RouterInv, Router!TypeOK, SlotFit
  <2> QED BY <2>3, <2>4
<1>5. CASE Router!RestartTimeout
  <2>1. /\ hold # None /\ watch' = [watch EXCEPT ![hold] = IF @ = "none" THEN @ ELSE "late"]
        /\ Router!Finish(FALSE, copies)
        /\ UNCHANGED <<todo, takeover, phase, dropped, npx, cli, faults>>
    BY <1>5 DEF Router!RestartTimeout, Router!npxVars, Router!warmVars
  <2>2. watch' \in [Routed -> {"none", "cold", "up", "late"}]
    BY <1>0, <2>1
  <2> QED BY <1>0, <2>1, <2>2, FinishKeeps
<1> QED BY <1>1, <1>2, <1>3, <1>4, <1>5

-----------------------------------------------------------------------------
(* The server's process and the warm-up.                                    *)
LEMMA FlushInv ==
  ASSUME RouterInv, NEW n, Router!FlushPending(n, {}, copies),
         UNCHANGED <<todo, takeover, hold, watch, dropped, faults>>,
         phase' \in {"cold", "stale", "warm", "served"}, cli' \in BOOLEAN,
         npx' \in {"starting", "up", "hot", "backoff", "abandoned", "gone"}
  PROVE  RouterInv'
<1>0. copies \in [Routed -> Nat] /\ \A c \in Routed : copies[c] <= copies[c]
  BY DEF RouterInv, Router!TypeOK
<1>1. /\ answers' \in [Routed -> Nat] /\ copies' \in [Routed -> Nat]
      /\ pending' \subseteq pending /\ inner' \subseteq Routed /\ lost' \subseteq Routed
      /\ hung' \in BOOLEAN
  BY <1>0, FlushEffect DEF RouterInv
<1>2. \A c \in Routed : Apart(c)'
  BY <1>0, FlushKeeps
<1> QED BY <1>1, <1>2 DEF RouterInv, Router!TypeOK, SlotFit

LEMMA StayInv ==
  ASSUME RouterInv,
         UNCHANGED <<todo, answers, pending, copies, inner, lost, takeover, hold, watch>>,
         phase' \in {"cold", "stale", "warm", "served"}, cli' \in BOOLEAN, dropped' \in BOOLEAN,
         npx' \in {"starting", "up", "hot", "backoff", "abandoned", "gone"},
         hung' \in BOOLEAN, faults' \in Nat
  PROVE  RouterInv'
<1>1. \A d \in Routed : Apart(d)'
  BY DEF RouterInv, Apart, Waits
<1> QED BY <1>1 DEF RouterInv, Router!TypeOK, SlotFit

LEMMA RejectInv ==
  ASSUME RouterInv, Router!RejectPending({}),
         UNCHANGED <<todo, takeover, hold, watch, inner, hung>>,
         lost' \subseteq Routed,
         NEW from \in [Routed -> Nat], \A c \in Routed : from[c] <= copies[c], copies' = from,
         phase' \in {"cold", "stale", "warm", "served"}, cli' \in BOOLEAN, dropped' \in BOOLEAN,
         npx' \in {"starting", "up", "hot", "backoff", "abandoned", "gone"}, faults' \in Nat
  PROVE  RouterInv'
<1>1. answers' \in [Routed -> Nat] /\ pending' = {} /\ \A c \in Routed : Apart(c)'
  BY RejectKeeps
<1> QED BY <1>1 DEF RouterInv, Router!TypeOK, SlotFit

LEMMA NpxKeeps ==
  ASSUME RouterInv, Router!NpxDies \/ Router!NpxStarts \/ Router!NpxOpens \/ Router!CliReports
  PROVE  RouterInv'
<1>0. /\ copies \in [Routed -> Nat] /\ lost \subseteq Routed /\ answers \in [Routed -> Nat]
      /\ phase \in {"cold", "stale", "warm", "served"} /\ dropped \in BOOLEAN
      /\ cli \in BOOLEAN /\ hung \in BOOLEAN /\ faults \in Nat
      /\ npx \in {"starting", "up", "hot", "backoff", "abandoned", "gone"}
  BY DEF RouterInv, Router!TypeOK
<1>1. CASE Router!NpxDies
  <2> DEFINE empty == [c \in Routed |-> 0]
  <2>1. /\ copies' = empty /\ lost' \subseteq Routed /\ npx' \in {"hot", "gone", "backoff"}
        /\ faults' \in Nat
        /\ UNCHANGED <<todo, inner, takeover, hold, watch, phase, dropped, cli, hung>>
    BY <1>0, <1>1 DEF Router!NpxDies, Router!holdVars, Router!warmVars
  <2>2. empty \in [Routed -> Nat] /\ \A c \in Routed : empty[c] <= copies[c]
    BY <1>0
  <2>3. CASE Router!RejectPending({})
    <3> HIDE DEF empty
    <3> QED BY <1>0, <2>1, <2>2, <2>3, RejectInv
  <2>4. CASE UNCHANGED <<answers, pending>>
    <3>1. ASSUME NEW d \in Routed PROVE Apart(d)'
      BY <2>1, <2>4 DEF RouterInv, Apart, Waits
    <3> QED BY <2>1, <2>2, <2>4, <3>1 DEF RouterInv, Router!TypeOK, SlotFit
  <2> QED BY <1>1, <2>3, <2>4 DEF Router!NpxDies
<1>2. ASSUME NEW n \in {"starting", "up"}, Router!Opened(n), cli' \in BOOLEAN,
             UNCHANGED <<todo, takeover, hold, watch, phase, dropped, faults>>
      PROVE  RouterInv'
  <2>1. npx' = n /\ (\/ Router!FlushPending(n, {}, copies)
                     \/ UNCHANGED <<answers, pending, copies, inner, lost, hung>>)
    BY <1>2 DEF Router!Opened
  <2>2. CASE Router!FlushPending(n, {}, copies)
    BY <1>0, <1>2, <2>1, <2>2, FlushInv
  <2>3. CASE UNCHANGED <<answers, pending, copies, inner, lost, hung>>
    BY <1>0, <1>2, <2>1, <2>3, StayInv
  <2> QED BY <2>1, <2>2, <2>3
<1>3. CASE Router!NpxStarts
  <2>1. UNCHANGED <<todo, takeover, hold, watch, phase, dropped, faults>>
    BY <1>3 DEF Router!NpxStarts, Router!holdVars, Router!warmVars
  <2>2. CASE npx' = "abandoned" /\ UNCHANGED <<answers, pending, copies, inner, lost, hung, cli>>
    BY <1>0, <2>1, <2>2, StayInv
  <2>3. CASE cli' = FALSE /\ \E n \in {"starting", "up"} : Router!Opened(n)
    BY <1>2, <2>1, <2>3
  <2> QED BY <1>3, <2>2, <2>3 DEF Router!NpxStarts
<1>4. CASE Router!NpxOpens
  BY <1>0, <1>2, <1>4 DEF Router!NpxOpens, Router!holdVars, Router!warmVars
<1>5. CASE Router!CliReports
  <2>1. /\ UNCHANGED <<todo, answers, pending, copies, inner, lost, takeover, hold, watch, phase,
                       dropped, npx, hung>>
        /\ cli' \in BOOLEAN /\ faults' \in Nat
    BY <1>0, <1>5 DEF Router!CliReports, Router!holdVars, Router!warmVars, Router!callVars
  <2> QED BY <1>0, <2>1, StayInv
<1> QED BY <1>1, <1>3, <1>4, <1>5

LEMMA WarmKeeps ==
  ASSUME RouterInv, Router!GetsWarm \/ Router!WarmFlush \/ Router!WindowEnds \/ Router!LosesWarm
  PROVE  RouterInv'
<1>0. /\ copies \in [Routed -> Nat] /\ lost \subseteq Routed /\ answers \in [Routed -> Nat]
      /\ phase \in {"cold", "stale", "warm", "served"} /\ dropped \in BOOLEAN
      /\ cli \in BOOLEAN /\ hung \in BOOLEAN /\ faults \in Nat
      /\ npx \in {"starting", "up", "hot", "backoff", "abandoned", "gone"}
      /\ \A c \in Routed : copies[c] <= copies[c]
  BY DEF RouterInv, Router!TypeOK
<1>1. CASE Router!GetsWarm \/ Router!LosesWarm
  <2>1. /\ UNCHANGED <<todo, answers, pending, copies, inner, lost, takeover, hold, watch,
                       dropped, npx, cli, hung>>
        /\ phase' \in {"warm", "cold", "stale"} /\ faults' \in Nat
    BY <1>0, <1>1 DEF Router!GetsWarm, Router!LosesWarm, Router!Fallen, Router!callVars, Router!holdVars,
      Router!npxVars
  <2> QED BY <1>0, <2>1, StayInv
<1>2. CASE Router!WarmFlush
  <2>1. phase' \in {"served", "cold"} /\ UNCHANGED <<todo, takeover, hold, watch, npx, cli, faults>>
    BY <1>2 DEF Router!WarmFlush, Router!holdVars, Router!npxVars
  <2>2. CASE /\ Router!RejectPending({}) /\ dropped' \in {dropped, dropped \/ ~Router!Ready(npx)}
             /\ UNCHANGED <<copies, inner, lost, hung>>
    <3>1. dropped' \in BOOLEAN
      BY <1>0, <2>2 DEF Router!Ready
    <3> QED BY <1>0, <2>1, <2>2, <3>1, RejectInv
  <2>3. CASE Router!FlushPending(npx, {}, copies) /\ UNCHANGED dropped
    BY <1>0, <2>1, <2>3, FlushInv
  <2> QED BY <1>2, <2>2, <2>3 DEF Router!WarmFlush
<1>3. CASE Router!WindowEnds
  <2>1. /\ Router!RejectPending({})
        /\ UNCHANGED <<todo, copies, inner, lost, takeover, hold, watch, phase, dropped, npx, cli,
                       hung, faults>>
    BY <1>3 DEF Router!WindowEnds, Router!holdVars, Router!npxVars, Router!warmVars
  <2> QED BY <1>0, <2>1, RejectInv
<1> QED BY <1>1, <1>2, <1>3

-----------------------------------------------------------------------------
LEMMA RouterInit == ASSUME Router!CallsAssumption, Router!Init PROVE RouterInv
<1>1. Router!TypeOK
  BY DEF Router!CallsAssumption, Router!Init, Router!TypeOK, Router!NoTakeover
<1>2. SlotFit
  BY DEF Router!Init, SlotFit, Router!NoTakeover
<1>3. ASSUME NEW c \in Routed PROVE Apart(c)
  BY DEF Router!Init, Apart, Waits, Router!NoTakeover
<1> QED BY <1>1, <1>2, <1>3 DEF RouterInv

LEMMA RouterStep ==
  ASSUME Router!CallsAssumption, RouterInv, [Router!Next]_Router!vars PROVE RouterInv'
<1>1. CASE UNCHANGED Router!vars
  <2>1. UNCHANGED <<todo, answers, pending, copies, inner, lost, takeover, hold, watch, phase,
                    npx, cli, dropped, hung, faults>>
    BY <1>1 DEF Router!vars, Router!callVars, Router!holdVars, Router!warmVars, Router!npxVars
  <2> QED BY <2>1, StayInv DEF RouterInv, Router!TypeOK
<1>2. CASE Router!Next
  <2>1. ASSUME NEW c \in Routed,
               \/ Router!CallAnswered(c) \/ Router!CallInner(c) \/ Router!CallRestart(c)
               \/ Router!CallForwarded(c) \/ Router!CallHeld(c) \/ Router!CallCold(c)
               \/ Router!InnerEnds(c) \/ Router!AnswerBusy(c) \/ Router!AnswerComes(c)
        PROVE  RouterInv'
    BY <2>1, ArriveKeeps, InnerEndsKeeps, BusyKeeps, AnswerKeeps
  <2>2. ASSUME NEW c \in Routed,
               \/ Router!RestartAck(c) \/ Router!RestartRefused(c)
               \/ Router!WatchSeesEditor(c) \/ Router!WatchEnds(c)
        PROVE  RouterInv'
    BY <2>2, RestartKeeps
  <2>3. CASE Router!RestartTimeout
    <3>1. hold \in Routed
      BY <2>3 DEF Router!RestartTimeout, RouterInv, Router!TypeOK
    <3> QED BY <2>3, <3>1, RestartKeeps
  <2>4. CASE Router!TakeoverProbes \/ Router!TakeoverExpires
    BY <2>4, ProbesKeep, ExpiresKeeps
  <2> QED BY <1>2, <2>1, <2>2, <2>3, <2>4, NpxKeeps, WarmKeeps DEF Router!Next
<1> QED BY <1>1, <1>2

(* What the router owes the client: no call but a restart is answered twice, *)
(* and no call is in two places, so that none is sent twice or answered     *)
(* while it is still queued, through every death of the server, every       *)
(* takeover and every held restart, for any calls.                          *)
THEOREM CallsAreServedOnce == Router!Spec => []OnceEach
<1>1. RouterInv => OnceEach
  <2> SUFFICES ASSUME RouterInv PROVE Router!OnceEach
    BY DEF OnceEach
  <2>1. \A c \in Routed : Apart(c) /\ answers[c] \in Nat
    BY DEF RouterInv, Router!TypeOK
  <2>2. Router!AnsweredOnce
    BY <2>1 DEF Apart, Router!AnsweredOnce
  <2>3. Router!InOnePlace
    BY <2>1 DEF Apart, Waits, Router!InOnePlace, Router!IsAt, Router!Places
  <2> QED BY <2>2, <2>3 DEF Router!OnceEach
<1>2. RouterInv /\ [Router!Next]_Router!vars => RouterInv'
  BY RouterStep, RouterAssumption
<1>3. Router!Init => RouterInv
  BY RouterInit, RouterAssumption
<1> QED BY <1>1, <1>2, <1>3, PTL DEF Router!Spec

(* Once the queue has been released, a call is held again only for a        *)
(* restart, or for the server's pipe: something will end the wait.          *)
LEMMA ReleaserStep ==
  ASSUME Router!CallsAssumption, Router!HeldHasAReleaser, [Router!Next]_Router!vars
  PROVE  Router!HeldHasAReleaser'
<1>1. ASSUME pending' = {} \/ ~Router!Alive' \/ phase' # "served"
             \/ hold' # None \/ ~Router!Ready(npx)'
      PROVE  Router!HeldHasAReleaser'
  BY <1>1 DEF Router!HeldHasAReleaser
<1>2. ASSUME pending' = pending, hold' = hold \/ hold' # None, npx' = npx, hung' = hung,
             phase' = phase \/ phase' # "served"
      PROVE  Router!HeldHasAReleaser'
  BY <1>2 DEF Router!HeldHasAReleaser, Router!Alive, Router!Ready
<1>3. ASSUME NEW n, NEW also, NEW from, Router!FlushPending(n, also, from)
      PROVE  Router!HeldHasAReleaser'
  BY <1>3, <1>1 DEF Router!FlushPending, Router!Alive
<1>4. ASSUME NEW also, Router!RejectPending(also) PROVE Router!HeldHasAReleaser'
  BY <1>4, <1>1 DEF Router!RejectPending
<1>5. ASSUME NEW ok, NEW from, Router!Finish(ok, from) PROVE Router!HeldHasAReleaser'
  BY <1>5, <1>3, <1>4 DEF Router!Finish
<1>6. CASE UNCHANGED Router!vars
  BY <1>6, <1>2 DEF Router!vars, Router!callVars, Router!holdVars, Router!warmVars, Router!npxVars
<1>7. ASSUME NEW c \in Routed,
             Router!CallAnswered(c) \/ Router!CallInner(c) \/ Router!CallForwarded(c)
               \/ Router!InnerEnds(c) \/ Router!AnswerBusy(c) \/ Router!AnswerComes(c)
               \/ Router!RestartAck(c)
      PROVE  Router!HeldHasAReleaser'
  <2>1. pending' = pending /\ npx' = npx /\ hung' = hung /\ hold' = hold
    BY <1>7 DEF Router!CallAnswered, Router!CallInner, Router!CallForwarded, Router!InnerEnds,
      Router!AnswerBusy, Router!AnswerComes, Router!RestartAck, Router!Elsewhere,
      Router!holdVars, Router!warmVars, Router!npxVars
  <2>2. phase' = phase \/ phase' # "served"
    BY <1>7 DEF Router!CallAnswered, Router!CallInner, Router!CallForwarded, Router!InnerEnds,
      Router!AnswerBusy, Router!AnswerComes, Router!RestartAck, Router!Elsewhere,
      Router!FailTakeover, Router!Fallen, Router!warmVars
  <2> QED BY <1>2, <2>1, <2>2
<1>8. ASSUME NEW c \in Routed, Router!CallRestart(c) PROVE Router!HeldHasAReleaser'
  BY <1>1, <1>8 DEF Router!CallRestart, Router!CallsAssumption
<1>9. ASSUME NEW c \in Routed, Router!CallHeld(c) PROVE Router!HeldHasAReleaser'
  <2>1. hold # None \/ ~Router!Ready(npx)
    BY <1>9 DEF Router!CallHeld, Router!MustHold
  <2>2. hold' = hold /\ npx' = npx
    BY <1>9 DEF Router!CallHeld, Router!Elsewhere, Router!holdVars, Router!npxVars
  <2> QED BY <1>1, <2>1, <2>2 DEF Router!Ready
<1>10. ASSUME NEW c \in Routed, Router!CallCold(c) PROVE Router!HeldHasAReleaser'
  <2>1. phase' # "served"
    BY <1>10 DEF Router!CallCold, Router!Warm, Router!Elsewhere, Router!warmVars
  <2> QED BY <1>1, <2>1
<1>11. ASSUME NEW c \in Routed, Router!RestartRefused(c) \/ Router!WatchEnds(c) \/ Router!WatchSeesEditor(c)
       PROVE  Router!HeldHasAReleaser'
  <2>1. CASE Router!RestartRefused(c)
    BY <1>5, <2>1 DEF Router!RestartRefused
  <2>2. CASE Router!WatchEnds(c) /\ hold # None
    BY <1>5, <2>2 DEF Router!WatchEnds
  <2>3. CASE Router!WatchEnds(c) /\ hold = None
    BY <1>2, <2>3 DEF Router!WatchEnds, Router!callVars, Router!npxVars, Router!warmVars
  <2>4. CASE Router!WatchSeesEditor(c)
    <3>1. pending' = pending /\ npx' = npx /\ hung' = hung /\ hold' = hold
      BY <2>4 DEF Router!WatchSeesEditor, Router!callVars, Router!npxVars
    <3>2. phase' = phase \/ phase' # "served"
      BY <2>4 DEF Router!WatchSeesEditor
    <3> QED BY <1>2, <3>1, <3>2
  <2> QED BY <1>11, <2>1, <2>2, <2>3, <2>4
<1>12. CASE Router!TakeoverProbes \/ Router!TakeoverExpires \/ Router!CliReports
  <2>1. pending' = pending /\ npx' = npx /\ hung' = hung /\ hold' = hold
    BY <1>12 DEF Router!TakeoverProbes, Router!TakeoverExpires, Router!CliReports, Router!callVars,
      Router!holdVars, Router!npxVars
  <2>2. phase' = phase \/ phase' # "served"
    BY <1>12 DEF Router!TakeoverProbes, Router!TakeoverExpires, Router!CliReports,
      Router!FailTakeover, Router!Fallen, Router!warmVars
  <2> QED BY <1>2, <2>1, <2>2
<1>13. CASE Router!RestartTimeout
  BY <1>5, <1>13 DEF Router!RestartTimeout
<1>14. CASE Router!NpxDies
  BY <1>1, <1>14 DEF Router!NpxDies, Router!Ready
<1>15. ASSUME NEW n, Router!Opened(n), phase' = phase PROVE Router!HeldHasAReleaser'
  <2>1. CASE n = "up" /\ Router!Warm
    BY <1>3, <1>15, <2>1 DEF Router!Opened
  <2>2. CASE n # "up"
    BY <1>1, <1>15, <2>2 DEF Router!Opened, Router!Ready
  <2>3. CASE ~Router!Warm
    BY <1>1, <1>15, <2>3 DEF Router!Warm
  <2> QED BY <2>1, <2>2, <2>3
<1>16. CASE Router!NpxStarts
  <2>1. phase' = phase
    BY <1>16 DEF Router!NpxStarts, Router!warmVars
  <2>2. CASE npx' = "abandoned"
    BY <1>1, <2>2 DEF Router!Ready
  <2> QED BY <1>15, <1>16, <2>1, <2>2 DEF Router!NpxStarts
<1>17. CASE Router!NpxOpens
  BY <1>15, <1>17 DEF Router!NpxOpens, Router!warmVars
<1>18. CASE Router!GetsWarm \/ Router!LosesWarm
  BY <1>1, <1>18 DEF Router!GetsWarm, Router!LosesWarm, Router!Fallen
<1>19. CASE Router!WarmFlush \/ Router!WindowEnds
  BY <1>3, <1>4, <1>19 DEF Router!WarmFlush, Router!WindowEnds
<1> QED BY <1>6, <1>7, <1>8, <1>9, <1>10, <1>11, <1>12, <1>13, <1>14, <1>16, <1>17, <1>18, <1>19
        DEF Router!Next

(* The same of every reachable state: the invariant is inductive.           *)
THEOREM HeldIsReleased == Router!Spec => []HeldHasAReleaser
<1>1. Router!Init => Router!HeldHasAReleaser
  BY DEF Router!Init, Router!HeldHasAReleaser
<1>2. Router!HeldHasAReleaser /\ [Router!Next]_Router!vars => Router!HeldHasAReleaser'
  BY ReleaserStep, RouterAssumption
<1>3. Router!HeldHasAReleaser => HeldHasAReleaser
  BY DEF HeldHasAReleaser
<1> QED BY <1>1, <1>2, <1>3, PTL DEF Router!Spec
=============================================================================
