-------------------------- MODULE AltanaActionInv --------------------------
(***************************************************************************)
(* The inductive invariant behind the safety properties of                 *)
(* AltanaActionProps: the claim has one owner, and only the owner sends;   *)
(* what a worker is about to publish is true already; and the operation in *)
(* the local storage knows of every call of the tab.                       *)
(***************************************************************************)
EXTENDS AltanaActionProps

(* Where the creator of the claim stands until it has sent, and after.     *)
BeforeSend == {"write claim", "announce", "execute"}
AfterSend == {"submission", "write submission"}
Owning == BeforeSend \cup AfterSend

Sent == Of("execute") # {}

Ownership ==
  /\ \A w \in Workers : place[w] \in Owning => Exists("claim")
  /\ \A v, w \in Workers : (place[v] \in Owning /\ place[w] \in Owning) => v = w
  /\ \A w \in Workers : place[w] \in BeforeSend => ~Sent /\ ~Exists("submission")
  /\ \A w \in Workers :
       place[w] \in AfterSend => \E i \in Of("execute") : calls[i].by = w
  /\ Sent => Exists("claim")

(* The submission names the call that was sent, and the receipt one that   *)
(* landed.                                                                 *)
Pursuit ==
  /\ Exists("submission") => Pursued \in Of("execute")
  /\ Exists("receipt") => Executed("landed")
  /\ \A w \in Workers :
       /\ place[w] = "observe receipt" => Written("receipt")
       /\ place[w] \in {"observe submission", "relay", "receipt", "write submission"} =>
            Exists("submission")
       /\ place[w] = "receipt" => Executed("landed")
       /\ place[w] = "write receipt" => Exists("receipt")

(* A key that was once seen is granted, or gone for good. *)
Views ==
  /\ \A p \in Honest : view[p] # "none" => authority # "none"
  /\ \A p \in Honest : view[p] = "gone" => authority = "gone"
  /\ (Sent \/ \E w \in Workers : place[w] \in Owning \cup {"claim"}) =>
       \A p \in Honest : view[p] # "none"

Truth ==
  /\ True(published.status)
  /\ \A w \in Workers : place[w] = "publish" => True(word[w])

(* One tab: what it shows is what is stored, every grant and revocation is *)
(* its own, and it asks for a call of either kind only when all earlier    *)
(* ones of that kind were disowned.                                        *)
Fence(t) ==
  /\ rendered[t] = operation
  /\ \A i \in Of("grant") \cup Of("revoke") : calls[i].by = t
  /\ operation = "none" => tab[t] = "idle"
  /\ tab[t] \in {"granting", "granted"} => operation = "grant"
  /\ tab[t] \in {"revoking", "revoked"} => operation = "revoke" /\ before[t] = "grant"
  /\ tab[t] = "granting" => Of("grant") \subseteq disowned
  /\ tab[t] = "revoking" => Of("revoke") \subseteq disowned

CeremonyInv == \A t \in Tabs : Tabs = {t} => Fence(t) /\ CeremonyFence

ActionInv == TypeOK /\ Ownership /\ SubmitsOnce /\ Pursuit /\ Views /\ Truth /\ CeremonyInv
=============================================================================
