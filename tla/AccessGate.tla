----------------------------- MODULE AccessGate -----------------------------
(***************************************************************************)
(* What the server promises about who reaches the destination, whatever    *)
(* database keeps its tables.  A client is granted access only after it    *)
(* was given a challenge for the port it is granted access to, and a       *)
(* request is forwarded only if it arrived no later than AllowedTimeout +  *)
(* CachedTimeout after a grant to its client.                              *)
(***************************************************************************)
EXTENDS Integers

CONSTANTS Threads, IPs, Ports, AllowedTimeout, CachedTimeout,
          Never,   \* no grant yet
          Nothing  \* a thread that forwards no request

VARIABLES
  now,
  challenged,  \* the <<ip, port>> a challenge was stored for
  granted,     \* granted[ip, port]: time of the latest grant
  forwarding   \* forwarding[th]: the request that thread th forwards

vars == <<now, challenged, granted, forwarding>>

Init ==
  /\ now = 0
  /\ challenged = {}
  /\ granted = [k \in IPs \X Ports |-> Never]
  /\ forwarding = [th \in Threads |-> Nothing]

Tick ==
  /\ now' = now + 1
  /\ UNCHANGED <<challenged, granted, forwarding>>

Challenge(ip, port) ==
  /\ challenged' = challenged \cup {<<ip, port>>}
  /\ UNCHANGED <<now, granted, forwarding>>

Grant(ip, port) ==
  /\ <<ip, port>> \in challenged
  /\ granted' = [granted EXCEPT ![<<ip, port>>] = now]
  /\ UNCHANGED <<now, challenged, forwarding>>

\* A request of client ip that arrived at time t.
MayForward(ip, t) ==
  \E port \in Ports :
    /\ granted[<<ip, port>>] # Never
    /\ t <= granted[<<ip, port>>] + AllowedTimeout + CachedTimeout

Forward(th, ip, port, t) ==
  /\ forwarding[th] = Nothing
  /\ MayForward(ip, t)
  /\ forwarding' = [forwarding EXCEPT ![th] = [ip |-> ip, port |-> port,
                                               at |-> t]]
  /\ UNCHANGED <<now, challenged, granted>>

Finish(th) ==
  /\ forwarding' = [forwarding EXCEPT ![th] = Nothing]
  /\ UNCHANGED <<now, challenged, granted>>

\* The process dies; grants and challenges are kept in the database.
Crash ==
  /\ forwarding' = [th \in Threads |-> Nothing]
  /\ UNCHANGED <<now, challenged, granted>>

Next ==
  \/ Tick
  \/ Crash
  \/ \E ip \in IPs, port \in Ports : Challenge(ip, port) \/ Grant(ip, port)
  \/ \E th \in Threads :
       \/ Finish(th)
       \/ \E ip \in IPs, port \in Ports, t \in 0..now :
            Forward(th, ip, port, t)

Spec == Init /\ [][Next]_vars
=============================================================================
