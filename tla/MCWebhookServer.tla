-------------------------- MODULE MCWebhookServer --------------------------
(* A bounded instance of WebhookServer: a webhook limited by client and    *)
(* one limited by endpoint, whose adapter asks for credentials of its own; *)
(* three requests, two of which can meet in a limiter of one per second or *)
(* at a channel with one place.  The environments disable authentication,  *)
(* configure nothing, a list, a list and a trusted proxy, or a token, a    *)
(* list and a trusted proxy.  The proxy names the client with its port.    *)
EXTENDS WebhookServer, TLC
CONSTANTS s1, s2, r1, r2, r3, in, inport, proxy
Single == <<"falco">>
Multi == <<"team", "hook">>
MCConfig == (s1 :> [path |-> Single, auth |-> "none", secret |-> FALSE])
         @@ (s2 :> [path |-> Multi, auth |-> "bearer", secret |-> TRUE])
Kind(path, remote, xff, cred, body) ==
    [path |-> path, remote |-> remote, xff |-> xff, xri |-> None, cred |-> cred, body |-> body]
MCKinds ==
    {Kind(Single, in, None, "token", "json"),
     Kind(Single, proxy, inport, "wrong", "json"),
     Kind(Single, in, None, "token", "empty"),
     Kind(Multi, in, None, "token", "json")}
Env(disabled, token, allowed, proxies) ==
    [disabled |-> disabled, token |-> token, allowedIPs |-> allowed, proxies |-> proxies]
MCEnvironments ==
    {Env(TRUE, TRUE, {}, {proxy}), Env(FALSE, FALSE, {}, {}),
     Env(FALSE, FALSE, {in}, {}), Env(FALSE, FALSE, {in}, {proxy}),
     Env(FALSE, TRUE, {in}, {proxy})}
MCLonger == {<<in, inport>>}
Symmetry == Permutations(Requests)
=============================================================================
