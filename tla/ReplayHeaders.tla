---------------------------- MODULE ReplayHeaders ----------------------------
(***************************************************************************)
(* The headers of a replayed response (commons/net/http/idempotency).  What*)
(* the middlewares above wrote on a response belongs to that request, what *)
(* the handler changed belongs to the receipt: the capture keeps the       *)
(* difference the handler made, and the replay lays it over a response the *)
(* same middlewares have already written to for another request.           *)
(*                                                                         *)
(* A header is the list of its values, empty when it is absent.  Set-Cookie*)
(* is held apart, by cookie name.  Values are opaque.                      *)
(***************************************************************************)
EXTENDS Integers, Sequences, FiniteSets

CONSTANTS HeaderNames,          \* header names other than Set-Cookie
          UncapturedNames,       \* those of them that describe one transfer
          Cookies,          \* cookie names
          Values,           \* what the handler writes
          Above(_),         \* what the middlewares above write on request 1 and 2
          MaxWrites         \* writes of the handler

ASSUME HeadersAssumption == "Set-Cookie" \notin HeaderNames

VARIABLES stage,            \* "above", "handler", "again", "replay" or "sent"
          header, cookie,   \* the live response
          before,           \* headerSnapshot, taken before the handler
          original,         \* the first response as it was sent
          captured,         \* cachedResponse.Headers: delta and cookies
          ahead,            \* captured names the replay has still to apply
          live,             \* the second response as the replay found it
          writes

headerVars == <<stage, header, cookie, before, original, captured, ahead, live, writes>>

NoValues == <<>>
blank == [headers |-> [n \in HeaderNames |-> NoValues], cookies |-> [k \in Cookies |-> NoValues]]
nothing == [headers |-> <<>>, cookies |-> <<>>]

response == [headers |-> header, cookies |-> cookie]

-----------------------------------------------------------------------------
isUncapturedHeader(n) == n \in UncapturedNames

snapshotResponseHeaders ==
    [headers |-> [n \in {m \in HeaderNames : ~isUncapturedHeader(m)} |-> header[n]],
     cookies |-> cookie]

\* MUTANT: a header the handler deleted leaves no trace.
changedOnly(now) ==
    LET names == {n \in HeaderNames : ~isUncapturedHeader(n)
                                  /\ now.headers[n] # before.headers[n]
                                  /\ now.headers[n] # NoValues}
        jar == {k \in Cookies : now.cookies[k] # NoValues /\ now.cookies[k] # before.cookies[k]}
    IN  [headers |-> [n \in names |-> now.headers[n]],
         cookies |-> [k \in jar |-> now.cookies[k]]]

\* The names whose values changed, the deleted ones with no value at all, and
\* the cookies that were added or changed; a deleted cookie is not recorded.
captureHeaderDelta(now) ==
    LET names == {n \in HeaderNames : ~isUncapturedHeader(n)
                                  /\ now.headers[n] # before.headers[n]}
        jar == {k \in Cookies : now.cookies[k] # NoValues /\ now.cookies[k] # before.cookies[k]}
    IN  [headers |-> [n \in names |-> now.headers[n]],
         cookies |-> [k \in jar |-> now.cookies[k]]]

\* A cookie is identified by the name before its "=".
capturedCookieName == DOMAIN captured.cookies

-----------------------------------------------------------------------------
\* The middlewares above, on the first request and on its duplicate.
aboveWrites(request) ==
    /\ header' \in [HeaderNames -> {NoValues, <<Above(request)>>}]
    /\ cookie' \in [Cookies -> {NoValues, <<Above(request)>>}]

WriteAbove ==
    /\ stage = "above"
    /\ aboveWrites(1)
    /\ stage' = "snapshot"
    /\ UNCHANGED <<before, original, captured, ahead, live, writes>>

Snapshot ==
    /\ stage = "snapshot"
    /\ before' = snapshotResponseHeaders
    /\ stage' = "handler"
    /\ UNCHANGED <<header, cookie, original, captured, ahead, live, writes>>

\* The handler sets, adds or deletes a header or a cookie.
HandlerWrites ==
    /\ stage = "handler"
    /\ writes < MaxWrites
    /\ writes' = writes + 1
    /\ \/ \E n \in HeaderNames, v \in Values :
             /\ \/ header' = [header EXCEPT ![n] = <<v>>]
                \/ header' = [header EXCEPT ![n] = Append(@, v)]
                \/ header' = [header EXCEPT ![n] = NoValues]
             /\ UNCHANGED cookie
       \/ \E k \in Cookies, v \in Values :
             /\ \/ cookie' = [cookie EXCEPT ![k] = <<v>>]
                \/ cookie' = [cookie EXCEPT ![k] = NoValues]
             /\ UNCHANGED header
    /\ UNCHANGED <<stage, before, original, captured, ahead, live>>

Capture ==
    /\ stage = "handler"
    /\ captured' = captureHeaderDelta(response)
    /\ original' = response
    /\ stage' = "again"
    /\ UNCHANGED <<header, cookie, before, ahead, live, writes>>

WriteAboveAgain ==
    /\ stage = "again"
    /\ aboveWrites(2)
    /\ live' = [headers |-> header', cookies |-> cookie']
    /\ ahead' = DOMAIN captured.headers
                  \cup (IF captured.cookies = <<>> THEN {} ELSE {"Set-Cookie"})
    /\ stage' = "replay"
    /\ UNCHANGED <<before, original, captured, writes>>

\* Del for a header; DelCookie, one cookie at a time, for Set-Cookie.
clearCapturedHeader(n) ==
    [headers |-> IF n = "Set-Cookie" THEN header ELSE [header EXCEPT ![n] = NoValues],
     cookies |-> [k \in Cookies |-> IF n = "Set-Cookie" /\ k \in capturedCookieName
                                    THEN NoValues ELSE cookie[k]]]

\* One name of the capture, in whatever order the map yields them.
replayHeader(n) ==
    LET cleared == clearCapturedHeader(n) IN
    /\ stage = "replay"
    /\ n \in ahead
    /\ ahead' = ahead \ {n}
    /\ IF n = "Set-Cookie"
       THEN /\ cookie' = [k \in Cookies |-> IF k \in capturedCookieName
                                            THEN captured.cookies[k] ELSE cleared.cookies[k]]
            /\ header' = cleared.headers
       ELSE /\ header' = [cleared.headers EXCEPT ![n] = @ \o captured.headers[n]]
            /\ cookie' = cleared.cookies
    /\ UNCHANGED <<stage, before, original, captured, live, writes>>

Send ==
    /\ stage = "replay"
    /\ ahead = {}
    /\ stage' = "sent"
    /\ UNCHANGED <<header, cookie, before, original, captured, ahead, live, writes>>

HeadersInit ==
    /\ stage = "above"
    /\ header = blank.headers /\ cookie = blank.cookies
    /\ before = nothing /\ original = nothing /\ captured = nothing /\ live = nothing
    /\ ahead = {}
    /\ writes = 0

HeadersNext ==
    \/ WriteAbove \/ Snapshot \/ HandlerWrites \/ Capture \/ WriteAboveAgain \/ Send
    \/ \E n \in HeaderNames \cup {"Set-Cookie"} : replayHeader(n)

HeadersSpec == HeadersInit /\ [][HeadersNext]_headerVars

-----------------------------------------------------------------------------
(* A replay hands each client the receipt and none of somebody else's      *)
(* headers (captureHeaderDelta, replay): a header or cookie the handler    *)
(* changed is on the duplicate exactly as the first client got it, a header*)
(* it deleted is absent, and every other one is the duplicate's own, never *)
(* a value that was minted for the first request.                          *)
ReplayIsTheReceipt ==
    stage = "sent" =>
       /\ \A n \in HeaderNames :
             IF ~isUncapturedHeader(n) /\ original.headers[n] # before.headers[n]
             THEN header[n] = original.headers[n]
             ELSE header[n] = live.headers[n]
       /\ \A k \in Cookies :
             IF original.cookies[k] # before.cookies[k] /\ original.cookies[k] # NoValues
             THEN cookie[k] = original.cookies[k]
             ELSE cookie[k] = live.cookies[k]
=============================================================================
