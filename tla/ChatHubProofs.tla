---------------------------- MODULE ChatHubProofs ----------------------------
(***************************************************************************)
(* What ChatHub guarantees for any number of browsers, connections and     *)
(* messages, and any limit of the history.                                 *)
(***************************************************************************)
EXTENDS ChatHub, Integers, SequenceTheorems, TLAPS

-----------------------------------------------------------------------------
(***************************************************************************)
(* Sequences.                                                              *)
(***************************************************************************)
\* The elements of an appended sequence.
LEMMA RangeAppend ==
    ASSUME NEW S, NEW s \in Seq(S), NEW e \in S
    PROVE  Range(Append(s, e)) = Range(s) \union {e}
<1>1. Append(s, e) = s \o <<e>>
    BY AppendIsConcat
<1>2. <<e>> \in Seq(S) /\ Range(<<e>>) = {e}
    BY DEF Range
<1>3. Range(s \o <<e>>) = Range(s) \union Range(<<e>>)
    BY <1>2, RangeConcatenation
<1> QED
    BY <1>1, <1>2, <1>3

-----------------------------------------------------------------------------
\* Connections are used in turn, and nothing runs on an unused one.
Links ==
    /\ \A b \in Browsers, n \in Nat : <<b, n>> \in Conns => (link[<<b, n>>] = "unused" <=> n > current[b])
    /\ \A c \in Conns : link[c] = "unused" => handler[c] = "none" /\ c \notin clients

\* A typed message is in one place: on its way to the server, or in the hands
\* of the thread of its connection, which does nothing else until it is done.
Unread ==
    /\ \A c \in Conns : \A i \in 1 .. Len(up[c]) :
        up[c][i] \in Frames => step[up[c][i]] = "sent" /\ via[up[c][i]] = c
    /\ \A c \in Conns : \A i, j \in 1 .. Len(up[c]) : up[c][i] = up[c][j] /\ up[c][i] \in Frames => i = j
InHand(m) == step[m] \in {"save", "lock", "send"}
Busy ==
    /\ \A m \in Frames : InHand(m) => via[m] \in Conns /\ handler[via[m]] = "busy"
    /\ \A m, n \in Frames : InHand(m) /\ InHand(n) /\ via[m] = via[n] => m = n
Typed == Unread /\ Busy

\* A client has a message, or the message is still to be broadcast to it, or never is.
Has(c, m) ==
    \/ m \in MsgsOf(c)
    \/ step[m] = "lock"
    \/ c \in todo[m]
    \/ Silent(m)

\* The history that a client is about to get fills its gap.
GapClosed ==
    \A c \in clients : link[c] = "open" =>
        /\ handler[c] \in {"receive", "busy"} =>
            \A i \in DOMAIN feed : i <= HistoryLimit => Has(c, feed[i])
        /\ handler[c] = "history" =>
            \A i \in DOMAIN feed : i <= HistoryLimit => Has(c, feed[i]) \/ feed[i] \in Range(hist[c])

IInv == TypeOK /\ Links /\ Typed /\ GapClosed

-----------------------------------------------------------------------------
(***************************************************************************)
(* Frames, steps and handlers.                                             *)
(***************************************************************************)
\* A frame that is sent is shown if the connection is open.
LEMMA SentFacts ==
    ASSUME TypeOK, NEW c \in Conns, NEW f \in FrameSet, Sent(c, f)
    PROVE  /\ shown' \in [Conns -> Seq(FrameSet)]
           /\ \A d \in Conns : MsgsOf(d) \subseteq MsgsOf(d)'
           /\ link[c] = "open" => Range(f.msgs) \subseteq MsgsOf(c)'
<1>1. shown \in [Conns -> Seq(FrameSet)]
    BY DEF TypeOK
<1>2. CASE link[c] = "open"
  <2>1. shown' = [shown EXCEPT ![c] = Append(@, f)] /\ shown[c] \in Seq(FrameSet)
    BY <1>1, <1>2 DEF Sent
  <2>2. Append(shown[c], f) \in Seq(FrameSet) /\ Range(Append(shown[c], f)) = Range(shown[c]) \union {f}
    BY <2>1, AppendProperties, RangeAppend
  <2>3. shown'[c] = Append(shown[c], f) /\ \A d \in Conns \ {c} : shown'[d] = shown[d]
    BY <1>1, <2>1
  <2>4. shown' \in [Conns -> Seq(FrameSet)]
    BY <1>1, <2>1, <2>2
  <2>5. \A d \in Conns : Range(shown[d]) \subseteq Range(shown'[d])
    BY <2>2, <2>3
  <2>6. f \in Range(shown'[c])
    BY <2>2, <2>3
  <2> QED
    BY <2>4, <2>5, <2>6 DEF MsgsOf
<1>3. CASE link[c] # "open"
    BY <1>1, <1>3 DEF Sent, MsgsOf
<1> QED
    BY <1>2, <1>3

LEMMA FrameType ==
    /\ \A m \in Msgs : Frame("message", <<m>>) \in FrameSet /\ Range(Frame("message", <<m>>).msgs) = {m}
    /\ \A h \in Seq(Msgs) : Frame("history", h) \in FrameSet /\ Frame("history", h).msgs = h
<1>1. \A m \in Msgs : <<m>> \in Seq(Msgs) /\ Range(<<m>>) = {m}
    BY DEF Range
<1> QED
    BY <1>1 DEF Frame, FrameSet

StepNames == {"new", "sent", "ignored", "save", "lock", "send", "done", "raised", "ingested"}
HandlerNames == {"none", "receive", "load", "history", "busy", "leave", "gone"}

LEMMA StepTo ==
    ASSUME TypeOK, NEW m \in Msgs, NEW l \in StepNames, Goto(m, l)
    PROVE  /\ step' \in [Msgs -> StepNames]
           /\ step'[m] = l
           /\ \A n \in Msgs : n # m => step'[n] = step[n]
    BY DEF TypeOK, Goto, StepNames

LEMMA RunTo ==
    ASSUME TypeOK, NEW c \in Conns, NEW l \in HandlerNames, Run(c, l)
    PROVE  /\ handler' \in [Conns -> HandlerNames]
           /\ handler'[c] = l
           /\ \A d \in Conns : d # c => handler'[d] = handler[d]
    BY DEF TypeOK, Run, HandlerNames

\* Without the lock nobody broadcasts.
LEMMA FreeLock ==
    ASSUME TypeOK, lock = Nobody
    PROVE  \A m \in Msgs : todo[m] = {} /\ dead[m] = {} /\ step[m] # "send"
    BY HubConstants DEF TypeOK

\* A step that leaves the feed alone and lets no client in opens no gap.
LEMMA GapKept ==
    ASSUME IInv, UNCHANGED feed, clients' \subseteq Conns,
           \A c \in clients' : link'[c] = "open" =>
               /\ c \in clients /\ link[c] = "open"
               /\ handler'[c] \in {"receive", "busy"} => handler[c] \in {"receive", "busy"}
               /\ handler'[c] = "history" => handler[c] = "history" /\ hist'[c] = hist[c]
               /\ \A m \in Msgs : Has(c, m) => Has(c, m)'
    PROVE  GapClosed'
<1>1. \A i \in DOMAIN feed : feed[i] \in Msgs
    BY ElementOfSeq, LenProperties DEF IInv, TypeOK
<1> QED
    BY <1>1 DEF IInv, GapClosed

LEMMA ConnFacts ==
    /\ \A b \in Browsers : MaxConnects[b] \in Nat
    /\ \A b \in Browsers, n \in Nat : <<b, n>> \in Conns <=> n \in 1 .. MaxConnects[b]
    /\ \A c \in Conns : \E b \in Browsers : \E n \in 1 .. MaxConnects[b] : c = <<b, n>>
    BY HubConstants DEF Conns

\* Receiving a frame leaves the others where they are.
LEMMA UpTail ==
    ASSUME TypeOK, Typed, NEW c \in Conns, up[c] # <<>>, up' = [up EXCEPT ![c] = Tail(@)]
    PROVE  /\ up' \in [Conns -> Seq({"join"} \union Frames)]
           /\ Head(up[c]) \in {"join"} \union Frames
           /\ \A d \in Conns : \A i \in 1 .. Len(up'[d]) : \E j \in 1 .. Len(up[d]) : up'[d][i] = up[d][j]
           /\ \A d \in Conns : \A i, j \in 1 .. Len(up'[d]) :
                up'[d][i] = up'[d][j] /\ up'[d][i] \in Frames => i = j
           /\ Head(up[c]) \in Frames =>
                /\ step[Head(up[c])] = "sent" /\ via[Head(up[c])] = c
                /\ \A d \in Conns : \A i \in 1 .. Len(up'[d]) : up'[d][i] # Head(up[c])
<1> DEFINE S == {"join"} \union Frames
           s == up[c]
           t == Tail(s)
<1>1. up \in [Conns -> Seq(S)] /\ s \in Seq(S) /\ s # <<>>
    BY DEF TypeOK
<1> HIDE DEF S
<1>2. /\ Len(s) \in Nat \ {0} /\ Head(s) = s[1] /\ Head(s) \in S
      /\ t \in Seq(S) /\ Len(t) = Len(s) - 1
      /\ \A i \in 1 .. Len(s) - 1 : t[i] = s[i + 1]
    BY <1>1, HeadTailProperties, LenProperties, EmptySeq
<1>3. up'[c] = t /\ \A d \in Conns \ {c} : up'[d] = up[d]
    BY <1>1
<1>4. up' \in [Conns -> Seq(S)]
    BY <1>1, <1>2
<1> HIDE DEF t
<1>5. \A i \in 1 .. Len(t) : i + 1 \in 1 .. Len(s) /\ t[i] = s[i + 1] /\ i + 1 # 1
    BY <1>2
<1>6. \A d \in Conns : \A i \in 1 .. Len(up'[d]) : \E j \in 1 .. Len(up[d]) : up'[d][i] = up[d][j]
  <2> TAKE d \in Conns
  <2>1. CASE d = c
    BY <2>1, <1>3, <1>5
  <2>2. CASE d # c
    BY <2>2, <1>3
  <2> QED  BY <2>1, <2>2
<1>7. \A d \in Conns : \A i, j \in 1 .. Len(up'[d]) : up'[d][i] = up'[d][j] /\ up'[d][i] \in Frames => i = j
  <2> TAKE d \in Conns
  <2>1. CASE d = c
    <3>1. \A i, j \in 1 .. Len(s) : s[i] = s[j] /\ s[i] \in Frames => i = j
      BY DEF Typed, Unread, Busy, InHand
    <3>2. ASSUME NEW i \in 1 .. Len(t), NEW j \in 1 .. Len(t), t[i] = t[j], t[i] \in Frames PROVE i = j
      <4>1. i + 1 = j + 1
        BY <1>5, <3>1, <3>2
      <4> QED  BY <4>1
    <3>3. \A i, j \in 1 .. Len(t) : t[i] = t[j] /\ t[i] \in Frames => i = j
      BY <3>2
    <3>4. up'[d] = t
      BY <1>3, <2>1
    <3>5. \A w : w = t => \A i, j \in 1 .. Len(w) : w[i] = w[j] /\ w[i] \in Frames => i = j
      BY <3>3
    <3> QED  BY <3>4, <3>5, Zenon
  <2>2. CASE d # c
    BY <2>2, <1>3 DEF Typed, Unread, Busy, InHand
  <2> QED  BY <2>1, <2>2
<1>8. ASSUME Head(s) \in Frames
      PROVE  /\ step[Head(s)] = "sent" /\ via[Head(s)] = c
             /\ \A d \in Conns : \A i \in 1 .. Len(up'[d]) : up'[d][i] # Head(s)
  <2>1. 1 \in 1 .. Len(s) /\ s[1] \in Frames
    BY <1>2, <1>8
  <2>2. step[Head(s)] = "sent" /\ via[Head(s)] = c
    BY <1>2, <2>1 DEF Typed, Unread, Busy, InHand
  <2>3. \A i \in 1 .. Len(t) : t[i] # s[1]
    BY <1>5, <2>1 DEF Typed, Unread, Busy, InHand
  <2>4. \A d \in Conns \ {c} : \A i \in 1 .. Len(up[d]) : up[d][i] # s[1]
    BY <1>2, <2>1, <2>2 DEF Typed, Unread, Busy, InHand
  <2>5. ASSUME NEW d \in Conns PROVE \A i \in 1 .. Len(up'[d]) : up'[d][i] # Head(s)
    <3>1. CASE d = c
      BY <1>2, <1>3, <2>3, <3>1
    <3>2. CASE d # c
      BY <1>2, <1>3, <2>4, <3>2
    <3> QED  BY <3>1, <3>2
  <2> QED  BY <2>2, <2>5
<1> QED
    BY <1>2, <1>4, <1>6, <1>7, <1>8 DEF S

-----------------------------------------------------------------------------
(***************************************************************************)
(* Connections.                                                            *)
(***************************************************************************)
LEMMA ConnectInvariant ==
    ASSUME IInv, NEW b \in Browsers, Connect(b)
    PROVE  IInv'
<1> DEFINE c == <<b, current[b] + 1>>
<1>1. /\ current[b] < MaxConnects[b] /\ current' = [current EXCEPT ![b] = @ + 1]
      /\ link' = [link EXCEPT ![c] = "open"] /\ up' = [up EXCEPT ![c] = <<"join">>] /\ Run(c, "receive")
      /\ UNCHANGED <<feed, clients, lock, todo, dead, step, via, hist, shown>>
    BY DEF Connect, hub
<1>2. TypeOK /\ Links /\ Typed /\ current[b] \in Nat /\ MaxConnects[b] \in Nat
    BY ConnFacts DEF IInv, TypeOK
<1>3. c \in Conns /\ current[b] + 1 \in Nat /\ current[b] + 1 > current[b]
    BY <1>1, <1>2, ConnFacts
<1>4. link[c] = "unused" /\ handler[c] = "none" /\ c \notin clients
    BY <1>2, <1>3 DEF Links
<1> HIDE DEF c
<1>5. /\ handler' \in [Conns -> HandlerNames] /\ handler'[c] = "receive"
      /\ \A d \in Conns : d # c => handler'[d] = handler[d]
    BY <1>1, <1>2, <1>3, RunTo DEF HandlerNames
<1>6. <<"join">> \in Seq({"join"} \union Frames) /\ Len(<<"join">>) = 1 /\ \A i \in 1 .. 1 : <<"join">>[i] = "join"
    OBVIOUS
<1>7. TypeOK'
  <2>1. up' \in [Conns -> Seq({"join"} \union Frames)]
    BY <1>1, <1>2, <1>3, <1>6 DEF TypeOK
  <2>2. current' \in [Browsers -> Nat] /\ \A d \in Browsers : current'[d] <= MaxConnects[d]
    BY <1>1, <1>2 DEF TypeOK
  <2> QED
    BY <1>1, <1>2, <1>5, <2>1, <2>2 DEF TypeOK, HandlerNames
<1>8. link'[c] = "open" /\ \A d \in Conns : d # c => link'[d] = link[d]
    BY <1>1, <1>2, <1>3 DEF TypeOK
<1>9. Links'
  <2>1. ASSUME NEW d \in Browsers, NEW n \in Nat, <<d, n>> \in Conns
        PROVE  link'[<<d, n>>] = "unused" <=> n > current'[d]
    <3>1. CASE d = b /\ n = current[b] + 1
      BY <1>1, <1>2, <1>8, <3>1 DEF TypeOK, c
    <3>2. CASE d = b /\ n # current[b] + 1
      <4>1. <<d, n>> # c /\ current'[b] = current[b] + 1
        BY <1>1, <1>2, <3>2 DEF TypeOK, c
      <4> QED  BY <1>2, <1>8, <2>1, <3>2, <4>1 DEF Links
    <3>3. CASE d # b
      <4>1. <<d, n>> # c /\ current'[d] = current[d]
        BY <1>1, <1>2, <3>3 DEF TypeOK, c
      <4> QED  BY <1>2, <1>8, <2>1, <4>1 DEF Links
    <3> QED  BY <3>1, <3>2, <3>3
  <2>2. \A d \in Conns : link'[d] = "unused" => handler'[d] = "none" /\ d \notin clients'
    BY <1>1, <1>2, <1>5, <1>8 DEF Links
  <2> QED
    BY <2>1, <2>2 DEF Links
<1>10. Typed'
  <2>1. up'[c] = <<"join">> /\ \A d \in Conns : d # c => up'[d] = up[d]
    BY <1>1, <1>2, <1>3 DEF TypeOK
  <2>2. \A d \in Conns : \A i \in 1 .. Len(up'[d]) : up'[d][i] \in Frames => d # c
    BY <1>6, <2>1, HubConstants
  <2> QED
    BY <1>1, <1>2, <1>4, <1>5, <2>1, <2>2 DEF Typed, Unread, Busy, InHand
<1>11. GapClosed'
    BY <1>1, <1>2, <1>4, <1>5, <1>8, GapKept DEF TypeOK, Has, Silent, MsgsOf
<1> QED
    BY <1>7, <1>9, <1>10, <1>11 DEF IInv

LEMMA CloseInvariant ==
    ASSUME IInv, NEW c \in Conns, Close(c)
    PROVE  IInv'
<1>1. /\ link[c] = "open" /\ link' = [link EXCEPT ![c] = "closed"]
      /\ UNCHANGED <<feed, clients, lock, todo, dead, step, via, handler, hist, up, current, shown>>
    BY DEF Close, server, hub, browser
<1>2. TypeOK /\ link \in [Conns -> {"unused", "open", "closed"}]
    BY DEF IInv, TypeOK
<1>3. link'[c] = "closed" /\ \A d \in Conns : d # c => link'[d] = link[d]
    BY <1>1, <1>2
<1>4. TypeOK'
    BY <1>1, <1>2 DEF TypeOK
<1>5. Links' /\ Typed'
    BY <1>1, <1>3 DEF IInv, Links, Typed, Unread, Busy, InHand
<1>6. GapClosed'
    BY <1>1, <1>2, <1>3, GapKept DEF TypeOK, Has, Silent, MsgsOf
<1> QED
    BY <1>4, <1>5, <1>6 DEF IInv

-----------------------------------------------------------------------------
(***************************************************************************)
(* The handlers of connections.                                            *)
(***************************************************************************)
\* A handler that holds no typed message goes on to a step that holds none.
LEMMA TypedKept ==
    ASSUME IInv, NEW c \in Conns, handler[c] # "busy", link[c] # "unused" \/ handler[c] # "none",
           NEW l \in HandlerNames, Run(c, l),
           UNCHANGED <<step, via, current>>, clients' \subseteq clients \union {c},
           \A d \in Conns : link'[d] = "unused" <=> link[d] = "unused",
           \A d \in Conns : \A i \in 1 .. Len(up'[d]) : \E j \in 1 .. Len(up[d]) : up'[d][i] = up[d][j],
           \A d \in Conns : \A i, j \in 1 .. Len(up'[d]) : up'[d][i] = up'[d][j] /\ up'[d][i] \in Frames => i = j
    PROVE  Links' /\ Typed'
<1>1. /\ handler'[c] = l /\ \A d \in Conns : d # c => handler'[d] = handler[d]
    BY RunTo DEF IInv
<1>2. Links'
    BY <1>1 DEF IInv, Links
<1>3. Typed'
    BY <1>1 DEF IInv, Typed, Unread, Busy, InHand
<1> QED
    BY <1>2, <1>3

LEMMA JoinRegisterInvariant ==
    ASSUME IInv, NEW c \in Conns, JoinRegister(c)
    PROVE  IInv'
<1>1. /\ handler[c] = "receive" /\ up[c] # <<>> /\ up' = [up EXCEPT ![c] = Tail(@)]
      /\ clients' = clients \union {c} /\ Run(c, "load") /\ lock = Nobody
      /\ UNCHANGED <<feed, lock, todo, dead, step, via, hist, link, current, shown>>
    BY DEF JoinRegister, browser
<1>2. TypeOK /\ Typed
    BY DEF IInv
<1>3. /\ handler' \in [Conns -> HandlerNames] /\ handler'[c] = "load"
      /\ \A d \in Conns : d # c => handler'[d] = handler[d]
    BY <1>1, <1>2, RunTo DEF HandlerNames
<1>4. TypeOK'
  <2>1. up' \in [Conns -> Seq({"join"} \union Frames)]
    BY <1>1, <1>2, UpTail
  <2>2. todo' \in [Msgs -> SUBSET clients'] /\ dead' \in [Msgs -> SUBSET clients'] /\ clients' \subseteq Conns
    BY <1>1, <1>2 DEF TypeOK
  <2> QED
    BY <1>1, <1>2, <1>3, <2>1, <2>2 DEF TypeOK, HandlerNames
<1>5. Links' /\ Typed'
  <2>1. /\ \A d \in Conns : \A i \in 1 .. Len(up'[d]) : \E j \in 1 .. Len(up[d]) : up'[d][i] = up[d][j]
        /\ \A d \in Conns : \A i, j \in 1 .. Len(up'[d]) : up'[d][i] = up'[d][j] /\ up'[d][i] \in Frames => i = j
    BY <1>1, <1>2, UpTail
  <2>2. "load" \in HandlerNames /\ handler[c] # "busy" /\ handler[c] # "none"
    BY <1>1 DEF HandlerNames
  <2> QED
    BY <1>1, <2>1, <2>2, TypedKept
<1>6. GapClosed'
  <2>1. \A d \in clients' : d = c \/ (d \in clients /\ d \in Conns)
    BY <1>1, <1>2 DEF TypeOK
  <2>2. \A d \in Conns : \A m \in Msgs : Has(d, m) => Has(d, m)'
    BY <1>1 DEF Has, Silent, MsgsOf
  <2>3. \A i \in DOMAIN feed : feed[i] \in Msgs
    BY <1>2, ElementOfSeq, LenProperties DEF TypeOK
  <2> QED
    BY <1>1, <1>3, <2>1, <2>2, <2>3 DEF IInv, GapClosed
<1> QED
    BY <1>4, <1>5, <1>6 DEF IInv

\* What the limit admits of the feed is in the history.
LEMMA LoadFacts ==
    ASSUME feed \in Seq(Msgs), NEW h, h = SubSeq(feed, 1, IF Len(feed) < HistoryLimit THEN Len(feed) ELSE HistoryLimit)
    PROVE  h \in Seq(Msgs) /\ \A i \in DOMAIN feed : i <= HistoryLimit => feed[i] \in Range(h)
<1> DEFINE n == IF Len(feed) < HistoryLimit THEN Len(feed) ELSE HistoryLimit
<1>1. Len(feed) \in Nat /\ HistoryLimit \in Nat /\ DOMAIN feed = 1 .. Len(feed)
    BY LenProperties, HubConstants
<1>2. n \in 0 .. Len(feed) /\ \A i \in 1 .. Len(feed) : i <= HistoryLimit => i \in 1 .. n
    BY <1>1
<1> HIDE DEF n
<1>3. h = SubSeq(feed, 1, n)
    BY DEF n
<1>4. h \in Seq(Msgs) /\ DOMAIN h = 1 .. n /\ \A i \in 1 .. n : h[i] = feed[i]
    BY <1>1, <1>2, <1>3, SubSeqProperties, LenProperties
<1> QED
    BY <1>1, <1>2, <1>4 DEF Range

LEMMA JoinLoadInvariant ==
    ASSUME IInv, NEW c \in Conns, JoinLoad(c)
    PROVE  IInv'
<1> DEFINE h == SubSeq(feed, 1, IF Len(feed) < HistoryLimit THEN Len(feed) ELSE HistoryLimit)
<1>1. /\ handler[c] = "load" /\ hist' = [hist EXCEPT ![c] = h] /\ Run(c, "history")
      /\ UNCHANGED <<feed, clients, lock, todo, dead, step, via, link, up, current, shown>>
    BY DEF JoinLoad, hub, network, browser
<1>2. TypeOK /\ feed \in Seq(Msgs)
    BY DEF IInv, TypeOK
<1>3. h \in Seq(Msgs) /\ \A i \in DOMAIN feed : i <= HistoryLimit => feed[i] \in Range(h)
    BY <1>2, LoadFacts
<1> HIDE DEF h
<1>4. /\ handler' \in [Conns -> HandlerNames] /\ handler'[c] = "history"
      /\ \A d \in Conns : d # c => handler'[d] = handler[d]
    BY <1>1, <1>2, RunTo DEF HandlerNames
<1>5. hist' \in [Conns -> Seq(Msgs)] /\ hist'[c] = h /\ \A d \in Conns : d # c => hist'[d] = hist[d]
    BY <1>1, <1>2, <1>3 DEF TypeOK
<1>6. TypeOK'
    BY <1>1, <1>2, <1>4, <1>5 DEF TypeOK, HandlerNames
<1>7. Links' /\ Typed'
  <2>1. "history" \in HandlerNames /\ handler[c] # "busy" /\ handler[c] # "none" /\ up' = up
    BY <1>1 DEF HandlerNames
  <2>2. /\ \A d \in Conns : \A i \in 1 .. Len(up'[d]) : \E j \in 1 .. Len(up[d]) : up'[d][i] = up[d][j]
        /\ \A d \in Conns : \A i, j \in 1 .. Len(up'[d]) : up'[d][i] = up'[d][j] /\ up'[d][i] \in Frames => i = j
    BY <2>1 DEF IInv, Typed, Unread, Busy, InHand
  <2> QED
    BY <1>1, <2>1, <2>2, TypedKept
<1>8. GapClosed'
  <2>1. \A d \in Conns : \A m \in Msgs : Has(d, m) => Has(d, m)'
    BY <1>1 DEF Has, Silent, MsgsOf
  <2>2. clients \subseteq Conns /\ \A i \in DOMAIN feed : feed[i] \in Msgs
    BY <1>2, ElementOfSeq, LenProperties DEF TypeOK
  <2> QED
    BY <1>1, <1>3, <1>4, <1>5, <2>1, <2>2 DEF IInv, GapClosed
<1> QED
    BY <1>6, <1>7, <1>8 DEF IInv

LEMMA JoinSendInvariant ==
    ASSUME IInv, NEW c \in Conns, JoinSend(c)
    PROVE  IInv'
<1>1. /\ handler[c] = "history" /\ hist' = [hist EXCEPT ![c] = <<>>]
      /\ \/ Sent(c, Frame("history", hist[c])) /\ Run(c, "receive")
         \/ link[c] = "closed" /\ Run(c, "leave") /\ UNCHANGED shown
      /\ UNCHANGED <<feed, clients, lock, todo, dead, step, via, link, up, current>>
    BY DEF JoinSend, Raises, hub
<1>2. TypeOK /\ hist \in [Conns -> Seq(Msgs)] /\ hist[c] \in Seq(Msgs)
    BY DEF IInv, TypeOK
<1>3. PICK l \in {"receive", "leave"} :
        /\ Run(c, l)
        /\ \/ Sent(c, Frame("history", hist[c]))
           \/ l = "leave" /\ link[c] = "closed" /\ UNCHANGED shown
    BY <1>1
<1>4. /\ handler' \in [Conns -> HandlerNames] /\ handler'[c] = l
      /\ \A d \in Conns : d # c => handler'[d] = handler[d]
    BY <1>2, <1>3, RunTo DEF HandlerNames
<1>5. /\ shown' \in [Conns -> Seq(FrameSet)]
      /\ \A d \in Conns : MsgsOf(d) \subseteq MsgsOf(d)'
      /\ link[c] = "open" => Range(hist[c]) \subseteq MsgsOf(c)'
  <2>1. CASE Sent(c, Frame("history", hist[c]))
    BY <1>2, <2>1, SentFacts, FrameType
  <2>2. CASE link[c] = "closed" /\ UNCHANGED shown
    BY <1>2, <2>2 DEF TypeOK, MsgsOf
  <2> QED
    BY <1>3, <2>1, <2>2
<1>6. hist' \in [Conns -> Seq(Msgs)] /\ \A d \in Conns : d # c => hist'[d] = hist[d]
  <2>1. <<>> \in Seq(Msgs)
    OBVIOUS
  <2> QED
    BY <1>1, <1>2, <2>1
<1>7. TypeOK'
    BY <1>1, <1>2, <1>4, <1>5, <1>6 DEF TypeOK, HandlerNames
<1>8. Links' /\ Typed'
  <2>1. l \in HandlerNames /\ handler[c] # "busy" /\ handler[c] # "none" /\ up' = up
    BY <1>1 DEF HandlerNames
  <2>2. /\ \A d \in Conns : \A i \in 1 .. Len(up'[d]) : \E j \in 1 .. Len(up[d]) : up'[d][i] = up[d][j]
        /\ \A d \in Conns : \A i, j \in 1 .. Len(up'[d]) : up'[d][i] = up'[d][j] /\ up'[d][i] \in Frames => i = j
    BY <2>1 DEF IInv, Typed, Unread, Busy, InHand
  <2> QED
    BY <1>1, <1>3, <2>1, <2>2, TypedKept
<1>9. GapClosed'
  <2>1. \A d \in Conns : \A m \in Msgs : Has(d, m) => Has(d, m)'
    BY <1>1, <1>5 DEF Has, Silent
  <2>2. clients \subseteq Conns /\ \A i \in DOMAIN feed : feed[i] \in Msgs
    BY <1>2, ElementOfSeq, LenProperties DEF TypeOK
  <2>3. link[c] = "open" => \A m \in Range(hist[c]) : Has(c, m)'
    BY <1>5 DEF Has, Silent
  <2> QED
    BY <1>1, <1>3, <1>4, <1>6, <2>1, <2>2, <2>3 DEF IInv, GapClosed
<1> QED
    BY <1>7, <1>8, <1>9 DEF IInv

LEMMA JoinRaisesInvariant ==
    ASSUME IInv, NEW c \in Conns, JoinRaises(c)
    PROVE  IInv'
<1>1. /\ handler[c] = "load" /\ Run(c, "leave")
      /\ UNCHANGED <<feed, clients, lock, todo, dead, step, via, hist, link, up, current, shown>>
    BY DEF JoinRaises, hub, network, browser
<1>2. TypeOK
    BY DEF IInv
<1>3. /\ handler' \in [Conns -> HandlerNames] /\ handler'[c] = "leave"
      /\ \A d \in Conns : d # c => handler'[d] = handler[d]
    BY <1>1, <1>2, RunTo DEF HandlerNames
<1>4. TypeOK'
    BY <1>1, <1>2, <1>3 DEF TypeOK, HandlerNames
<1>5. Links' /\ Typed'
  <2>1. "leave" \in HandlerNames /\ handler[c] # "busy" /\ handler[c] # "none" /\ up' = up
    BY <1>1 DEF HandlerNames
  <2>2. /\ \A d \in Conns : \A i \in 1 .. Len(up'[d]) : \E j \in 1 .. Len(up[d]) : up'[d][i] = up[d][j]
        /\ \A d \in Conns : \A i, j \in 1 .. Len(up'[d]) : up'[d][i] = up'[d][j] /\ up'[d][i] \in Frames => i = j
    BY <2>1 DEF IInv, Typed, Unread, Busy, InHand
  <2> QED
    BY <1>1, <2>1, <2>2, TypedKept
<1>6. GapClosed'
  <2>1. \A d \in Conns : \A m \in Msgs : Has(d, m) => Has(d, m)'
    BY <1>1 DEF Has, Silent, MsgsOf
  <2> QED
    BY <1>1, <1>2, <1>3, <2>1, GapKept DEF TypeOK
<1> QED
    BY <1>4, <1>5, <1>6 DEF IInv

LEMMA ReceiveInvariant ==
    ASSUME IInv, NEW c \in Conns, ReceiveMessage(c)
    PROVE  IInv'
<1>0. PICK m : m = Head(up[c])
    OBVIOUS
<1>1. /\ handler[c] = "receive" /\ up[c] # <<>> /\ m # "join" /\ up' = [up EXCEPT ![c] = Tail(@)]
      /\ UNCHANGED <<feed, clients, lock, todo, dead, via, hist, link, current, shown>>
    BY <1>0 DEF ReceiveMessage, hub, browser
<1>2. TypeOK /\ Typed /\ Links
    BY DEF IInv
<1>3. /\ m \in Frames /\ m \in Msgs /\ step[m] = "sent" /\ via[m] = c
      /\ \A d \in Conns : \A i \in 1 .. Len(up'[d]) : up'[d][i] # m
    BY <1>0, <1>1, <1>2, UpTail DEF Msgs
<1>4. PICK l \in {"save", "ignored"}, h \in {"busy", "receive"} :
        Goto(m, l) /\ (l = "save" => h = "busy") /\ handler'= [handler EXCEPT ![c] = h]
  <2>1. CASE c \in clients
    BY <1>0, <2>1 DEF ReceiveMessage, Run
  <2>2. CASE c \notin clients
    <3>1. handler' = [handler EXCEPT ![c] = "receive"]
      BY <1>1, <1>2, <2>2 DEF ReceiveMessage, TypeOK
    <3> QED
      BY <1>0, <2>2, <3>1 DEF ReceiveMessage
  <2> QED
    BY <2>1, <2>2
<1>5. /\ up' \in [Conns -> Seq({"join"} \union Frames)]
      /\ \A d \in Conns : \A i \in 1 .. Len(up'[d]) : \E j \in 1 .. Len(up[d]) : up'[d][i] = up[d][j]
      /\ \A d \in Conns : \A i, j \in 1 .. Len(up'[d]) : up'[d][i] = up'[d][j] /\ up'[d][i] \in Frames => i = j
    BY <1>1, <1>2, UpTail
<1>6. /\ step' \in [Msgs -> StepNames] /\ step'[m] = l /\ \A n \in Msgs : n # m => step'[n] = step[n]
    BY <1>2, <1>3, <1>4, StepTo DEF StepNames
<1>7. /\ handler' \in [Conns -> HandlerNames] /\ handler'[c] = h
      /\ \A d \in Conns : d # c => handler'[d] = handler[d]
    BY <1>2, <1>4 DEF TypeOK, HandlerNames
<1>8. TypeOK'
  <2>1. \A n \in Msgs : step'[n] = "send" <=> step[n] = "send"
    BY <1>3, <1>6
  <2> QED
    BY <1>1, <1>2, <1>5, <1>6, <1>7, <2>1 DEF TypeOK, StepNames, HandlerNames
<1>9. Links'
    BY <1>1, <1>2, <1>7 DEF Links
<1>10. Typed'
  <2>1. \A n \in Frames : n \in Msgs /\ (InHand(n) => via[n] # c)
    BY <1>1, <1>2 DEF Typed, Busy, Msgs
  <2>2. Unread'
    <3>1. \A d \in Conns : \A i \in 1 .. Len(up'[d]) :
              up'[d][i] \in Frames => step[up'[d][i]] = "sent" /\ via[up'[d][i]] = d
      BY <1>2, <1>5 DEF Typed, Unread
    <3>2. \A n \in Frames : n # m => step'[n] = step[n]
      BY <1>6, <2>1
    <3>3. ASSUME NEW d \in Conns, NEW i \in 1 .. Len(up'[d]), up'[d][i] \in Frames
          PROVE  step'[up'[d][i]] = "sent" /\ via'[up'[d][i]] = d
      <4>1. up'[d][i] # m
        BY <1>3
      <4>2. step[up'[d][i]] = "sent" /\ via[up'[d][i]] = d
        BY <3>1, <3>3
      <4>3. step'[up'[d][i]] = step[up'[d][i]]
        BY <3>2, <3>3, <4>1
      <4> QED
        BY <1>1, <4>2, <4>3
    <3> QED
      BY <1>5, <3>3 DEF Unread
  <2>3. \A n \in Frames : InHand(n)' => n = m \/ InHand(n)
    BY <1>6, <2>1 DEF InHand
  <2>4. InHand(m)' => handler'[c] = "busy"
    BY <1>4, <1>6, <1>7 DEF InHand
  <2>5. Busy'
    BY <1>1, <1>2, <1>3, <1>7, <2>1, <2>3, <2>4 DEF Typed, Busy
  <2> QED
    BY <2>2, <2>5 DEF Typed
<1>11. GapClosed'
  <2>1. \A d \in Conns : \A n \in Msgs : Has(d, n) => Has(d, n)'
    BY <1>1, <1>3, <1>6 DEF Has, Silent, MsgsOf
  <2> QED
    BY <1>1, <1>2, <1>7, <2>1, GapKept DEF TypeOK
<1> QED
    BY <1>8, <1>9, <1>10, <1>11 DEF IInv

LEMMA LeaveInvariant ==
    ASSUME IInv, NEW c \in Conns, Leave(c)
    PROVE  IInv'
<1>1. /\ Ends(c) /\ lock = Nobody /\ clients' = clients \ {c} /\ Run(c, "gone")
      /\ link' = [link EXCEPT ![c] = "closed"]
      /\ UNCHANGED <<feed, lock, todo, dead, step, via, hist, up, current, shown>>
    BY DEF Leave, browser
<1>2. TypeOK /\ \A m \in Msgs : todo[m] = {} /\ dead[m] = {}
    BY <1>1, FreeLock DEF IInv
<1>3. /\ handler' \in [Conns -> HandlerNames] /\ handler'[c] = "gone"
      /\ \A d \in Conns : d # c => handler'[d] = handler[d]
    BY <1>1, <1>2, RunTo DEF HandlerNames
<1>4. /\ link' \in [Conns -> {"unused", "open", "closed"}] /\ link'[c] = "closed" /\ link[c] # "unused"
      /\ \A d \in Conns : d # c => link'[d] = link[d]
  <2>1. handler[c] # "none" /\ link \in [Conns -> {"unused", "open", "closed"}]
    BY <1>1, <1>2 DEF Ends, TypeOK
  <2> QED
    BY <1>1, <2>1 DEF IInv, Links
<1>5. TypeOK'
  <2>1. todo' \in [Msgs -> SUBSET clients'] /\ dead' \in [Msgs -> SUBSET clients'] /\ clients' \subseteq Conns
    BY <1>1, <1>2 DEF TypeOK
  <2> QED
    BY <1>1, <1>2, <1>3, <1>4, <2>1 DEF TypeOK, HandlerNames
<1>6. Links' /\ Typed'
  <2>1. "gone" \in HandlerNames /\ handler[c] # "busy" /\ handler[c] # "none" /\ up' = up /\ clients' \subseteq clients \union {c}
    BY <1>1 DEF HandlerNames, Ends
  <2>2. /\ \A d \in Conns : \A i \in 1 .. Len(up'[d]) : \E j \in 1 .. Len(up[d]) : up'[d][i] = up[d][j]
        /\ \A d \in Conns : \A i, j \in 1 .. Len(up'[d]) : up'[d][i] = up'[d][j] /\ up'[d][i] \in Frames => i = j
    BY <2>1 DEF IInv, Typed, Unread, Busy, InHand
  <2>3. \A d \in Conns : link'[d] = "unused" <=> link[d] = "unused"
    BY <1>4
  <2> QED
    BY <1>1, <2>1, <2>2, <2>3, TypedKept
<1>7. GapClosed'
  <2>1. \A d \in Conns : \A n \in Msgs : Has(d, n) => Has(d, n)'
    BY <1>1 DEF Has, Silent, MsgsOf
  <2> QED
    BY <1>1, <1>2, <1>3, <1>4, <2>1, GapKept DEF TypeOK
<1> QED
    BY <1>5, <1>6, <1>7 DEF IInv

-----------------------------------------------------------------------------
(***************************************************************************)
(* Messages.                                                               *)
(***************************************************************************)
LEMMA SubmitInvariant ==
    ASSUME IInv, NEW m \in Msgs, Submit(m)
    PROVE  IInv'
<1> DEFINE c == <<Author[m], current[Author[m]]>>
<1>1. /\ m \in Frames /\ step[m] = "new" /\ current[Author[m]] > 0 /\ link[c] = "open"
      /\ up' = [up EXCEPT ![c] = Append(@, m)] /\ via' = [via EXCEPT ![m] = c] /\ Goto(m, "sent")
      /\ UNCHANGED <<feed, clients, lock, todo, dead, handler, hist, link, current, shown>>
    BY DEF Submit, hub, browser
<1>2. TypeOK /\ Typed /\ Links /\ via \in [Msgs -> Conns \union {Nobody}] /\ up \in [Conns -> Seq({"join"} \union Frames)]
    BY DEF IInv, TypeOK
<1>3. c \in Conns
  <2>1. Author[m] \in Browsers
    BY <1>1, HubConstants
  <2>2. current[Author[m]] \in 1 .. MaxConnects[Author[m]]
    BY <1>1, <1>2, <2>1, ConnFacts DEF TypeOK
  <2> QED
    BY <2>1, <2>2, ConnFacts
<1> HIDE DEF c
<1>4. /\ step' \in [Msgs -> StepNames] /\ step'[m] = "sent" /\ \A n \in Msgs : n # m => step'[n] = step[n]
    BY <1>1, <1>2, StepTo DEF StepNames
<1>5. /\ via' \in [Msgs -> Conns \union {Nobody}] /\ via'[m] = c /\ \A n \in Msgs : n # m => via'[n] = via[n]
    BY <1>1, <1>2, <1>3
<1> DEFINE u == Append(up[c], m)
<1>6. /\ u \in Seq({"join"} \union Frames) /\ Len(up[c]) \in Nat /\ Len(u) = Len(up[c]) + 1
      /\ \A i \in 1 .. Len(up[c]) : u[i] = up[c][i]
      /\ u[Len(up[c]) + 1] = m
  <2>1. up[c] \in Seq({"join"} \union Frames) /\ m \in {"join"} \union Frames
    BY <1>1, <1>2, <1>3
  <2> QED
    BY <2>1, AppendProperties, LenProperties
<1>7. up'[c] = u /\ \A d \in Conns : d # c => up'[d] = up[d]
    BY <1>1, <1>2, <1>3
<1>8. up' \in [Conns -> Seq({"join"} \union Frames)]
    BY <1>1, <1>2, <1>3, <1>6
<1> HIDE DEF u
<1>9. TypeOK'
  <2>1. \A n \in Msgs : step'[n] = "send" <=> step[n] = "send"
    BY <1>1, <1>4
  <2> QED
    BY <1>1, <1>2, <1>4, <1>5, <1>8, <2>1 DEF TypeOK, StepNames
<1>10. Links'
    BY <1>1, <1>2 DEF Links
<1>11. \A d \in Conns : \A i \in 1 .. Len(up[d]) : up[d][i] # m
    BY <1>1, <1>2 DEF Typed, Unread, Busy, InHand
<1>12. \A d \in Conns : \A i \in 1 .. Len(up'[d]) : up'[d][i] = m \/ (i \in 1 .. Len(up[d]) /\ up'[d][i] = up[d][i])
  <2> TAKE d \in Conns
  <2>1. CASE d = c
    <3>1. \A w : w = u => \A i \in 1 .. Len(w) : w[i] = m \/ (i \in 1 .. Len(up[c]) /\ w[i] = up[c][i])
      BY <1>6
    <3> QED  BY <1>7, <2>1, <3>1, Zenon
  <2>2. CASE d # c
    BY <1>7, <2>2
  <2> QED  BY <2>1, <2>2
<1>13. Typed'
  <2>1. \A d \in Conns : \A i \in 1 .. Len(up'[d]) : up'[d][i] = m => d = c /\ i = Len(up[c]) + 1
    <3> SUFFICES ASSUME NEW d \in Conns, NEW i \in 1 .. Len(up'[d]), up'[d][i] = m
                 PROVE  d = c /\ i = Len(up[c]) + 1
      OBVIOUS
    <3>1. d = c
      BY <1>7, <1>11
    <3>2. i \in 1 .. Len(u) /\ u[i] = m
      BY <1>7, <3>1
    <3> QED  BY <1>3, <1>6, <1>11, <3>1, <3>2
  <2>2. \A d \in Conns : \A i, j \in 1 .. Len(up'[d]) : up'[d][i] = up'[d][j] /\ up'[d][i] \in Frames => i = j
    <3> SUFFICES ASSUME NEW d \in Conns, NEW i \in 1 .. Len(up'[d]), NEW j \in 1 .. Len(up'[d]),
                        up'[d][i] = up'[d][j], up'[d][i] \in Frames
                 PROVE  i = j
      OBVIOUS
    <3>1. CASE up'[d][i] = m
      <4>1. i = Len(up[c]) + 1
        BY <2>1, <3>1
      <4>2. j = Len(up[c]) + 1
        BY <2>1, <3>1
      <4> QED  BY <4>1, <4>2
    <3>2. CASE up'[d][i] # m
      <4>1. up'[d][j] # m
        BY <3>2
      <4>2. up'[d][i] = up[d][i] /\ i \in 1 .. Len(up[d]) /\ up'[d][j] = up[d][j] /\ j \in 1 .. Len(up[d])
        BY <1>12, <3>2, <4>1
      <4>3. up[d][i] = up[d][j] /\ up[d][i] \in Frames
        BY <4>2
      <4> QED  BY <1>2, <4>2, <4>3 DEF Typed, Unread
    <3> QED  BY <3>1, <3>2
  <2>3. \A d \in Conns : \A i \in 1 .. Len(up'[d]) : up'[d][i] \in Frames => step'[up'[d][i]] = "sent" /\ via'[up'[d][i]] = d
    <3> SUFFICES ASSUME NEW d \in Conns, NEW i \in 1 .. Len(up'[d]), up'[d][i] \in Frames
                 PROVE  step'[up'[d][i]] = "sent" /\ via'[up'[d][i]] = d
      OBVIOUS
    <3>1. CASE up'[d][i] = m
      BY <1>4, <1>5, <2>1, <3>1
    <3>2. CASE up'[d][i] # m
      <4>1. up'[d][i] = up[d][i] /\ i \in 1 .. Len(up[d])
        BY <1>12, <3>2
      <4>2. up[d][i] \in Msgs /\ step[up[d][i]] = "sent" /\ via[up[d][i]] = d
        BY <1>2, <4>1 DEF Typed, Unread, Msgs
      <4> QED  BY <1>4, <1>5, <3>2, <4>1, <4>2
    <3> QED  BY <3>1, <3>2
  <2>4. Unread'
    BY <2>2, <2>3 DEF Unread
  <2>5. \A n \in Frames : (InHand(n)' => InHand(n) /\ n # m) /\ (n # m => via'[n] = via[n])
    BY <1>4, <1>5 DEF InHand, Msgs
  <2>6. Busy'
    BY <1>1, <1>2, <2>5 DEF Typed, Busy
  <2> QED
    BY <2>4, <2>6 DEF Typed
<1>14. GapClosed'
  <2>1. \A d \in Conns : \A n \in Msgs : Has(d, n) => Has(d, n)'
    BY <1>1, <1>4 DEF Has, Silent, MsgsOf
  <2> QED
    BY <1>1, <1>2, <2>1, GapKept DEF TypeOK
<1> QED
    BY <1>9, <1>10, <1>13, <1>14 DEF IInv

\* Storing and broadcasting leave the browsers' frames alone.
LEMMA HandleTyped ==
    ASSUME IInv, NEW m \in Msgs, NEW l \in StepNames, Goto(m, l), step[m] \in {"new", "save", "lock", "send"},
           m \in Frames => step[m] # "new" /\ (l \in {"save", "lock", "send"} => UNCHANGED handler),
           \A c \in Conns : handler[c] # "busy" => handler'[c] = handler[c],
           \A n \in Frames \ {m} : InHand(n) => handler'[via[n]] = handler[via[n]],
           UNCHANGED <<via, link, current, up>>, clients' \subseteq clients
    PROVE  Links' /\ Typed'
<1>1. TypeOK /\ Links /\ Typed
    BY DEF IInv
<1>2. /\ step' \in [Msgs -> StepNames] /\ step'[m] = l /\ \A n \in Msgs : n # m => step'[n] = step[n]
    BY <1>1, StepTo
<1>3. Links'
    BY <1>1 DEF Links
<1>4. Unread'
  <2>1. \A c \in Conns : \A i \in 1 .. Len(up[c]) : up[c][i] \in Frames => up[c][i] # m /\ step'[up[c][i]] = step[up[c][i]]
    BY <1>1, <1>2 DEF Typed, Unread, Msgs
  <2> QED
    BY <1>1, <2>1 DEF Typed, Unread
<1>5. Busy'
  <2>1. \A n \in Frames : InHand(n)' => InHand(n) /\ (n = m => l \in {"save", "lock", "send"})
    BY <1>2 DEF InHand, Msgs
  <2>2. \A n \in Frames : InHand(n)' => handler'[via[n]] = handler[via[n]]
    BY <2>1
  <2> QED
    BY <1>1, <2>1, <2>2 DEF Typed, Busy
<1> QED
    BY <1>3, <1>4, <1>5 DEF Typed

\* A message that enters the feed is on its way to the clients, or silent.
LEMMA FeedAppended ==
    ASSUME IInv, NEW m \in Msgs, NEW l \in {"lock", "raised", "ingested"}, Goto(m, l),
           step[m] \in {"new", "save"}, feed' = Append(feed, m),
           \A c \in Conns : handler'[c] = handler[c] \/ (handler'[c] = "leave" /\ handler[c] = "busy"),
           UNCHANGED <<clients, todo, hist, link, shown>>
    PROVE  feed' \in Seq(Msgs) /\ GapClosed'
<1>1. TypeOK /\ feed \in Seq(Msgs) /\ clients \subseteq Conns
    BY DEF IInv, TypeOK
<1>2. step'[m] = l /\ \A n \in Msgs : n # m => step'[n] = step[n]
    BY <1>1, StepTo DEF StepNames
<1>3. /\ feed' \in Seq(Msgs) /\ Len(feed) \in Nat /\ DOMAIN feed = 1 .. Len(feed) /\ DOMAIN feed' = 1 .. Len(feed) + 1
      /\ \A i \in 1 .. Len(feed) : feed'[i] = feed[i] /\ feed[i] \in Msgs
      /\ feed'[Len(feed) + 1] = m
    BY <1>1, AppendProperties, LenProperties, ElementOfSeq
<1>4. \A d \in Conns : \A n \in Msgs : Has(d, n) => Has(d, n)'
    BY <1>2 DEF Has, Silent, MsgsOf
<1>5. \A d \in Conns : Has(d, m)'
    BY <1>2 DEF Has, Silent
<1>6. \A i \in DOMAIN feed' : (i \in DOMAIN feed /\ feed'[i] = feed[i] /\ feed[i] \in Msgs) \/ feed'[i] = m
    BY <1>3
<1>7. \A d \in clients : handler'[d] \in {"receive", "busy", "history"} => handler'[d] = handler[d]
    BY <1>1
<1> QED
    BY <1>1, <1>3, <1>4, <1>5, <1>6, <1>7 DEF IInv, GapClosed

LEMMA SaveInvariant ==
    ASSUME IInv, NEW m \in Msgs, Save(m)
    PROVE  IInv'
<1>1. /\ step[m] \in {"new", "save"} /\ (m \in Frames => step[m] = "save") /\ feed' = Append(feed, m) /\ Goto(m, "lock")
      /\ UNCHANGED <<clients, lock, todo, dead, via, handler, hist, link, up, current, shown>>
    BY HubConstants DEF Save, Accepted, hub, network, browser
<1>2. TypeOK
    BY DEF IInv
<1>3. /\ step' \in [Msgs -> StepNames] /\ step'[m] = "lock" /\ \A n \in Msgs : n # m => step'[n] = step[n]
    BY <1>1, <1>2, StepTo DEF StepNames
<1>4. feed' \in Seq(Msgs) /\ GapClosed'
    BY <1>1, FeedAppended
<1>5. TypeOK'
  <2>1. \A n \in Msgs : step'[n] = "send" <=> step[n] = "send"
    BY <1>1, <1>3
  <2> QED
    BY <1>1, <1>2, <1>3, <1>4, <2>1 DEF TypeOK, StepNames
<1>6. Links' /\ Typed'
    BY <1>1, HandleTyped DEF StepNames
<1> QED
    BY <1>4, <1>5, <1>6 DEF IInv

LEMMA SaveRaisesInvariant ==
    ASSUME IInv, NEW m \in Msgs, SaveRaises(m)
    PROVE  IInv'
<1>1. /\ step[m] \in {"new", "save"} /\ (m \in Frames => step[m] = "save") /\ Goto(m, "raised")
      /\ feed' = Append(feed, m) \/ UNCHANGED feed
      /\ handler' = IF m \in Frames THEN [handler EXCEPT ![via[m]] = "leave"] ELSE handler
      /\ UNCHANGED <<clients, lock, todo, dead, via, hist, link, up, current, shown>>
    BY HubConstants DEF SaveRaises, Accepted, hub, network, browser
<1>2. TypeOK /\ Typed /\ handler \in [Conns -> HandlerNames]
    BY DEF IInv, TypeOK, HandlerNames
<1>3. /\ step' \in [Msgs -> StepNames] /\ step'[m] = "raised" /\ \A n \in Msgs : n # m => step'[n] = step[n]
    BY <1>1, <1>2, StepTo DEF StepNames
<1>4. m \in Frames => via[m] \in Conns /\ handler[via[m]] = "busy"
    BY <1>1, <1>2 DEF Typed, Busy, InHand
<1>5. /\ handler' \in [Conns -> HandlerNames]
      /\ \A c \in Conns : handler'[c] = handler[c] \/ (m \in Frames /\ c = via[m] /\ handler'[c] = "leave" /\ handler[c] = "busy")
    BY <1>1, <1>2, <1>4 DEF HandlerNames
<1>6. feed' \in Seq(Msgs) /\ GapClosed'
  <2>1. CASE feed' = Append(feed, m)
    BY <1>1, <1>5, <2>1, FeedAppended
  <2>2. CASE UNCHANGED feed
    <3>1. \A d \in Conns : \A n \in Msgs : Has(d, n) => Has(d, n)'
      BY <1>1, <1>3 DEF Has, Silent, MsgsOf
    <3>2. clients \subseteq Conns /\ feed \in Seq(Msgs)
      BY <1>2 DEF TypeOK
    <3>3. \A d \in clients : handler'[d] \in {"receive", "busy", "history"} => handler'[d] = handler[d]
      BY <1>5, <3>2
    <3> QED
      BY <1>1, <2>2, <3>1, <3>2, <3>3, GapKept
  <2> QED
    BY <1>1, <2>1, <2>2
<1>7. TypeOK'
  <2>1. \A n \in Msgs : step'[n] = "send" <=> step[n] = "send"
    BY <1>1, <1>3
  <2> QED
    BY <1>1, <1>2, <1>3, <1>5, <1>6, <2>1 DEF TypeOK, StepNames, HandlerNames
<1>8. Links' /\ Typed'
  <2>1. \A n \in Frames \ {m} : InHand(n) => handler'[via[n]] = handler[via[n]]
    <3> SUFFICES ASSUME NEW n \in Frames, n # m, InHand(n)
                 PROVE  handler'[via[n]] = handler[via[n]]
      OBVIOUS
    <3>1. via[n] \in Conns /\ (m \in Frames => via[n] # via[m])
      BY <1>1, <1>2 DEF Typed, Busy, InHand
    <3> QED  BY <1>5, <3>1
  <2>2. "raised" \in StepNames /\ clients' \subseteq clients
    BY <1>1 DEF StepNames
  <2>3. \A c \in Conns : handler[c] # "busy" => handler'[c] = handler[c]
    BY <1>5
  <2> QED
    BY <1>1, <2>1, <2>2, <2>3, HandleTyped
<1> QED
    BY <1>6, <1>7, <1>8 DEF IInv

LEMMA IngestInvariant ==
    ASSUME IInv, NEW m \in Msgs, Ingest(m)
    PROVE  IInv'
<1>1. /\ step[m] = "new" /\ m \notin Frames /\ feed' = Append(feed, m) /\ Goto(m, "ingested")
      /\ UNCHANGED <<clients, lock, todo, dead, via, handler, hist, link, up, current, shown>>
    BY HubConstants DEF Ingest, hub, network, browser
<1>2. TypeOK
    BY DEF IInv
<1>3. /\ step' \in [Msgs -> StepNames] /\ step'[m] = "ingested" /\ \A n \in Msgs : n # m => step'[n] = step[n]
    BY <1>1, <1>2, StepTo DEF StepNames
<1>4. feed' \in Seq(Msgs) /\ GapClosed'
    BY <1>1, FeedAppended
<1>5. TypeOK'
  <2>1. \A n \in Msgs : step'[n] = "send" <=> step[n] = "send"
    BY <1>1, <1>3
  <2> QED
    BY <1>1, <1>2, <1>3, <1>4, <2>1 DEF TypeOK, StepNames
<1>6. Links' /\ Typed'
    BY <1>1, HandleTyped DEF StepNames
<1> QED
    BY <1>4, <1>5, <1>6 DEF IInv

LEMMA PostToNobodyInvariant ==
    ASSUME IInv, NEW m \in Msgs, PostToNobody(m)
    PROVE  IInv'
<1>1. /\ step[m] = "lock" /\ clients = {} /\ m \notin Frames /\ Goto(m, "done")
      /\ UNCHANGED <<feed, clients, lock, todo, dead, via, handler, hist, link, up, current, shown>>
    BY HubConstants DEF PostToNobody, hub, network, browser
<1>2. TypeOK
    BY DEF IInv
<1>3. /\ step' \in [Msgs -> StepNames] /\ step'[m] = "done" /\ \A n \in Msgs : n # m => step'[n] = step[n]
    BY <1>1, <1>2, StepTo DEF StepNames
<1>4. TypeOK'
  <2>1. \A n \in Msgs : step'[n] = "send" <=> step[n] = "send"
    BY <1>1, <1>3
  <2> QED
    BY <1>1, <1>2, <1>3, <2>1 DEF TypeOK, StepNames
<1>5. Links' /\ Typed'
    BY <1>1, HandleTyped DEF StepNames
<1>6. GapClosed'
    BY <1>1, <1>2, GapKept DEF TypeOK
<1> QED
    BY <1>4, <1>5, <1>6 DEF IInv

LEMMA BroadcastLockInvariant ==
    ASSUME IInv, NEW m \in Msgs, BroadcastLock(m)
    PROVE  IInv'
<1>1. /\ step[m] = "lock" /\ lock = Nobody /\ lock' = m /\ todo' = [todo EXCEPT ![m] = clients] /\ Goto(m, "send")
      /\ UNCHANGED <<feed, clients, dead, via, handler, hist, link, up, current, shown>>
    BY DEF BroadcastLock, network, browser
<1>2. /\ TypeOK /\ todo \in [Msgs -> SUBSET clients] /\ m # Nobody
      /\ \A n \in Msgs : todo[n] = {} /\ dead[n] = {} /\ step[n] # "send"
    BY <1>1, FreeLock, HubConstants DEF IInv, TypeOK
<1>3. /\ step' \in [Msgs -> StepNames] /\ step'[m] = "send" /\ \A n \in Msgs : n # m => step'[n] = step[n]
    BY <1>1, <1>2, StepTo DEF StepNames
<1>4. todo' \in [Msgs -> SUBSET clients] /\ todo'[m] = clients /\ \A n \in Msgs : n # m => todo'[n] = todo[n]
    BY <1>1, <1>2
<1>5. TypeOK'
  <2>1. \A n \in Msgs : /\ (lock' = n <=> step'[n] = "send")
                        /\ (lock' # n => todo'[n] = {} /\ dead'[n] = {})
    BY <1>1, <1>2, <1>3, <1>4
  <2> QED
    BY <1>1, <1>2, <1>3, <1>4, <2>1 DEF TypeOK, StepNames
<1>6. Links' /\ Typed'
    BY <1>1, HandleTyped DEF StepNames
<1>7. GapClosed'
  <2>1. \A d \in clients : \A n \in Msgs : Has(d, n) => Has(d, n)'
    BY <1>1, <1>2, <1>3, <1>4 DEF Has, Silent, MsgsOf
  <2> QED
    BY <1>1, <1>2, <2>1, GapKept DEF TypeOK
<1> QED
    BY <1>5, <1>6, <1>7 DEF IInv

LEMMA BroadcastSendInvariant ==
    ASSUME IInv, NEW m \in Msgs, NEW c \in Conns, BroadcastSend(m, c)
    PROVE  IInv'
<1>1. /\ step[m] = "send" /\ c \in todo[m] /\ todo' = [todo EXCEPT ![m] = @ \ {c}]
      /\ \/ Sent(c, Frame("message", <<m>>)) /\ UNCHANGED dead
         \/ link[c] = "closed" /\ dead' = [dead EXCEPT ![m] = @ \union {c}] /\ UNCHANGED shown
      /\ UNCHANGED <<feed, clients, lock, step, via, handler, hist, link, up, current>>
    BY DEF BroadcastSend, Raises
<1>2. /\ TypeOK /\ Links /\ Typed /\ todo \in [Msgs -> SUBSET clients] /\ dead \in [Msgs -> SUBSET clients]
      /\ lock = m
    BY <1>1 DEF IInv, TypeOK
<1>3. /\ todo' \in [Msgs -> SUBSET clients] /\ todo'[m] = todo[m] \ {c} /\ \A n \in Msgs : n # m => todo'[n] = todo[n]
    BY <1>1, <1>2
<1>4. /\ dead' \in [Msgs -> SUBSET clients] /\ \A n \in Msgs : n # m => dead'[n] = dead[n]
  <2>1. c \in clients
    BY <1>1, <1>2
  <2> QED
    BY <1>1, <1>2, <2>1
<1>5. /\ shown' \in [Conns -> Seq(FrameSet)]
      /\ \A d \in Conns : MsgsOf(d) \subseteq MsgsOf(d)'
      /\ link[c] = "open" => m \in MsgsOf(c)'
  <2>1. CASE Sent(c, Frame("message", <<m>>))
    BY <1>2, <2>1, SentFacts, FrameType
  <2>2. CASE link[c] = "closed" /\ UNCHANGED shown
    BY <1>2, <2>2 DEF TypeOK, MsgsOf
  <2> QED
    BY <1>1, <2>1, <2>2
<1>6. TypeOK'
  <2>1. \A n \in Msgs : lock # n => n # m
    BY <1>2
  <2> QED
    BY <1>1, <1>2, <1>3, <1>4, <1>5, <2>1 DEF TypeOK
<1>7. Links' /\ Typed'
    BY <1>1, <1>2 DEF Links, Typed, Unread, Busy, InHand
<1>8. GapClosed'
  <2>1. \A d \in clients : link[d] = "open" => \A n \in Msgs : Has(d, n) => Has(d, n)'
    BY <1>1, <1>2, <1>3, <1>5 DEF Has, Silent, TypeOK
  <2> QED
    BY <1>1, <1>2, <2>1, GapKept DEF TypeOK
<1> QED
    BY <1>6, <1>7, <1>8 DEF IInv

LEMMA BroadcastEndInvariant ==
    ASSUME IInv, NEW m \in Msgs, BroadcastEnd(m)
    PROVE  IInv'
<1>1. /\ step[m] = "send" /\ todo[m] = {} /\ clients' = clients \ dead[m] /\ lock' = Nobody
      /\ dead' = [dead EXCEPT ![m] = {}] /\ Goto(m, "done")
      /\ handler' = IF m \in Frames THEN [handler EXCEPT ![via[m]] = "receive"] ELSE handler
      /\ UNCHANGED <<feed, todo, via, hist, link, up, current, shown>>
    BY DEF BroadcastEnd, Done, network, browser
<1>2. /\ TypeOK /\ Typed /\ lock = m /\ dead \in [Msgs -> SUBSET clients] /\ todo \in [Msgs -> SUBSET clients]
      /\ handler \in [Conns -> HandlerNames]
      /\ \A n \in Msgs : n # m => step[n] # "send" /\ todo[n] = {} /\ dead[n] = {}
    BY <1>1 DEF IInv, TypeOK, HandlerNames
<1>3. /\ step' \in [Msgs -> StepNames] /\ step'[m] = "done" /\ \A n \in Msgs : n # m => step'[n] = step[n]
    BY <1>1, <1>2, StepTo DEF StepNames
<1>4. \A n \in Msgs : todo'[n] = {} /\ dead'[n] = {} /\ step'[n] # "send"
    BY <1>1, <1>2, <1>3
<1>5. m \in Frames => via[m] \in Conns /\ handler[via[m]] = "busy"
    BY <1>1, <1>2 DEF Typed, Busy, InHand
<1>6. /\ handler' \in [Conns -> HandlerNames]
      /\ \A c \in Conns : handler'[c] = handler[c] \/ (m \in Frames /\ c = via[m] /\ handler'[c] = "receive" /\ handler[c] = "busy")
    BY <1>1, <1>2, <1>5 DEF HandlerNames
<1>7. TypeOK'
  <2>1. todo' \in [Msgs -> SUBSET clients'] /\ dead' \in [Msgs -> SUBSET clients'] /\ clients' \subseteq Conns
    <3>1. DOMAIN todo' = Msgs /\ DOMAIN dead' = Msgs /\ clients \subseteq Conns
      BY <1>1, <1>2 DEF TypeOK
    <3>2. todo' \in [Msgs -> SUBSET clients] /\ dead' \in [Msgs -> SUBSET clients]
      BY <1>1, <1>2
    <3> QED  BY <1>1, <1>4, <3>1, <3>2
  <2>2. \A n \in Msgs : lock' # n /\ step'[n] # "send"
    BY <1>1, <1>4, HubConstants
  <2> QED
    BY <1>1, <1>2, <1>3, <1>4, <1>6, <2>1, <2>2 DEF TypeOK, StepNames, HandlerNames
<1>8. Links' /\ Typed'
  <2>1. \A n \in Frames \ {m} : InHand(n) => handler'[via[n]] = handler[via[n]]
    <3> SUFFICES ASSUME NEW n \in Frames, n # m, InHand(n)
                 PROVE  handler'[via[n]] = handler[via[n]]
      OBVIOUS
    <3>1. via[n] \in Conns /\ (m \in Frames => via[n] # via[m])
      BY <1>1, <1>2 DEF Typed, Busy, InHand
    <3> QED  BY <1>6, <3>1
  <2>2. "done" \in StepNames /\ clients' \subseteq clients
    BY <1>1 DEF StepNames
  <2>3. \A c \in Conns : handler[c] # "busy" => handler'[c] = handler[c]
    BY <1>6
  <2> QED
    BY <1>1, <2>1, <2>2, <2>3, HandleTyped
<1>9. GapClosed'
  <2>1. \A d \in Conns : \A n \in Msgs : Has(d, n) => Has(d, n)'
    BY <1>1, <1>2, <1>3 DEF Has, Silent, MsgsOf
  <2>2. clients' \subseteq clients /\ clients' \subseteq Conns
    BY <1>1, <1>2 DEF TypeOK
  <2> QED
    BY <1>1, <1>6, <2>1, <2>2, GapKept
<1> QED
    BY <1>7, <1>8, <1>9 DEF IInv

-----------------------------------------------------------------------------
(***************************************************************************)
(* The invariant, and what follows from it.                                *)
(***************************************************************************)
LEMMA InitInvariant == Init => IInv
<1> SUFFICES ASSUME Init PROVE IInv
    OBVIOUS
<1>1. TypeOK
  <2>1. \A m \in Msgs : lock # m
    BY HubConstants DEF Init
  <2>2. \A c \in Conns : up[c] = <<>> /\ hist[c] = <<>> /\ shown[c] = <<>>
    BY DEF Init
  <2>3. \A S : <<>> \in Seq(S)
    OBVIOUS
  <2> QED
    BY <2>1, <2>3, ConnFacts DEF Init, TypeOK
<1>2. Links
    BY ConnFacts DEF Init, Links
<1>3. Typed
    BY DEF Init, Typed, Unread, Busy, InHand, Msgs
<1>4. GapClosed
    BY DEF Init, GapClosed
<1> QED
    BY <1>1, <1>2, <1>3, <1>4 DEF IInv

LEMMA StepInvariant == IInv /\ [Next]_vars => IInv'
<1> SUFFICES ASSUME IInv, [Next]_vars PROVE IInv'
    OBVIOUS
<1>1. CASE UNCHANGED vars
    BY <1>1 DEF vars, server, hub, network, browser, IInv, TypeOK, Links, Typed, Unread, Busy, InHand,
                GapClosed, Has, Silent, MsgsOf
<1>2. CASE \E b \in Browsers : Connect(b)
    BY <1>2, ConnectInvariant
<1>3. ASSUME NEW c \in Conns, Close(c) \/ Serve(c) PROVE IInv'
    BY <1>3, CloseInvariant, JoinRegisterInvariant, JoinLoadInvariant, JoinSendInvariant,
       JoinRaisesInvariant, ReceiveInvariant, LeaveInvariant DEF Serve
<1>4. ASSUME NEW m \in Msgs, Submit(m) \/ Handle(m) PROVE IInv'
    BY <1>4, SubmitInvariant, SaveInvariant, SaveRaisesInvariant, IngestInvariant, PostToNobodyInvariant,
       BroadcastLockInvariant, BroadcastSendInvariant, BroadcastEndInvariant DEF Handle
<1> QED
    BY <1>1, <1>2, <1>3, <1>4 DEF Next

\* What holds of the hub's state in every behaviour.
THEOREM Invariance == Spec => []IInv
    BY InitInvariant, StepInvariant, PTL DEF Spec

\* Every variable keeps its type; the lock is held by the one message that is
\* being sent (_broadcast_ws), and only to clients that are still registered.
THEOREM TypeCorrect == Spec => []TypeOK
<1>1. IInv => TypeOK
    BY DEF IInv
<1> QED
    BY <1>1, Invariance, PTL

-----------------------------------------------------------------------------
(***************************************************************************)
(* Histories.                                                              *)
(***************************************************************************)
\* The feed as it was at some time.
Past(h) == Len(h) <= Len(feed) /\ \A i \in 1 .. Len(h) : h[i] = feed[i]

\* What was loaded is the feed as it was then.
Histories ==
    /\ \A c \in Conns : Past(hist[c])
    /\ \A c \in Conns : \A f \in Range(shown[c]) : f.type = "history" => Past(f.msgs)

\* The feed only grows.
LEMMA PastKept ==
    ASSUME TypeOK, feed' = feed \/ \E m \in Msgs : feed' = Append(feed, m)
    PROVE  \A h \in Seq(Msgs) : Past(h) => Past(h)'
<1>1. feed \in Seq(Msgs) /\ Len(feed) \in Nat
    BY LenProperties DEF TypeOK
<1>2. CASE feed' = feed
    BY <1>2 DEF Past
<1>3. ASSUME NEW m \in Msgs, feed' = Append(feed, m) PROVE \A h \in Seq(Msgs) : Past(h) => Past(h)'
  <2>1. Len(feed') = Len(feed) + 1 /\ \A i \in 1 .. Len(feed) : feed'[i] = feed[i]
    BY <1>1, <1>3, AppendProperties
  <2> SUFFICES ASSUME NEW h \in Seq(Msgs), Past(h)
               PROVE  Past(h)'
    OBVIOUS
  <2>2. Len(h) \in Nat /\ Len(h) <= Len(feed) /\ \A i \in 1 .. Len(h) : h[i] = feed[i]
    BY LenProperties DEF Past
  <2> QED
    BY <1>1, <2>1, <2>2 DEF Past
<1> QED
    BY <1>2, <1>3

\* A step that loads and shows no history.
LEMMA HistoriesKept ==
    ASSUME TypeOK, Histories, feed' = feed \/ \E m \in Msgs : feed' = Append(feed, m),
           \A c \in Conns : hist'[c] \in {hist[c], <<>>},
           \A c \in Conns : \A f \in Range(shown'[c]) :
               f \in Range(shown[c]) \/ f.type # "history" \/ f.msgs = hist[c]
    PROVE  Histories'
<1>1. feed' \in Seq(Msgs) /\ Len(feed') \in Nat
  <2>1. feed \in Seq(Msgs)
    BY DEF TypeOK
  <2>2. feed' \in Seq(Msgs)
    BY <2>1, AppendProperties
  <2> QED
    BY <2>2, LenProperties
<1>2. \A c \in Conns : hist[c] \in Seq(Msgs) /\ \A f \in Range(shown[c]) : f.msgs \in Seq(Msgs)
  <2> TAKE c \in Conns
  <2>1. hist[c] \in Seq(Msgs) /\ shown[c] \in Seq(FrameSet)
    BY DEF TypeOK
  <2>2. \A f \in Range(shown[c]) : f \in FrameSet
    BY <2>1, ElementOfSeq, LenProperties DEF Range
  <2> QED
    BY <2>1, <2>2 DEF FrameSet
<1>3. Past(<<>>)'
    BY <1>1 DEF Past
<1>4. \A c \in Conns : Past(hist[c])'
    BY <1>2, <1>3, PastKept DEF Histories
<1>5. \A h \in Seq(Msgs) : Past(h) => Past(h)'
    BY PastKept
<1> HIDE DEF Past
<1>6. ASSUME NEW c \in Conns, NEW f \in Range(shown'[c]), f.type = "history" PROVE Past(f.msgs)'
  <2>1. Past(f.msgs) /\ f.msgs \in Seq(Msgs)
    BY <1>2, <1>6 DEF Histories
  <2> QED
    BY <1>5, <2>1
<1> QED
    BY <1>4, <1>6 DEF Histories

\* What a frame adds to what is shown.
LEMMA SentRange ==
    ASSUME TypeOK, NEW c \in Conns, NEW f \in FrameSet, Sent(c, f)
    PROVE  \A d \in Conns : \A g \in Range(shown'[d]) : g \in Range(shown[d]) \/ (d = c /\ g = f)
<1>1. shown \in [Conns -> Seq(FrameSet)] /\ shown[c] \in Seq(FrameSet)
    BY DEF TypeOK
<1>2. CASE link[c] = "open"
  <2>1. shown'[c] = Append(shown[c], f) /\ \A d \in Conns \ {c} : shown'[d] = shown[d]
    BY <1>1, <1>2 DEF Sent
  <2>2. Range(Append(shown[c], f)) = Range(shown[c]) \union {f}
    BY <1>1, RangeAppend
  <2> QED
    BY <2>1, <2>2
<1>3. CASE link[c] # "open"
    BY <1>3 DEF Sent
<1> QED
    BY <1>2, <1>3

LEMMA InitHistories == Init => Histories
<1> SUFFICES ASSUME Init PROVE Histories
    OBVIOUS
<1>1. \A c \in Conns : hist[c] = <<>> /\ Range(shown[c]) = {}
    BY DEF Init, Range
<1>2. feed = <<>> /\ Len(<<>>) = 0
    BY DEF Init
<1>3. Past(<<>>)
    BY <1>2 DEF Past
<1> HIDE DEF Past
<1> QED
    BY <1>1, <1>3 DEF Histories

LEMMA StepHistories == IInv /\ Histories /\ [Next]_vars => Histories'
<1> SUFFICES ASSUME IInv, Histories, [Next]_vars PROVE Histories'
    OBVIOUS
<1>1. TypeOK /\ hist \in [Conns -> Seq(Msgs)] /\ feed \in Seq(Msgs)
    BY DEF IInv, TypeOK
<1>2. ASSUME UNCHANGED <<hist, shown>>, feed' = feed \/ \E m \in Msgs : feed' = Append(feed, m) PROVE Histories'
    BY <1>1, <1>2, HistoriesKept
<1>3. CASE UNCHANGED vars
    BY <1>2, <1>3 DEF vars, server, browser
<1>4. ASSUME NEW b \in Browsers, Connect(b) PROVE Histories'
    BY <1>2, <1>4 DEF Connect
<1>5. ASSUME NEW c \in Conns,
             Close(c) \/ JoinRegister(c) \/ JoinRaises(c) \/ ReceiveMessage(c) \/ Leave(c)
      PROVE  Histories'
    BY <1>2, <1>5 DEF Close, JoinRegister, JoinRaises, ReceiveMessage, Leave, server, browser
<1>6. ASSUME NEW c \in Conns, JoinLoad(c) PROVE Histories'
  <2> DEFINE n == IF Len(feed) < HistoryLimit THEN Len(feed) ELSE HistoryLimit
             h == SubSeq(feed, 1, n)
  <2>1. hist' = [hist EXCEPT ![c] = h] /\ UNCHANGED <<feed, shown>>
    BY <1>6 DEF JoinLoad, browser
  <2>2. Len(feed) \in Nat /\ HistoryLimit \in Nat
    BY <1>1, LenProperties, HubConstants
  <2>3. n \in 0 .. Len(feed)
    BY <2>2
  <2>4. Len(h) <= Len(feed) /\ \A i \in 1 .. Len(h) : h[i] = feed[i]
    BY <1>1, <2>2, <2>3, SubSeqProperties
  <2> HIDE DEF n, h
  <2>5. hist'[c] = h /\ \A d \in Conns : d # c => hist'[d] = hist[d]
    BY <1>1, <2>1
  <2>6. \A d \in Conns : Past(hist[d])'
    BY <2>1, <2>4, <2>5 DEF Histories, Past
  <2>7. \A d \in Conns : \A f \in Range(shown'[d]) : f.type = "history" => Past(f.msgs)'
    BY <2>1 DEF Histories, Past
  <2> QED
    BY <2>6, <2>7 DEF Histories
<1>7. ASSUME NEW c \in Conns, JoinSend(c) PROVE Histories'
  <2> DEFINE f == Frame("history", hist[c])
  <2>1. /\ hist' = [hist EXCEPT ![c] = <<>>] /\ UNCHANGED feed
        /\ Sent(c, f) \/ UNCHANGED shown
    BY <1>7 DEF JoinSend
  <2>2. f \in FrameSet /\ f.msgs = hist[c]
    BY <1>1, FrameType
  <2> HIDE DEF f
  <2>3. \A d \in Conns : \A g \in Range(shown'[d]) : g \in Range(shown[d]) \/ (d = c /\ g = f)
    BY <1>1, <2>1, <2>2, SentRange
  <2>4. \A d \in Conns : hist'[d] \in {hist[d], <<>>}
    BY <1>1, <2>1
  <2> QED
    BY <1>1, <2>1, <2>2, <2>3, <2>4, HistoriesKept
<1>8. ASSUME NEW m \in Msgs, NEW c \in Conns, BroadcastSend(m, c) PROVE Histories'
  <2> DEFINE f == Frame("message", <<m>>)
  <2>1. UNCHANGED <<hist, feed>> /\ (Sent(c, f) \/ UNCHANGED shown)
    BY <1>8 DEF BroadcastSend
  <2>2. f \in FrameSet /\ f.type # "history"
    BY FrameType DEF Frame
  <2> HIDE DEF f
  <2>3. \A d \in Conns : \A g \in Range(shown'[d]) : g \in Range(shown[d]) \/ (d = c /\ g = f)
    BY <1>1, <2>1, <2>2, SentRange
  <2> QED
    BY <1>1, <2>1, <2>2, <2>3, HistoriesKept
<1>9. ASSUME NEW m \in Msgs, Submit(m) \/ PostToNobody(m) \/ BroadcastLock(m) \/ BroadcastEnd(m) PROVE Histories'
    BY <1>2, <1>9 DEF Submit, PostToNobody, BroadcastLock, BroadcastEnd, browser
<1>10. ASSUME NEW m \in Msgs, Save(m) \/ SaveRaises(m) \/ Ingest(m) PROVE Histories'
    BY <1>2, <1>10 DEF Save, SaveRaises, Ingest, browser
<1> QED
    BY <1>3, <1>4, <1>5, <1>6, <1>7, <1>8, <1>9, <1>10 DEF Next, Serve, Handle

\* A client that has joined misses no message that is broadcast, however its
\* join raced with posts, frames, broadcasts and the dropping of clients
\* (ws_handler registers the client before it loads the history); a message of
\* the feed that is never broadcast it misses only if it loaded its history
\* before.
THEOREM NoMessageMissed == Spec => []NoGap
<1>1. IInv /\ Histories => NoGap
  <2> SUFFICES ASSUME IInv, Histories, NEW c \in Conns, NEW i \in DOMAIN feed, Joined(c), i <= HistoryLimit,
                      Silent(feed[i]), ~After(c, i)
               PROVE  feed[i] \in MsgsOf(c)
    BY DEF IInv, GapClosed, Has, NoGap, Joined
  <2>1. TypeOK /\ Len(feed) \in Nat /\ i \in 1 .. Len(feed) /\ shown[c] \in Seq(FrameSet)
    BY LenProperties DEF IInv, TypeOK
  <2>2. PICK f \in Range(shown[c]) : f.type = "history" /\ ~(Len(f.msgs) < i)
    BY DEF After
  <2>3. f \in FrameSet
    BY <2>1, ElementOfSeq, LenProperties DEF Range
  <2>4. f.msgs \in Seq(Msgs) /\ Past(f.msgs)
    BY <2>2, <2>3 DEF FrameSet, Histories
  <2>5. i \in DOMAIN f.msgs /\ f.msgs[i] = feed[i]
    BY <2>1, <2>2, <2>4, LenProperties DEF Past
  <2>6. feed[i] \in Range(f.msgs)
    BY <2>5 DEF Range
  <2> QED
    BY <2>2, <2>6 DEF MsgsOf
<1>2. Spec => []Histories
    BY InitHistories, StepHistories, Invariance, PTL DEF Spec
<1> QED
    BY <1>1, <1>2, Invariance, PTL

-----------------------------------------------------------------------------
(***************************************************************************)
(* The order in which connections get the broadcasts.                      *)
(***************************************************************************)
\* Where connection c shows the broadcast of m.
Live(c, m) == {i \in DOMAIN shown[c] : shown[c][i] = Frame("message", <<m>>)}

\* The broadcast of m has not come to c.
Early(c, m) == step[m] \in {"new", "sent", "ignored", "save", "lock"} \/ c \in todo[m]

\* Every broadcast is shown once, when its turn has come; the one that holds
\* the lock is the latest wherever it is shown.  Two broadcasts are in the
\* same order for all because the second is nowhere as long as the first goes out.
Once == \A c \in Conns, m \in Msgs : \A i, j \in Live(c, m) : i = j
NotYet == \A c \in Conns, m \in Msgs : Early(c, m) => Live(c, m) = {}
Latest == \A c \in Conns, m, n \in Msgs : lock = m => \A i \in Live(c, m), j \in Live(c, n) : j <= i
OneOrder ==
    \A c, d \in Conns, m, n \in Msgs :
        \A i \in Live(c, m), j \in Live(c, n), k \in Live(d, m), l \in Live(d, n) : ~(i < j /\ l < k)
Order == Once /\ NotYet /\ Latest /\ OneOrder

\* A step that shows no broadcast, and takes up none that somebody has, keeps the order.
LEMMA OrderKept ==
    ASSUME Order,
           \A c \in Conns, m \in Msgs : Live(c, m)' = Live(c, m) /\ (Early(c, m)' => Early(c, m)),
           \A m \in Msgs : lock' = m => lock = m \/ \A c \in Conns : Early(c, m)
    PROVE  Order'
<1>1. Once' /\ NotYet' /\ OneOrder'
    BY DEF Order, Once, NotYet, OneOrder
<1>2. Latest'
    BY DEF Order, NotYet, Latest
<1> QED
    BY <1>1, <1>2 DEF Order

\* As long as nothing is rendered, broadcasts stay where they are.
LEMMA NothingShown ==
    ASSUME Order, UNCHANGED <<shown, lock>>,
           \A c \in Conns, m \in Msgs : Early(c, m)' => Early(c, m)
    PROVE  Order'
    BY OrderKept DEF Live

\* What a rendered frame adds to the positions.
LEMMA LiveAppend ==
    ASSUME TypeOK, NEW c \in Conns, NEW f \in FrameSet, Sent(c, f), link[c] = "open"
    PROVE  \A n \in Msgs :
             /\ Live(c, n) \subseteq 1 .. Len(shown[c])
             /\ f = Frame("message", <<n>>) => Live(c, n)' = Live(c, n) \union {Len(shown[c]) + 1}
             /\ f # Frame("message", <<n>>) => Live(c, n)' = Live(c, n)
             /\ \A d \in Conns : d # c => Live(d, n)' = Live(d, n)
<1> DEFINE s == shown[c]
           t == Append(s, f)
<1>1. s \in Seq(FrameSet) /\ shown' = [shown EXCEPT ![c] = t] /\ shown \in [Conns -> Seq(FrameSet)]
    BY DEF TypeOK, Sent
<1>2. shown'[c] = t /\ \A d \in Conns : d # c => shown'[d] = shown[d]
    BY <1>1
<1>3. /\ Len(s) \in Nat /\ DOMAIN s = 1 .. Len(s) /\ DOMAIN t = 1 .. Len(s) + 1
      /\ \A i \in 1 .. Len(s) : t[i] = s[i]
      /\ t[Len(s) + 1] = f
    BY <1>1, AppendProperties, LenProperties
<1> HIDE DEF s, t
<1> SUFFICES ASSUME NEW n \in Msgs
             PROVE  /\ Live(c, n) \subseteq 1 .. Len(s)
                    /\ f = Frame("message", <<n>>) => Live(c, n)' = Live(c, n) \union {Len(s) + 1}
                    /\ f # Frame("message", <<n>>) => Live(c, n)' = Live(c, n)
                    /\ \A d \in Conns : d # c => Live(d, n)' = Live(d, n)
    BY DEF s
<1>4. Live(c, n) = {i \in 1 .. Len(s) : s[i] = Frame("message", <<n>>)}
    BY <1>3 DEF Live, s
<1>5. Live(c, n)' = {i \in 1 .. Len(s) + 1 : t[i] = Frame("message", <<n>>)}
    BY <1>2, <1>3 DEF Live, Frame
<1>6. \A i \in 1 .. Len(s) + 1 : i \in 1 .. Len(s) \/ i = Len(s) + 1
    BY <1>3
<1>7. \A i \in 1 .. Len(s) : i \in 1 .. Len(s) + 1 /\ i # Len(s) + 1
    BY <1>3
<1>8. Len(s) + 1 \in 1 .. Len(s) + 1
    BY <1>3
<1>9. \A d \in Conns : d # c => Live(d, n)' = Live(d, n)
    BY <1>2 DEF Live, Frame
<1> QED
    BY <1>3, <1>4, <1>5, <1>6, <1>7, <1>8, <1>9

\* Frames differ in their type or their message.
LEMMA FramesDiffer ==
    /\ \A m, n \in Msgs : Frame("message", <<m>>) = Frame("message", <<n>>) => m = n
    /\ \A h, m : Frame("history", h) # Frame("message", <<m>>)
<1>1. ASSUME NEW m \in Msgs, NEW n \in Msgs, Frame("message", <<m>>) = Frame("message", <<n>>) PROVE m = n
  <2>1. Frame("message", <<m>>).msgs = <<m>> /\ Frame("message", <<n>>).msgs = <<n>>
    BY DEF Frame
  <2>2. <<m>> = <<n>>
    BY <1>1, <2>1
  <2> QED
    BY <2>2
<1>2. ASSUME NEW h, NEW m PROVE Frame("history", h) # Frame("message", <<m>>)
  <2>1. Frame("history", h).type = "history" /\ Frame("message", <<m>>).type = "message"
    BY DEF Frame
  <2> QED
    BY <2>1
<1> QED
    BY <1>1, <1>2

\* Sending the history adds no broadcast.
LEMMA JoinSendOrder ==
    ASSUME IInv, Order, NEW c \in Conns, JoinSend(c)
    PROVE  Order'
<1>1. /\ UNCHANGED <<lock, todo, step>>
      /\ Sent(c, Frame("history", hist[c])) \/ UNCHANGED shown
    BY DEF JoinSend, hub
<1>2. TypeOK /\ Frame("history", hist[c]) \in FrameSet
    BY FrameType DEF IInv, TypeOK
<1>3. \A d \in Conns, m \in Msgs : Early(d, m)' => Early(d, m)
    BY <1>1 DEF Early
<1>4. CASE UNCHANGED shown
    BY <1>1, <1>3, <1>4, NothingShown
<1>5. CASE Sent(c, Frame("history", hist[c])) /\ link[c] = "open"
  <2> DEFINE f == Frame("history", hist[c])
  <2>1. \A m \in Msgs : f # Frame("message", <<m>>)
    BY FramesDiffer
  <2> HIDE DEF f
  <2>2. \A m \in Msgs : Live(c, m)' = Live(c, m) /\ \A d \in Conns : d # c => Live(d, m)' = Live(d, m)
    BY <1>2, <1>5, <2>1, LiveAppend DEF f
  <2>3. \A d \in Conns, m \in Msgs : Live(d, m)' = Live(d, m)
    BY <2>2
  <2> QED
    BY <1>1, <1>3, <2>3, OrderKept
<1>6. CASE Sent(c, Frame("history", hist[c])) /\ link[c] # "open"
  <2>1. UNCHANGED shown
    BY <1>6 DEF Sent
  <2> QED
    BY <1>4, <2>1
<1> QED
    BY <1>1, <1>4, <1>5, <1>6

\* The broadcast that gets the lock has come to nobody.
LEMMA BroadcastLockOrder ==
    ASSUME IInv, Order, NEW m \in Msgs, BroadcastLock(m)
    PROVE  Order'
<1>1. /\ step[m] = "lock" /\ lock' = m /\ todo' = [todo EXCEPT ![m] = clients] /\ Goto(m, "send")
      /\ UNCHANGED shown /\ TypeOK
    BY DEF BroadcastLock, browser, IInv
<1>2. step'[m] = "send" /\ \A n \in Msgs : n # m => step'[n] = step[n]
    BY <1>1, StepTo DEF StepNames
<1>3. \A n \in Msgs : n # m => todo'[n] = todo[n]
    BY <1>1 DEF TypeOK
<1>4. \A c \in Conns, n \in Msgs : Early(c, n)' => Early(c, n)
    BY <1>1, <1>2, <1>3 DEF Early
<1>5. \A c \in Conns : Early(c, m)
    BY <1>1 DEF Early
<1>6. \A c \in Conns, n \in Msgs : Live(c, n)' = Live(c, n)
    BY <1>1 DEF Live
<1> QED
    BY <1>1, <1>4, <1>5, <1>6, OrderKept

\* A broadcast appends itself, behind everything that the client has got.
LEMMA BroadcastSendOrder ==
    ASSUME IInv, Order, NEW m \in Msgs, NEW c \in Conns, BroadcastSend(m, c)
    PROVE  Order'
<1>1. /\ step[m] = "send" /\ c \in todo[m] /\ todo' = [todo EXCEPT ![m] = @ \ {c}]
      /\ Sent(c, Frame("message", <<m>>)) \/ UNCHANGED shown
      /\ UNCHANGED <<lock, step>> /\ TypeOK
    BY DEF BroadcastSend, IInv
<1>2. lock = m /\ todo'[m] = todo[m] \ {c} /\ \A n \in Msgs : n # m => todo'[n] = todo[n]
    BY <1>1 DEF TypeOK
<1>3. \A d \in Conns, n \in Msgs : Early(d, n)' => Early(d, n)
    BY <1>1, <1>2 DEF Early
<1>4. CASE UNCHANGED shown
    BY <1>1, <1>3, <1>4, NothingShown
<1>5. CASE link[c] # "open"
    BY <1>1, <1>4, <1>5 DEF Sent
<1>6. CASE Sent(c, Frame("message", <<m>>)) /\ link[c] = "open"
  <2> DEFINE k == Len(shown[c]) + 1
  <2>1. /\ \A n \in Msgs : Live(c, n) \subseteq 1 .. Len(shown[c])
        /\ Live(c, m)' = Live(c, m) \union {k}
        /\ \A n \in Msgs : n # m => Live(c, n)' = Live(c, n)
        /\ \A d \in Conns : d # c => \A n \in Msgs : Live(d, n)' = Live(d, n)
    BY <1>1, <1>6, LiveAppend, FramesDiffer, FrameType, ZenonT(60)
  <2>2. Len(shown[c]) \in Nat
    BY <1>1, LenProperties DEF TypeOK
  <2>3. \A n \in Msgs : \A i \in Live(c, n) : i \in Nat /\ i < k
    BY <2>1, <2>2
  <2> HIDE DEF k
  <2>4. Live(c, m) = {}
    BY <1>1 DEF Order, NotYet, Early
  <2>5. Live(c, m)' = {k}
    BY <2>1, <2>4
  <2>6. Once'
    BY <2>1, <2>5 DEF Order, Once
  <2>7. NotYet'
    <3> SUFFICES ASSUME NEW d \in Conns, NEW n \in Msgs, Early(d, n)'
                 PROVE  Live(d, n)' = {}
      BY DEF NotYet
    <3>1. ~(d = c /\ n = m)
      BY <1>1, <1>2 DEF Early
    <3>2. Live(d, n) = {}
      BY <1>3 DEF Order, NotYet
    <3> QED
      BY <2>1, <3>1, <3>2
  <2>8. Latest'
    <3> SUFFICES ASSUME NEW d \in Conns, NEW n \in Msgs,
                        NEW i \in Live(d, m)', NEW j \in Live(d, n)'
                 PROVE  j <= i
      BY <1>1, <1>2 DEF Latest
    <3>1. CASE d = c
      BY <2>1, <2>2, <2>3, <2>5, <3>1 DEF k
    <3>2. CASE d # c
      BY <1>2, <2>1, <3>2 DEF Order, Latest
    <3> QED
      BY <3>1, <3>2
  <2>9. \A d \in Conns, n \in Msgs : \A i \in Live(d, m)', j \in Live(d, n)' : ~(i < j)
    <3> SUFFICES ASSUME NEW d \in Conns, NEW n \in Msgs, NEW i \in Live(d, m)', NEW j \in Live(d, n)'
                 PROVE  ~(i < j)
      OBVIOUS
    <3>1. j <= i
      BY <1>1, <1>2, <2>8 DEF Latest
    <3>2. i \in Int /\ j \in Int
      <4>1. i \in DOMAIN shown'[d] /\ j \in DOMAIN shown'[d]
        BY DEF Live
      <4>2. shown'[d] \in Seq(FrameSet)
        BY <1>1, <1>6, SentFacts, FrameType
      <4> QED
        BY <4>1, <4>2, LenProperties
    <3> QED
      BY <3>1, <3>2
  <2>10. OneOrder'
    <3> SUFFICES ASSUME NEW d \in Conns, NEW e \in Conns, NEW n \in Msgs, NEW p \in Msgs,
                        NEW i \in Live(d, n)', NEW j \in Live(d, p)',
                        NEW a \in Live(e, n)', NEW b \in Live(e, p)', i < j, b < a
                 PROVE  FALSE
      BY DEF OneOrder
    <3>1. n # m /\ p # m
      BY <2>9
    <3>2. i \in Live(d, n) /\ j \in Live(d, p) /\ a \in Live(e, n) /\ b \in Live(e, p)
      BY <2>1, <3>1
    <3> QED
      BY <3>2 DEF Order, OneOrder
  <2> QED
    BY <2>6, <2>7, <2>8, <2>10 DEF Order
<1> QED
    BY <1>1, <1>4, <1>5, <1>6

\* Whatever else a handler or a browser does.
LEMMA OtherOrder ==
    ASSUME IInv, Order, NEW m \in Msgs,
           \/ UNCHANGED step
           \/ /\ \E l \in StepNames \ {"send"} : Goto(m, l)
              /\ step[m] \in {"done", "send", "raised", "ingested"} => step'[m] = "done",
           UNCHANGED <<todo, shown>>, lock' \in {lock, Nobody}
    PROVE  Order'
<1>1. TypeOK /\ \A n \in Msgs : n # Nobody
    BY HubConstants DEF IInv
<1>2. \A n \in Msgs : step'[n] = step[n] \/ (n = m /\ (step[m] \in {"done", "send", "raised", "ingested"} => step'[m] = "done"))
    BY <1>1, StepTo
<1>3. \A n \in Msgs : step[n] \in StepNames
    BY <1>1 DEF TypeOK, StepNames
<1>4. \A c \in Conns, n \in Msgs : Early(c, n)' => Early(c, n)
    BY <1>2, <1>3 DEF Early, StepNames
<1>5. \A c \in Conns, n \in Msgs : Live(c, n)' = Live(c, n)
    BY DEF Live
<1> QED
    BY <1>1, <1>4, <1>5, OrderKept

LEMMA InitOrder == Init => Order
<1> SUFFICES ASSUME Init PROVE Order
    OBVIOUS
<1>1. \A c \in Conns, m \in Msgs : Live(c, m) = {}
    BY DEF Init, Live
<1> QED
    BY <1>1 DEF Order, Once, NotYet, Latest, OneOrder

LEMMA StepOrder == IInv /\ Order /\ [Next]_vars => Order'
<1> SUFFICES ASSUME IInv, Order, [Next]_vars PROVE Order'
    OBVIOUS
<1>1. ASSUME UNCHANGED <<step, todo, shown, lock>> PROVE Order'
  <2>1. \A c \in Conns, m \in Msgs : Early(c, m)' => Early(c, m)
    BY <1>1 DEF Early
  <2> QED
    BY <1>1, <2>1, NothingShown
<1>2. CASE UNCHANGED vars
    BY <1>1, <1>2 DEF vars, server, hub, browser
<1>3. ASSUME NEW b \in Browsers, Connect(b) PROVE Order'
    BY <1>1, <1>3 DEF Connect, hub
<1>4. ASSUME NEW c \in Conns, Close(c) \/ JoinRegister(c) \/ JoinLoad(c) \/ JoinRaises(c) \/ Leave(c) PROVE Order'
    BY <1>1, <1>4 DEF Close, JoinRegister, JoinLoad, JoinRaises, Leave, server, hub, network, browser
<1>5. ASSUME NEW c \in Conns, ReceiveMessage(c) PROVE Order'
  <2> DEFINE m == Head(up[c])
  <2>1. /\ up[c] # <<>> /\ m # "join" /\ UNCHANGED <<todo, shown, lock>>
        /\ Goto(m, "save") \/ Goto(m, "ignored")
    BY <1>5 DEF ReceiveMessage, hub, browser
  <2>2. m \in Frames /\ step[m] = "sent" /\ TypeOK
    <3>1. TypeOK /\ Typed
      BY DEF IInv
    <3>2. up[c] \in Seq({"join"} \union Frames)
      BY <3>1 DEF TypeOK
    <3>3. 1 \in 1 .. Len(up[c]) /\ m = up[c][1] /\ m \in {"join"} \union Frames
      BY <2>1, <3>2, HeadTailProperties, LenProperties, EmptySeq
    <3> QED
      BY <2>1, <3>1, <3>3 DEF Typed, Unread
  <2> HIDE DEF m
  <2>3. m \in Msgs /\ \E l \in StepNames \ {"send"} : Goto(m, l)
    BY <2>1, <2>2 DEF Msgs, StepNames
  <2> QED
    BY <2>1, <2>2, <2>3, OtherOrder
<1>6. ASSUME NEW c \in Conns, Serve(c) PROVE Order'
    BY <1>4, <1>5, <1>6, JoinSendOrder DEF Serve
<1>7. ASSUME NEW m \in Msgs, Submit(m) PROVE Order'
  <2>1. step[m] = "new" /\ Goto(m, "sent") /\ "sent" \in StepNames \ {"send"} /\ UNCHANGED <<todo, shown, lock>>
    BY <1>7 DEF Submit, hub, browser, StepNames
  <2> QED
    BY <2>1, OtherOrder
<1>8. ASSUME NEW m \in Msgs, Save(m) \/ SaveRaises(m) \/ Ingest(m) PROVE Order'
  <2>1. PICK l \in StepNames \ {"send"} : Goto(m, l)
    BY <1>8 DEF Save, SaveRaises, Ingest, StepNames
  <2>2. step[m] \in {"new", "save"} /\ UNCHANGED <<todo, shown, lock>>
    BY <1>8 DEF Save, SaveRaises, Ingest, Accepted, hub, browser
  <2> QED
    BY <2>1, <2>2, OtherOrder
<1>9. ASSUME NEW m \in Msgs, PostToNobody(m) PROVE Order'
  <2>1. /\ step[m] = "lock" /\ Goto(m, "done") /\ "done" \in StepNames \ {"send"}
        /\ UNCHANGED <<todo, shown, lock>>
    BY <1>9 DEF PostToNobody, hub, browser, StepNames
  <2> QED
    BY <2>1, OtherOrder
<1>10. ASSUME NEW m \in Msgs, BroadcastEnd(m) PROVE Order'
  <2>1. /\ step[m] = "send" /\ Goto(m, "done") /\ "done" \in StepNames \ {"send"}
        /\ UNCHANGED <<todo, shown>> /\ lock' = Nobody
    BY <1>10 DEF BroadcastEnd, Done, browser, StepNames
  <2>2. step'[m] = "done"
    BY <2>1, StepTo DEF IInv
  <2> QED
    BY <2>1, <2>2, OtherOrder
<1>11. ASSUME NEW m \in Msgs, Handle(m) PROVE Order'
    BY <1>8, <1>9, <1>10, <1>11, BroadcastLockOrder, BroadcastSendOrder DEF Handle
<1> QED
    BY <1>2, <1>3, <1>4, <1>6, <1>7, <1>11 DEF Next

\* All connections get the broadcasts in one order, although each broadcast is
\* a series of sends between which other threads run (_broadcast_ws holds
\* clients_lock from the first send to the last).
THEOREM BroadcastOrder == Spec => []AgreedOrder
<1>1. IInv /\ Order => AgreedOrder
  <2> SUFFICES ASSUME IInv, Order PROVE AgreedOrder
    OBVIOUS
  <2>1. \A c \in Conns, m \in Msgs : LiveAt(c, m) \in Nat /\ (0 < LiveAt(c, m) => LiveAt(c, m) \in Live(c, m))
    <3> SUFFICES ASSUME NEW c \in Conns, NEW m \in Msgs
                 PROVE  LiveAt(c, m) \in Nat /\ (0 < LiveAt(c, m) => LiveAt(c, m) \in Live(c, m))
      OBVIOUS
    <3>1. Live(c, m) \subseteq Nat
      BY LenProperties DEF IInv, TypeOK, Live
    <3>2. LiveAt(c, m) = IF Live(c, m) = {} THEN 0 ELSE CHOOSE i \in Live(c, m) : TRUE
      BY DEF LiveAt, Live
    <3> QED
      BY <3>1, <3>2
  <2> SUFFICES ASSUME NEW c \in Conns, NEW d \in Conns, NEW m \in Msgs, NEW n \in Msgs,
                      0 < LiveAt(c, m), LiveAt(c, m) < LiveAt(c, n), 0 < LiveAt(d, n),
                      LiveAt(d, n) < LiveAt(d, m)
               PROVE  FALSE
    BY DEF AgreedOrder
  <2>2. 0 < LiveAt(c, n) /\ 0 < LiveAt(d, m)
    BY <2>1
  <2> QED
    BY <2>1, <2>2 DEF Order, OneOrder
<1>2. Spec => []Order
    BY InitOrder, StepOrder, Invariance, PTL DEF Spec
<1> QED
    BY <1>1, <1>2, Invariance, PTL
=============================================================================
