-------------------------- MODULE RemoteTestProps --------------------------
(***************************************************************************)
(* What makes the remote test screen, and the injector before it, correct. *)
(***************************************************************************)
EXTENDS RemoteTest

RemoteTypeOK ==
    /\ InjectTypeOK
    /\ app \in {"starting", "running", "closed", "failed"}
    /\ raw_mode \in {"off", "found", "missing"}
    /\ reader \in {"none", "reading", "ended"}
    /\ channel \in Seq(KeyEvent) /\ since \in Seq(KeyEvent)
    /\ told \in [Clients -> Seq(KeyEvent)]
    /\ rows \in Seq(Row) /\ Len(rows) <= VisibleRows
    /\ seq \in Nat /\ presses \in 0..seq
    /\ last \in KeyEvent /\ count_label = <<seq, presses>>
    /\ mode_line \in {"none", "off", "raw"}

Own(rs, source) == Selected(rs, {i \in DOMAIN rs : rs[i].source = source})

Keys(source) == [i \in DOMAIN Own(rows, source) |-> Own(rows, source)[i].key]

\* keys.rs:113-134, main.rs:70-93: two sources share the rows.  They are
\* numbered without a gap, newest first, and those of one source are the last
\* keys it reported in the order it reported them: neither hides the other's.
\* Every event counts, and as presses those of the seat alone.
LogTellsAll ==
    /\ seq = Len(told["seat"]) + Len(told["raw"])
    /\ presses = Downs(told["seat"])
    /\ Len(rows) = IF seq < VisibleRows THEN seq ELSE VisibleRows
    /\ \A i \in DOMAIN rows : rows[i].seq = seq - i + 1
    /\ \A c \in Clients : IsSuffix(Reverse(Keys(c)), told[c])
    /\ rows # <<>> => last = rows[1].key

\* raw.rs:99-129: whatever the two threads do, and however many keys wait for
\* the timer, none is lost, doubled or overtaken on its way from the node to
\* the log while the device is there, and none ever is invented.  The queue of
\* the node is taken for as long as it need be: a reader that falls behind by more
\* than evdev's buffer gets a SYN_DROPPED, which raw.rs:107 passes over.
RawInOrder ==
    /\ app = "running" /\ plugged =>
           told["raw"] \o channel \o KeysOf(queue["raw"]) = since
    /\ IsPrefix(told["raw"] \o channel, since)

\* uinput-inject.rs:91-171: between two commands the keys that are down are
\* those that press asked to hold, and of these the ones the device has; but
\* for the finger of a touch that was answered with err halfway.
OnlyAskedKeysDown ==
    injector = "reading" =>
        held \ (IF torn THEN {"BTN_TOUCH"} ELSE {}) =
            (asked \cap Declared) \ (IF torn THEN {"BTN_TOUCH"} ELSE {})

\* main.rs:99: "which layers are live".  The footer is written once; what it
\* says of the raw layer stays true as long as the device and the window do.  What
\* was opened is taken for an evdev node: raw.rs:64 asks of a path only that it
\* exists, and with a plain file the reader would end at once behind the footer.
FooterTrue ==
    app = "running" =>
        /\ mode_line = "off" <=> reader = "none"
        /\ mode_line = "raw" /\ plugged => reader = "reading"

\* main.rs:75-93: if the window and the device stay, every key the node gives
\* comes to be shown.
AllShown ==
    <>[](app = "running" /\ plugged) => <>[](told["raw"] = since)

=============================================================================
