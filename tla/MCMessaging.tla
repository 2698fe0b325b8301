----------------------------- MODULE MCMessaging -----------------------------
EXTENDS Messaging

CONSTANTS ch1, ch2

\* A ring of three slots and up to seven events: the ring fills, wraps
\* twice, and single and double logging steps cross its end.
MCCapacity == 3
MCChannels == {ch1, ch2}
MCMaxEvents == 7
\* Up to three messages (two events each) over three milliseconds: a
\* limit of two cuts a channel of three, with and without ties.
MCLimit == 2
MCMaxTime == 2
=============================================================================
