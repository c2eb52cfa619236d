-------------------------- MODULE MCNetworkFraming --------------------------
EXTENDS NetworkFraming

Json == {<<"x">>, <<"y", "x">>, <<"x", "x", "y">>}

\* What the theorems of FramingProofs assume of the messages.
ASSUME MessagesArePlain == PlainMessages
=============================================================================
