-------------------------- MODULE MCTalkSignalling --------------------------
EXTENDS TalkSignalling
=============================================================================
