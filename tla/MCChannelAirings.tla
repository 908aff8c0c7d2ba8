-------------------------- MODULE MCChannelAirings --------------------------
(* Small instances of ChannelAirings: a song from a bag, a podcast episode    *)
(* and a bulletin, each from a source of its own.                             *)
EXTENDS ChannelAirings

CONSTANTS song, episode, bulletin, music, podcast, news

mcSourceOf == [i \in Items |->
  IF i = song THEN music ELSE IF i = episode THEN podcast ELSE news]
=============================================================================
