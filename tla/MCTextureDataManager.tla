-------------------------- MODULE MCTextureDataManager --------------------------
(* TextureDataManager with interchangeable textures, decodable ones and not. *)
EXTENDS TextureDataManager, TLC

TextureSymmetry == Permutations(Textures \ Broken)
================================================================================
