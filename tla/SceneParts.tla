----------------------------- MODULE SceneParts ------------------------------
(***************************************************************************)
(* What a Workshop scene takes while its files are read, its shaders are    *)
(* built and it is put on the graphics card, and where it is given back.    *)
(***************************************************************************)
EXTENDS LifeSteps

-----------------------------------------------------------------------------
(* files out of the package *)

\* One name after another is tried: the bytes of a file go before the next.
FirstTakes(x) ==
    << Step("bytes", {}, << >>, {4}), Check(<<"bytes">>, 3), Step(x, {}, <<"bytes">>, {2}),
       Sure(<<"bytes">>, Done) >>
Candidates(x) == FirstTakes(x) \o
    << Need("bytes", {}, << >>), Check(<<"bytes">>, Fails), Need(x, {}, <<"bytes">>),
       Frees(<<"bytes">>) >>

TexFileTakes == Candidates("tex")
PuppetFileTakes == Candidates("puppet")
ParticleFileTakes == Candidates("particles")

\* A built-in text stands in for a file that is not there.
ShaderTextTakes == FirstTakes("text") \o << Need("text", {}, << >>) >>

JsonTakes ==
    << Need("bytes", {}, << >>), Check(<<"bytes">>, Fails), Need("root", {}, <<"bytes">>),
       Frees(<<"bytes">>) >>

MaterialTakes == << Need("root", {}, << >>), Always("values", {}), Frees(<<"root">>) >>

\* Default textures change the text: it is preprocessed a second time.
PassDrops == <<"textures", "values", "preprocessed", "program">>
PassTakes ==
    << May("textures", {}, 1), May("vertexText", {}, 1), May("fragmentText", {}, 1),
       May("preprocessed", {}, 1), Check(<< >>, 4),
       Frees(<<"preprocessed">>), Unless({"textures"}, May("textures", {}, 1)),
       May("preprocessed", {}, 1),
       Frees(<<"vertexText", "fragmentText">>) >>

\* A program that cannot be built is replaced by the built-in one.
PassUploads ==
    << May("program", {}, 1), Unless({"program"}, Step("fallback", {}, << >>, {2})),
       Unless({"program"}, May("program", {}, 1)), Frees(<<"fallback", "preprocessed">>) >>

-----------------------------------------------------------------------------
(* sounds *)
SamplesDrops == <<"samples">>

\* What is resampled is given up, whatever comes of it.
Resamples ==
    << Check(<<"pcm">>, Fails), Step("samples", {}, <<"pcm">>, {Fails}), Frees(<<"pcm">>) >>

WavTakes == << Check(<< >>, Fails), Need("pcm", {}, << >>) >> \o Resamples
AuTakes == << Check(<< >>, Fails), Need("pcm", {}, << >>) >> \o Resamples

Libraries == <<"format", "codecs", "utilities">>
FfmpegStarts ==
    << Check(<< >>, Fails), May("format", {}, 1), May("codecs", {}, 1), May("utilities", {}, 1),
       Unless({"format", "codecs", "utilities"}, Sure(Libraries, Fails)),
       Check(Libraries, Fails) >>

\* Every failure goes the same way out; pcm is the resampler's when it has it.
FfmpegUndo ==
    <<"pcm", "picture", "packet", "codec", "input", "buffer", "reader">> \o Libraries
FfmpegTakes == FfmpegStarts \o
    << Need("buffer", {"utilities"}, FfmpegUndo), Need("reader", {"format"}, FfmpegUndo),
       Need("input", {"reader"}, FfmpegUndo), Check(FfmpegUndo, Fails),
       Need("codec", {"codecs"}, FfmpegUndo), Check(FfmpegUndo, Fails),
       May("pcm", {}, 1), May("packet", {"codecs"}, 1), May("picture", {"utilities"}, 1),
       Unless({"pcm", "packet", "picture"}, Sure(FfmpegUndo, Fails)),
       Check(FfmpegUndo, Fails), Need("samples", {}, FfmpegUndo), Frees(FfmpegUndo) >>

SoundFileTakes ==
    << May("bytes", {}, 1),
       Unless({"bytes"}, Need("file", {}, << >>)), Unless({"bytes"}, Need("bytes", {}, <<"file">>)),
       Frees(<<"file">>), Check(<<"bytes">>, Fails), Need("samples", {}, <<"bytes">>),
       Frees(<<"bytes">>) >>

-----------------------------------------------------------------------------
(* shaders *)
IncludeTakes ==
    << Need("bytes", {}, << >>), Need("text", {}, <<"bytes">>), Frees(<<"bytes">>),
       Check(<<"text">>, Fails), Frees(<<"text">>), Always("expanded", {}) >>

PairTakes ==
    << Need("vertexText", {}, << >>), Need("fragmentText", {}, <<"vertexText">>),
       Check(<<"vertexText", "fragmentText">>, Fails),
       May("vertexNew", {}, 1), May("fragmentNew", {}, 1), Frees(<<"vertexText", "fragmentText">>),
       Unless({"vertexNew", "fragmentNew"}, Sure(<<"vertexNew", "fragmentNew">>, Fails)),
       May("vertex", {}, 1), May("fragment", {}, 1), Frees(<<"vertexNew", "fragmentNew">>),
       Unless({"vertex", "fragment"}, Sure(<<"vertex", "fragment">>, Fails)) >>

ProgramTakes ==
    << Need("vertexShader", {}, << >>), Need("fragmentShader", {}, <<"vertexShader">>),
       Need("program", {}, <<"vertexShader", "fragmentShader">>),
       Frees(<<"vertexShader", "fragmentShader">>), Check(<<"program">>, Fails) >>

StageTakes == << Need("shader", {}, << >>), Check(<<"shader">>, Fails) >>

SceneFileParts ==
    [texFile |-> [takes |-> TexFileTakes, drops |-> <<"tex">>],
     puppetFile |-> [takes |-> PuppetFileTakes, drops |-> <<"puppet">>],
     particleFile |-> [takes |-> ParticleFileTakes, drops |-> <<"particles">>],
     shaderText |-> [takes |-> ShaderTextTakes, drops |-> <<"text">>],
     json |-> [takes |-> JsonTakes, drops |-> <<"root">>],
     material |-> [takes |-> MaterialTakes, drops |-> <<"values">>],
     pass |-> [takes |-> PassTakes \o PassUploads, drops |-> PassDrops],
     wav |-> [takes |-> WavTakes, drops |-> SamplesDrops],
     au |-> [takes |-> AuTakes, drops |-> SamplesDrops],
     ffmpeg |-> [takes |-> FfmpegTakes, drops |-> SamplesDrops],
     soundFile |-> [takes |-> SoundFileTakes, drops |-> SamplesDrops],
     include |-> [takes |-> IncludeTakes, drops |-> <<"expanded">>],
     pair |-> [takes |-> PairTakes, drops |-> <<"vertex", "fragment">>],
     stage |-> [takes |-> StageTakes, drops |-> <<"shader">>],
     program |-> [takes |-> ProgramTakes, drops |-> <<"program">>]]

-----------------------------------------------------------------------------
(* the puppets and the particles *)
PuppetDrops ==
    <<"elements", "weights", "positions", "arrays", "keyframes", "tracks", "animations", "bones",
      "matrices", "skinned", "indices", "vertices", "puppet">>

PuppetStarts ==
    << Check(<< >>, Fails), Need("puppet", {}, << >>), Check(PuppetDrops, Fails),
       May("vertices", {"puppet"}, 1), May("skinned", {"puppet"}, 1),
       Unless({"vertices", "skinned"}, Sure(PuppetDrops, Fails)) >>
PuppetMesh ==
    << Check(PuppetDrops, Fails), Need("indices", {"puppet"}, PuppetDrops),
       Check(PuppetDrops, Fails) >>
PuppetBones ==
    << Check(<< >>, 6), Check(PuppetDrops, Fails),
       May("bones", {"puppet"}, 1), May("matrices", {"puppet"}, 1),
       Unless({"bones", "matrices"}, Sure(PuppetDrops, Fails)), Check(PuppetDrops, Fails) >>
PuppetAnimations ==
    << Check(<< >>, 6), Check(PuppetDrops, Fails), Need("animations", {"puppet"}, PuppetDrops),
       Need("tracks", {"animations"}, PuppetDrops), Check(PuppetDrops, Fails),
       Need("keyframes", {"tracks"}, PuppetDrops) >>

PuppetUndo == <<"elements", "weights", "positions", "arrays">>
PuppetUploads ==
    << Always("arrays", {}), Always("positions", {}), Always("weights", {}), Always("elements", {}),
       Step("buffer", {}, PuppetUndo, {Done}), Frees(<<"buffer">>) >>

PuppetTakes == PuppetStarts \o PuppetMesh \o PuppetBones \o PuppetAnimations \o PuppetUploads

ParticleDrops == <<"elements", "corners", "arrays", "vertices", "block", "system">>

ParticleTakes ==
    << Need("root", {}, << >>), Check(<<"root">>, Fails), Need("system", {}, <<"root">>),
       Need("block", {"system"}, <<"root", "system">>), Frees(<<"root">>),
       Need("vertices", {"system"}, <<"block", "system">>) >>

\* Both arrays are replaced, or neither.
ParticleGrows ==
    << May("newBlock", {}, 3), Step("newVertices", {}, <<"newBlock">>, {2}),
       Frees(<<"block", "vertices">>),
       Unless({"block"}, Always("block", {"system"})), Unless({"vertices"}, Always("vertices", {"system"})),
       Frees(<<"newBlock", "newVertices">>) >>

ParticleUndo == <<"elements", "corners", "arrays">>
ParticleUploads ==
    << Always("arrays", {}), Always("corners", {}), Always("elements", {}),
       Step("numbers", {}, ParticleUndo, {Done}), Frees(<<"numbers">>) >>

-----------------------------------------------------------------------------
(* the scene *)
SceneDrops ==
    <<"puppets", "particles", "scripts", "sounds", "text", "pictures", "passes", "effectTargets",
      "effectPasses", "effects", "pings", "object", "objects", "images", "targets", "sceneTarget",
      "drawTarget", "programs", "quad", "utilities", "albumTexture", "context", "albumArt",
      "package", "scene">>

\* What an object of the scene brings with it, if it can be read.
ObjectLayers ==
    << May("text", {"objects"}, 1), May("model", {}, 1), Frees(<<"model">>),
       May("puppets", {"objects"}, 1), May("particles", {"objects"}, 1),
       May("passes", {"objects"}, 1), May("scripts", {"objects"}, 1),
       May("sounds", {"objects"}, 1) >>
ObjectEffects ==
    << May("effects", {"objects"}, 3), May("effectFile", {}, 2),
       May("effectPasses", {"effects"}, 1), Frees(<<"effectFile">>) >>
ObjectSteps == ObjectLayers \o ObjectEffects

SceneStarts ==
    << Check(<< >>, Fails), Need("scene", {}, << >>), Need("package", {"scene"}, <<"scene">>),
       May("root", {}, Len(ObjectSteps) + 4), May("objects", {"scene"}, Len(ObjectSteps) + 2),
       Step("object", {"objects"}, << >>, {Len(ObjectSteps) + 1}) >>
    \o ObjectSteps \o << Frees(<<"root">>) >>

\* A scene without an object shows its picture, if everything for that is had.
FallbackTakes ==
    << Unless({"object"}, May("pictures", {}, 4)), Unless({"object"}, Check(<<"pictures">>, 3)),
       Unless({"object"}, Frees(<<"objects">>)), Unless({"object"}, Always("objects", {"scene"})) >>

\* Without a context the scene lives and draws nothing.
SceneContext == << May("context", {"scene"}, Done) >>

SceneOnCard ==
    << Always("quad", {"context"}), May("programs", {"context"}, 1), Always("drawTarget", {"context"}),
       Always("utilities", {"context"}), May("albumTexture", {"context"}, 1), Frees(<<"package">>) >>

AlbumArtTakes ==
    << May("albumArt", {"scene"}, 1), Frees(<<"albumTexture">>),
       May("albumTexture", {"context"}, 1) >>

SceneDraws ==
    << May("sceneTarget", {"context"}, 1), May("targets", {"context"}, 1),
       May("pings", {"objects", "context"}, 1), May("effectTargets", {"effects", "context"}, 1),
       May("images", {"context"}, 1) >>

SceneTakes ==
    SceneStarts \o FallbackTakes \o SceneContext \o SceneOnCard \o AlbumArtTakes \o SceneDraws

\* A buffer of an output as a texture of the scene's.
ImageDrops == <<"texture", "image">>
ImageTakes == << Check(<< >>, Fails), Need("image", {}, << >>), Always("texture", {"image"}) >>

\* The texture a text is written to; without bytes it stays as it was.
TextDrops == <<"bytes", "levels", "pictures", "tex">>
TextTakes ==
    << Need("tex", {}, << >>), Need("pictures", {}, <<"tex">>),
       Need("levels", {}, <<"pictures", "tex">>), May("bytes", {}, 1) >>

SceneOwnParts ==
    [puppet |-> [takes |-> PuppetTakes, drops |-> PuppetDrops],
     particle |-> [takes |-> ParticleTakes \o ParticleGrows \o ParticleUploads, drops |-> ParticleDrops],
     scene |-> [takes |-> SceneTakes, drops |-> SceneDrops],
     image |-> [takes |-> ImageTakes, drops |-> ImageDrops],
     text |-> [takes |-> TextTakes, drops |-> TextDrops]]
=============================================================================
