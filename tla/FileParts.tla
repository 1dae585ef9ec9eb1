------------------------------ MODULE FileParts ------------------------------
(***************************************************************************)
(* What the readers of picture files, of Workshop packages and the client's *)
(* thumbnail makers take, and where their error paths release it. What a    *)
(* reader needs only while it reads is released on success too; "drops" is  *)
(* what its caller gets and gives back.                                     *)
(***************************************************************************)
EXTENDS LifeSteps

PixelsDrops == <<"pixels">>

(* the formats a picture is read from *)
PngTakes ==
    << Need("reader", {}, << >>), Need("info", {"reader"}, <<"reader">>),
       Check(<<"info", "reader">>, Fails),
       Need("pixels", {}, <<"info", "reader">>),
       Need("rows", {}, <<"pixels", "info", "reader">>),
       Check(<<"info", "reader", "pixels", "rows">>, Fails),
       Frees(<<"rows", "info", "reader">>) >>

JpegTakes ==
    << Need("decoder", {}, << >>), Check(<<"decoder">>, Fails), Need("pixels", {}, <<"decoder">>),
       Check(<<"pixels", "decoder">>, Fails), Frees(<<"decoder">>) >>

BmpTakes ==
    << Check(<< >>, Fails), Need("row", {}, << >>), Need("pixels", {}, <<"row">>),
       Check(<<"row", "pixels">>, Fails), Frees(<<"row">>) >>

GifPictureTakes ==
    << Need("pixels", {}, << >>), Need("rows", {}, <<"pixels">>),
       Check(<<"rows", "pixels">>, Fails), Frees(<<"rows">>) >>

WebpPictureTakes ==
    << Check(<< >>, Fails), Need("pixels", {}, << >>), Check(<<"pixels">>, Fails) >>

AvifTakes ==
    << Need("decoder", {}, << >>), Check(<<"decoder">>, Fails), Need("pixels", {}, <<"decoder">>),
       Check(<<"pixels", "decoder">>, Fails), Frees(<<"decoder">>) >>

\* A basic info must come before the pixels; an error ends the loop.
JxlTakes ==
    << Need("decoder", {}, << >>), Check(<<"decoder">>, Fails), Need("pixels", {}, <<"decoder">>),
       Check(<<"decoder", "pixels">>, Fails), Frees(<<"decoder">>) >>

SvgTakes ==
    << Need("handle", {}, << >>), May("text", {}, 1), Frees(<<"text">>),
       Need("surface", {}, <<"handle">>), Always("context", {"surface"}),
       Need("pixels", {}, <<"context", "surface", "handle">>),
       Frees(<<"context", "surface", "handle">>) >>

SvgPlainTakes ==
    << Need("text", {}, << >>), Check(<<"text">>, Fails), Need("pixels", {}, <<"text">>),
       Frees(<<"text">>) >>

MemoryTakes ==
    << Need("stream", {}, << >>), Need("pixels", {}, <<"stream">>), Frees(<<"stream">>) >>

\* A regular file is mapped; what cannot be mapped is read to its end.
FdPictureTakes ==
    << May("mapping", {}, 3), Need("pixels", {}, <<"mapping">>), Sure(<<"mapping">>, Done),
       Need("buffer", {}, << >>), Check(<<"buffer">>, Fails), Need("pixels", {}, <<"buffer">>),
       Frees(<<"buffer">>) >>

PictureTakes ==
    << Need("file", {}, << >>), Check(<<"file">>, Fails),
       May("mapping", {"file"}, 3), Need("pixels", {}, <<"mapping", "file">>),
       Sure(<<"mapping", "file">>, Done),
       Need("pixels", {}, <<"file">>), Frees(<<"file">>) >>

\* Written to a temporary file that takes the picture's name at the end.
SavedTakes ==
    << Need("file", {}, << >>), Always("temporary", {}),
       Need("stream", {"file"}, <<"file", "temporary">>),
       Need("writer", {}, <<"stream", "file", "temporary">>),
       Need("info", {"writer"}, <<"writer", "stream", "file", "temporary">>),
       Need("row", {}, <<"info", "writer", "stream", "file", "temporary">>),
       Check(<<"row", "info", "writer", "stream", "file", "temporary">>, Fails),
       Frees(<<"row", "info", "writer">>),
       Check(<<"stream", "file", "temporary">>, Fails), Frees(<<"stream", "file">>),
       Need("picture", {}, <<"temporary">>), Frees(<<"temporary">>) >>

PictureParts ==
    [png |-> [takes |-> PngTakes, drops |-> PixelsDrops],
     jpeg |-> [takes |-> JpegTakes, drops |-> PixelsDrops],
     bmp |-> [takes |-> BmpTakes, drops |-> PixelsDrops],
     gifPicture |-> [takes |-> GifPictureTakes, drops |-> PixelsDrops],
     webpPicture |-> [takes |-> WebpPictureTakes, drops |-> PixelsDrops],
     avif |-> [takes |-> AvifTakes, drops |-> PixelsDrops],
     jxl |-> [takes |-> JxlTakes, drops |-> PixelsDrops],
     svg |-> [takes |-> SvgTakes, drops |-> PixelsDrops],
     svgPlain |-> [takes |-> SvgPlainTakes, drops |-> PixelsDrops],
     memory |-> [takes |-> MemoryTakes, drops |-> PixelsDrops],
     fdPicture |-> [takes |-> FdPictureTakes, drops |-> PixelsDrops],
     picture |-> [takes |-> PictureTakes, drops |-> PixelsDrops],
     saved |-> [takes |-> SavedTakes, drops |-> <<"picture">>]]

-----------------------------------------------------------------------------
(* a Workshop package, and a file beside one *)
PackageDrops == <<"entries", "slots", "mapping", "file", "package">>
PackageUndo == <<"package", "mapping", "file">>

\* The table may begin a byte later: what was read of it is given up first.
TableTakes ==
    << Check(<< >>, Done),
       Step("entries", {}, << >>, {4}), Check(<<"entries">>, 3),
       Step("slots", {}, <<"entries">>, {2}), Sure(<< >>, Done) >>
TableAgain ==
    << Check(PackageUndo, Fails), Check(<< >>, Done),
       Need("entries", {}, PackageUndo), Check(<<"entries">> \o PackageUndo, Fails),
       Need("slots", {}, <<"entries">> \o PackageUndo) >>

PackageTakes ==
    << Need("file", {}, << >>), Check(<<"file">>, Fails), Need("mapping", {"file"}, <<"file">>),
       Need("package", {}, <<"mapping", "file">>) >> \o TableTakes \o TableAgain

LooseFileTakes ==
    << Need("file", {}, << >>), Check(<<"file">>, Fails), Need("bytes", {}, <<"file">>),
       Check(<<"bytes", "file">>, Fails), Frees(<<"file">>) >>

-----------------------------------------------------------------------------
(* a texture of a scene, which may be a picture, raw texels or a video *)
TexDecoderDrops == <<"scaler", "frame", "packet", "codec", "libraries", "swdec">>
TexDrops ==
    TexDecoderDrops \o <<"data", "pixels", "levels", "images", "frames", "demuxer", "mp4",
                         "glTextures", "array", "tex">>

TexStarts ==
    << Check(<< >>, Fails), Need("tex", {}, << >>), Need("images", {"tex"}, TexDrops) >>

TexLevels ==
    << Check(TexDrops, Fails), Need("levels", {"images"}, TexDrops), Check(TexDrops, Fails),
       Need("data", {"levels"}, TexDrops), Check(TexDrops, Fails) >>

\* A video keeps its bytes, a picture replaces them, raw texels stay; then
\* the frames of an animation.
TexKinds ==
    << Check(<< >>, 5), Always("mp4", {}), Frees(<<"data">>), May("demuxer", {"mp4"}, 1),
       Sure(<< >>, 4),
       Check(<< >>, 3), Need("pixels", {"levels"}, TexDrops), Frees(<<"data">>),
       Check(<< >>, 3), Check(TexDrops, Fails), Need("frames", {}, TexDrops) >>

\* One image on the card: a level it cannot take as it is is decoded first.
UploadedTakes ==
    << Need("texture", {}, << >>), Check(<< >>, 3), Need("rgba", {}, <<"texture">>),
       Frees(<<"rgba">>), Check(<< >>, Done), Step("rgba", {}, << >>, {Done}),
       Frees(<<"rgba">>) >>

MipTakes == << Check(<< >>, Fails), Need("rgba", {}, << >>), Check(<<"rgba">>, Fails) >>

TexUploads ==
    << Check(<< >>, 2), Need("array", {}, TexDrops), Need("glTextures", {}, TexDrops),
       Unless({"mp4"}, Frees(<<"data", "pixels">>)) >>

\* A decoder that could not be set up stays, and is not tried again.
TexDecodes ==
    << May("swdec", {"demuxer"}, Done), Check(<< >>, Done), May("libraries", {}, Done),
       Check(<< >>, Done), May("codec", {"libraries"}, 1), May("packet", {"libraries"}, 1),
       May("frame", {"libraries"}, 1), May("scaler", {"codec", "frame"}, 1) >>

TexTakes == TexStarts \o TexLevels \o TexKinds \o TexUploads \o TexDecodes

-----------------------------------------------------------------------------
(* the client: a video made smaller, and a picture of one *)
ProbeTakes ==
    << Need("file", {}, << >>), Check(<<"file">>, Fails), Step("mapping", {}, <<"file">>, {Fails}),
       Frees(<<"file">>), Frees(<<"mapping">>) >>

\* Without the lock the work is done all the same.
SmallerTakes ==
    << Check(<< >>, Fails), Check(<< >>, Done), May("lock", {}, 1), Check(<<"lock">>, Done),
       Step("temporary", {}, <<"lock">>, {Done, Fails}),
       Need("video", {}, <<"temporary", "lock">>), Frees(<<"temporary", "lock">>) >>

FfmpegRuns ==
    << Need("child", {}, << >>), Always("temporary", {}),
       Check(<<"child", "temporary">>, Fails), Frees(<<"child">>) >>

PreviewTakes == << Need("pixels", {}, << >>), Check(<<"pixels">>, Fails) >>

CachedFrameTakes ==
    << Need("file", {}, << >>), Check(<<"file">>, Fails), Need("pixels", {}, <<"file">>),
       Check(<<"pixels", "file">>, Fails), Frees(<<"file">>) >>

FrameTakes ==
    << Need("pipe", {}, << >>), Always("writeEnd", {}), Need("child", {}, <<"pipe", "writeEnd">>),
       Frees(<<"writeEnd">>), Need("pixels", {}, <<"pipe", "child">>),
       Check(<<"pipe", "child", "pixels">>, Fails), Frees(<<"pipe", "child">>),
       May("cache", {}, 1), Frees(<<"cache">>) >>

TextureParts ==
    [package |-> [takes |-> PackageTakes, drops |-> PackageDrops],
     looseFile |-> [takes |-> LooseFileTakes, drops |-> <<"bytes">>],
     tex |-> [takes |-> TexTakes, drops |-> TexDrops],
     uploaded |-> [takes |-> UploadedTakes, drops |-> <<"texture">>],
     mip |-> [takes |-> MipTakes, drops |-> <<"rgba">>],
     probe |-> [takes |-> ProbeTakes, drops |-> << >>],
     smaller |-> [takes |-> SmallerTakes, drops |-> <<"video">>],
     ffmpegRun |-> [takes |-> FfmpegRuns, drops |-> <<"temporary">>],
     preview |-> [takes |-> PreviewTakes, drops |-> PixelsDrops],
     cachedFrame |-> [takes |-> CachedFrameTakes, drops |-> PixelsDrops],
     frame |-> [takes |-> FrameTakes, drops |-> PixelsDrops]]
=============================================================================
